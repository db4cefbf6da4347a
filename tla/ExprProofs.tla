----------------------------- MODULE ExprProofs -----------------------------
(***************************************************************************)
(* The parser by binding powers reads every text as the grammar does, and  *)
(* evaluation stops at the first operand that faults, for any limits.      *)
(***************************************************************************)
EXTENDS Expr, FiniteSetTheorems, SequenceTheorems, TLAPS

-----------------------------------------------------------------------------
(* Induction, and the recursive functions of the model. *)

(* A set of natural numbers that has one has a least one. *)
LEMMA LeastNat ==
  ASSUME NEW T \in SUBSET Nat, T # {}
  PROVE  \E x \in T : \A y \in T : x <= y
<1> DEFINE F == {1 .. n : n \in T}
<1>1. F \subseteq FiniteSubsetsOf(Nat)
  <2>1. ASSUME NEW n \in Nat PROVE IsFiniteSet(1 .. n) /\ 1 .. n \subseteq Nat
    BY FS_Interval
  <2> QED BY <2>1 DEF FiniteSubsetsOf
<1>2. F # {}
  OBVIOUS
<1>3. IsWellFoundedOn(StrictSubsetOrdering(Nat), FiniteSubsetsOf(Nat))
  BY FS_StrictSubsetOrderingWellFounded
<1> HIDE DEF F
<1>4. \E w \in F : \A y \in F : ~(<<y, w>> \in StrictSubsetOrdering(Nat))
  BY <1>1, <1>2, <1>3, WFMin, Zenon
<1>5. PICK x \in T : \A y \in F : ~(<<y, 1 .. x>> \in StrictSubsetOrdering(Nat))
  BY <1>4 DEF F
<1>6. ASSUME NEW y \in T, y < x PROVE FALSE
  <2>1. x \in 1 .. x /\ x \notin 1 .. y
    BY <1>6
  <2>2. 1 .. y \subseteq 1 .. x /\ 1 .. y # 1 .. x /\ 1 .. x \subseteq Nat /\ 1 .. y \subseteq Nat
    BY <1>6, <2>1
  <2> QED BY <1>5, <2>2 DEF F, StrictSubsetOrdering
<1> QED BY <1>6

(* Induction on a set of natural numbers. *)
LEMMA Induction ==
  ASSUME NEW T, 0 \in T, \A n \in Nat : n \in T => n + 1 \in T
  PROVE  \A n \in Nat : n \in T
<1> SUFFICES ASSUME Nat \ T # {} PROVE FALSE
  OBVIOUS
<1>1. PICK x \in Nat \ T : \A y \in Nat \ T : x <= y
  BY LeastNat
<1>2. x # 0 /\ x - 1 \in Nat /\ x - 1 < x
  BY <1>1
<1>3. x - 1 \in T
  BY <1>1, <1>2
<1> QED BY <1>1, <1>2, <1>3

(* lex, one character after the other. *)
LEMMA LexStep ==
  ASSUME NEW text, Len(text) \in Nat
  PROVE  LET upto == Upto(text)
         IN  /\ upto[0] = <<>>
             /\ \A k \in 0 .. Len(text) :
                  k # 0 => upto[k] = IF text[k] = Blank THEN upto[k - 1] ELSE Append(upto[k - 1], text[k])
<1> DEFINE Def(f, k) == IF k = 0 THEN <<>>
                        ELSE IF text[k] = Blank THEN f[k - 1] ELSE Append(f[k - 1], text[k])
           Solves(f, n) == f = [k \in 0 .. n |-> Def(f, k)]
           T == {n \in Nat : \E f : Solves(f, n)}
<1>1. 0 \in T
  <2> DEFINE f == [k \in 0 .. 0 |-> <<>>]
  <2>1. Solves(f, 0)
    OBVIOUS
  <2> QED BY <2>1
<1>2. ASSUME NEW n \in Nat, n \in T PROVE n + 1 \in T
  <2>1. PICK f : Solves(f, n)
    BY <1>2
  <2>4. \A k \in 0 .. n : f[k] = Def(f, k)
    <3> HIDE DEF Def
    <3> QED BY <2>1
  <2> DEFINE g == [k \in 0 .. n + 1 |-> IF k = n + 1 THEN IF text[n + 1] = Blank THEN f[n] ELSE Append(f[n], text[n + 1]) ELSE f[k]]
  <2>2. ASSUME NEW k \in 0 .. n + 1 PROVE g[k] = Def(g, k)
    <3>1. CASE k = n + 1
      BY <3>1
    <3>2. CASE k # n + 1
      <4>1. k \in 0 .. n /\ g[k] = f[k] /\ f[k] = Def(f, k)
        BY <3>2, <2>4
      <4>2. k # 0 => k - 1 \in 0 .. n + 1 /\ k - 1 # n + 1
        BY <4>1
      <4> QED BY <4>1, <4>2
    <3> QED BY <3>1, <3>2
  <2>3. g = [k \in 0 .. n + 1 |-> Def(g, k)]
    BY <2>2
  <2> HIDE DEF g, Def
  <2> QED BY <2>3
<1> HIDE DEF T
<1>3. Len(text) \in T
  BY <1>1, <1>2, Induction
<1>4. \E f : Solves(f, Len(text))
  BY <1>3 DEF T
<1> DEFINE upto == Upto(text)
<1>5. Solves(upto, Len(text))
  BY <1>4, Zenon DEF Upto
<1> HIDE DEF upto
<1>6. \A k \in 0 .. Len(text) : upto[k] = Def(upto, k)
  BY <1>5, Zenon
<1> QED BY <1>6 DEF upto

(* The loop of Parser::expr as its turns. *)
LEMMA TurnsStep ==
  ASSUME NEW ts, Len(ts) \in Nat, NEW deeper, NEW pos, NEW minBp
  PROVE  LET turns == Turns(ts, deeper, pos, minBp)
         IN  /\ turns[0] = Prefix(ts, deeper, pos)
             /\ \A k \in 0 .. Len(ts) :
                  k # 0 => turns[k] = Turn(ts, deeper, minBp, turns[k - 1])
<1> DEFINE Def(f, k) == IF k = 0 THEN Prefix(ts, deeper, pos) ELSE Turn(ts, deeper, minBp, f[k - 1])
           Solves(f, n) == f = [k \in 0 .. n |-> Def(f, k)]
           T == {n \in Nat : \E f : Solves(f, n)}
<1>1. 0 \in T
  <2> DEFINE f == [k \in 0 .. 0 |-> Prefix(ts, deeper, pos)]
  <2>1. Solves(f, 0)
    OBVIOUS
  <2> QED BY <2>1
<1>2. ASSUME NEW n \in Nat, n \in T PROVE n + 1 \in T
  <2>1. PICK f : Solves(f, n)
    BY <1>2
  <2>4. \A k \in 0 .. n : f[k] = Def(f, k)
    <3> HIDE DEF Def
    <3> QED BY <2>1
  <2> DEFINE g == [k \in 0 .. n + 1 |-> IF k = n + 1 THEN Turn(ts, deeper, minBp, f[n]) ELSE f[k]]
  <2>2. ASSUME NEW k \in 0 .. n + 1 PROVE g[k] = Def(g, k)
    <3>1. CASE k = n + 1
      BY <3>1
    <3>2. CASE k # n + 1
      <4>1. k \in 0 .. n /\ g[k] = f[k] /\ f[k] = Def(f, k)
        BY <3>2, <2>4
      <4>2. k # 0 => k - 1 \in 0 .. n + 1 /\ k - 1 # n + 1
        BY <4>1
      <4> QED BY <4>1, <4>2
    <3> QED BY <3>1, <3>2
  <2>3. g = [k \in 0 .. n + 1 |-> Def(g, k)]
    BY <2>2
  <2> HIDE DEF g, Def
  <2> QED BY <2>3
<1> HIDE DEF T
<1>3. Len(ts) \in T
  BY <1>1, <1>2, Induction
<1>4. \E f : Solves(f, Len(ts))
  BY <1>3 DEF T
<1> DEFINE turns == Turns(ts, deeper, pos, minBp)
<1>5. Solves(turns, Len(ts))
  BY <1>4, Zenon DEF Turns
<1> HIDE DEF turns
<1>6. \A k \in 0 .. Len(ts) : turns[k] = Def(turns, k)
  BY <1>5, Zenon
<1> QED BY <1>6 DEF turns

(* Parser::expr as its levels. *)
LEMMA LevelsStep ==
  ASSUME NEW ts
  PROVE  LET levels == Levels(ts)
         IN  \A room \in 0 .. MaxDepth + 1 : \A call \in Calls(ts) :
               levels[room][call] = IF room = 0 THEN Failed
                                    ELSE Turns(ts, levels[room - 1], call[1], call[2])[Len(ts)]
<1> DEFINE Def(f, k) == [call \in Calls(ts) |->
              IF k = 0 THEN Failed ELSE Turns(ts, f[k - 1], call[1], call[2])[Len(ts)]]
           Solves(f, n) == f = [k \in 0 .. n |-> Def(f, k)]
           T == {n \in Nat : \E f : Solves(f, n)}
<1>1. 0 \in T
  <2> DEFINE f == [k \in 0 .. 0 |-> [call \in Calls(ts) |-> Failed]]
  <2>1. Solves(f, 0)
    OBVIOUS
  <2> QED BY <2>1
<1>2. ASSUME NEW n \in Nat, n \in T PROVE n + 1 \in T
  <2>1. PICK f : Solves(f, n)
    BY <1>2
  <2>4. \A k \in 0 .. n : f[k] = Def(f, k)
    <3> HIDE DEF Def
    <3> QED BY <2>1
  <2> DEFINE g == [k \in 0 .. n + 1 |-> IF k = n + 1 THEN [call \in Calls(ts) |-> Turns(ts, f[n], call[1], call[2])[Len(ts)]] ELSE f[k]]
  <2>2. ASSUME NEW k \in 0 .. n + 1 PROVE g[k] = Def(g, k)
    <3>1. CASE k = n + 1
      BY <3>1
    <3>2. CASE k # n + 1
      <4>1. k \in 0 .. n /\ g[k] = f[k] /\ f[k] = Def(f, k)
        BY <3>2, <2>4
      <4>2. k # 0 => k - 1 \in 0 .. n + 1 /\ k - 1 # n + 1
        BY <4>1
      <4> QED BY <4>1, <4>2
    <3> QED BY <3>1, <3>2
  <2>3. g = [k \in 0 .. n + 1 |-> Def(g, k)]
    BY <2>2
  <2> HIDE DEF g, Def
  <2> QED BY <2>3
<1> HIDE DEF T
<1>3. MaxDepth + 1 \in T
  BY <1>1, <1>2, Induction, ExprAssumption
<1>4. \E f : Solves(f, MaxDepth + 1)
  BY <1>3 DEF T
<1> DEFINE levels == Levels(ts)
<1>5. Solves(levels, MaxDepth + 1)
  BY <1>4, Zenon DEF Levels
<1> HIDE DEF levels
<1>6. \A k \in 0 .. MaxDepth + 1 : levels[k] = Def(levels, k)
  BY <1>5, Zenon
<1>7. ASSUME NEW room \in 0 .. MaxDepth + 1, NEW call \in Calls(ts)
      PROVE  levels[room][call] = IF room = 0 THEN Failed
                                  ELSE Turns(ts, levels[room - 1], call[1], call[2])[Len(ts)]
  <2>1. levels[room] = Def(levels, room)
    BY <1>6, Zenon
  <2> QED BY <2>1, Zenon
<1> HIDE DEF Def
<1> QED BY <1>7, Zenon DEF levels

(* Expr::eval as its visits. *)
LEMMA WalkStep ==
  ASSUME NEW tree, NEW rec
  PROVE  LET walk == Walk(tree, rec)
         IN  /\ walk[0] = <<tree>>
             /\ \A k \in 0 .. MaxTokens :
                  k # 0 => walk[k] = IF walk[k - 1] = <<>> THEN <<>> ELSE Visit(walk[k - 1], rec)
<1> DEFINE Def(f, k) == IF k = 0 THEN <<tree>> ELSE IF f[k - 1] = <<>> THEN <<>> ELSE Visit(f[k - 1], rec)
           Solves(f, n) == f = [k \in 0 .. n |-> Def(f, k)]
           T == {n \in Nat : \E f : Solves(f, n)}
<1>1. 0 \in T
  <2> DEFINE f == [k \in 0 .. 0 |-> <<tree>>]
  <2>1. Solves(f, 0)
    OBVIOUS
  <2> QED BY <2>1
<1>2. ASSUME NEW n \in Nat, n \in T PROVE n + 1 \in T
  <2>1. PICK f : Solves(f, n)
    BY <1>2
  <2>4. \A k \in 0 .. n : f[k] = Def(f, k)
    <3> HIDE DEF Def
    <3> QED BY <2>1
  <2> DEFINE g == [k \in 0 .. n + 1 |-> IF k = n + 1 THEN IF f[n] = <<>> THEN <<>> ELSE Visit(f[n], rec) ELSE f[k]]
  <2>2. ASSUME NEW k \in 0 .. n + 1 PROVE g[k] = Def(g, k)
    <3>1. CASE k = n + 1
      BY <3>1
    <3>2. CASE k # n + 1
      <4>1. k \in 0 .. n /\ g[k] = f[k] /\ f[k] = Def(f, k)
        BY <3>2, <2>4
      <4>2. k # 0 => k - 1 \in 0 .. n + 1 /\ k - 1 # n + 1
        BY <4>1
      <4> QED BY <4>1, <4>2
    <3> QED BY <3>1, <3>2
  <2>3. g = [k \in 0 .. n + 1 |-> Def(g, k)]
    BY <2>2
  <2> HIDE DEF g, Def
  <2> QED BY <2>3
<1> HIDE DEF T
<1>3. MaxTokens \in T
  BY <1>1, <1>2, Induction, ExprAssumption
<1>4. \E f : Solves(f, MaxTokens)
  BY <1>3 DEF T
<1> DEFINE walk == Walk(tree, rec)
<1>5. Solves(walk, MaxTokens)
  BY <1>4, Zenon DEF Walk
<1> HIDE DEF walk
<1>6. \A k \in 0 .. MaxTokens : walk[k] = Def(walk, k)
  BY <1>5, Zenon
<1> QED BY <1>6, ExprAssumption DEF walk

(* The phrases of a text by their stages. *)
LEMMA PhrasesStep ==
  ASSUME NEW ts, Len(ts) \in Nat
  PROVE  LET upto == Phrases(ts)
         IN  /\ upto[0] = {}
             /\ \A k \in 0 .. Len(ts) : k # 0 => upto[k] = Longer(ts, upto[k - 1])
<1> DEFINE Def(f, k) == IF k = 0 THEN {} ELSE Longer(ts, f[k - 1])
           Solves(f, n) == f = [k \in 0 .. n |-> Def(f, k)]
           T == {n \in Nat : \E f : Solves(f, n)}
<1>1. 0 \in T
  <2> DEFINE f == [k \in 0 .. 0 |-> {}]
  <2>1. Solves(f, 0)
    OBVIOUS
  <2> QED BY <2>1
<1>2. ASSUME NEW n \in Nat, n \in T PROVE n + 1 \in T
  <2>1. PICK f : Solves(f, n)
    BY <1>2
  <2>4. \A k \in 0 .. n : f[k] = Def(f, k)
    <3> HIDE DEF Def
    <3> QED BY <2>1
  <2> DEFINE g == [k \in 0 .. n + 1 |-> IF k = n + 1 THEN Longer(ts, f[n]) ELSE f[k]]
  <2>2. ASSUME NEW k \in 0 .. n + 1 PROVE g[k] = Def(g, k)
    <3>1. CASE k = n + 1
      BY <3>1
    <3>2. CASE k # n + 1
      <4>1. k \in 0 .. n /\ g[k] = f[k] /\ f[k] = Def(f, k)
        BY <3>2, <2>4
      <4>2. k # 0 => k - 1 \in 0 .. n + 1 /\ k - 1 # n + 1
        BY <4>1
      <4> QED BY <4>1, <4>2
    <3> QED BY <3>1, <3>2
  <2>3. g = [k \in 0 .. n + 1 |-> Def(g, k)]
    BY <2>2
  <2> HIDE DEF g, Def
  <2> QED BY <2>3
<1> HIDE DEF T
<1>3. Len(ts) \in T
  BY <1>1, <1>2, Induction
<1>4. \E f : Solves(f, Len(ts))
  BY <1>3 DEF T
<1> DEFINE upto == Phrases(ts)
<1>5. Solves(upto, Len(ts))
  BY <1>4, Zenon DEF Phrases
<1> HIDE DEF upto
<1>6. \A k \in 0 .. Len(ts) : upto[k] = Def(upto, k)
  BY <1>5, Zenon
<1> QED BY <1>6 DEF upto

-----------------------------------------------------------------------------
(* The phrases of a grammar. *)

(* A phrase of a sequence of tokens lies within it. *)
IsPhrase(ts, e) ==
  /\ e.rank \in 1 .. 5 /\ e.deep \in Nat
  /\ e.from \in 1 .. Len(ts) /\ e.to \in e.from .. Len(ts)

(* What a token past the end or before the start is not. *)
LEMMA PeekWithin ==
  ASSUME NEW ts \in Seq(Tokens), NEW i \in Int, Peek(ts, i) # Blank
  PROVE  i \in 1 .. Len(ts) /\ Peek(ts, i) = ts[i]
BY DEF Peek

(* What the operands of an operator are, by the rank of what they make. *)
Binds(rank, op, l, r) ==
  \/ rank = 4 /\ op \in {"^"} /\ l.rank >= 5 /\ r.rank >= 3
  \/ rank = 2 /\ op \in {"*", "/", "%"} /\ l.rank >= 2 /\ r.rank >= 3
  \/ rank = 1 /\ op \in {"+", "-"} /\ l.rank >= 1 /\ r.rank >= 2

(* The phrase that an operator makes of the phrases on its two sides. *)
Binary(ts, rank, l, r) ==
  Phrase(rank, l.from, r.to, <<Peek(ts, l.to + 1), l.tree, r.tree>>, Larger(l.deep, r.deep + 1))

(* The rules that make a phrase e of the phrases P. *)
IsLeaf(ts, e) ==
  \E i \in DOMAIN ts : ts[i] \in Operands /\ e = Phrase(5, i, i, <<"leaf", ts[i]>>, 0)

IsParen(ts, P, e) ==
  \E d \in P : /\ Peek(ts, d.from - 1) = "(" /\ Peek(ts, d.to + 1) = ")"
               /\ e = Phrase(5, d.from - 1, d.to + 1, d.tree, d.deep + 1)

IsNegation(ts, P, e) ==
  \E d \in P : /\ d.rank >= 3 /\ Peek(ts, d.from - 1) = "-"
               /\ e = Phrase(3, d.from - 1, d.to, <<"neg", d.tree>>, d.deep + 1)

IsBinary(ts, P, e) ==
  \E l, r \in P, rank \in {1, 2, 4} :
    /\ r.from = l.to + 2
    /\ Binds(rank, Peek(ts, l.to + 1), l, r)
    /\ e = Binary(ts, rank, l, r)

(* A phrase of the next stage is one of this stage, or made by a rule. *)
LEMMA ByRule ==
  ASSUME NEW ts, NEW P, NEW e
  PROVE  e \in Longer(ts, P) <=>
           e \in P \/ IsLeaf(ts, e) \/ IsParen(ts, P, e) \/ IsNegation(ts, P, e) \/ IsBinary(ts, P, e)
<1>1. e \in Atoms(ts) <=> IsLeaf(ts, e)
  BY Zenon DEF Atoms, IsLeaf
<1>2. e \in Parens(ts, P) <=> IsParen(ts, P, e)
  BY Zenon DEF Parens, IsParen
<1>3. e \in Negations(ts, P) <=> IsNegation(ts, P, e)
  BY Zenon DEF Negations, IsNegation
<1> DEFINE Made(rank, ops, left, right) ==
             \E l, r \in P : /\ r.from = l.to + 2
                             /\ Peek(ts, l.to + 1) \in ops /\ l.rank >= left /\ r.rank >= right
                             /\ e = Binary(ts, rank, l, r)
<1>4. \A rank, ops, left, right : e \in Joined(ts, P, rank, ops, left, right)
                                    <=> Made(rank, ops, left, right)
  <2> TAKE rank, ops, left, right
  <2> DEFINE Fits(l, r) == /\ l.rank >= left /\ r.rank >= right
                           /\ Peek(ts, l.to + 1) \in ops /\ r.from = l.to + 2
  <2>1. Joined(ts, P, rank, ops, left, right)
          = {Binary(ts, rank, d[1], d[2]) : d \in {d \in P \X P : Fits(d[1], d[2])}}
    BY DEF Joined, Binary
  <2> HIDE DEF Fits
  <2>2. ASSUME NEW l \in P, NEW r \in P, Fits(l, r), e = Binary(ts, rank, l, r)
        PROVE  e \in Joined(ts, P, rank, ops, left, right)
    <3>1. <<l, r>> \in {d \in P \X P : Fits(d[1], d[2])}
      BY <2>2
    <3> QED BY <2>1, <2>2, <3>1
  <2>3. ASSUME e \in Joined(ts, P, rank, ops, left, right)
        PROVE  \E l, r \in P : Fits(l, r) /\ e = Binary(ts, rank, l, r)
    BY <2>1, <2>3
  <2> QED BY <2>2, <2>3, Zenon DEF Fits
<1>5. e \in Longer(ts, P) <=>
        \/ e \in P \/ e \in Atoms(ts) \/ e \in Parens(ts, P) \/ e \in Negations(ts, P)
        \/ e \in Joined(ts, P, 4, {"^"}, 5, 3) \/ e \in Joined(ts, P, 2, {"*", "/", "%"}, 2, 3)
        \/ e \in Joined(ts, P, 1, {"+", "-"}, 1, 2)
  BY DEF Longer
<1>6. IsBinary(ts, P, e)
        <=> Made(4, {"^"}, 5, 3) \/ Made(2, {"*", "/", "%"}, 2, 3) \/ Made(1, {"+", "-"}, 1, 2)
  BY DEF IsBinary, Binds
<1> HIDE DEF Made
<1> QED BY <1>1, <1>2, <1>3, <1>4, <1>5, <1>6, Zenon

(* Every phrase lies within its tokens. *)
LEMMA PhrasesWithin ==
  ASSUME NEW ts \in Seq(Tokens)
  PROVE  \A k \in 0 .. Len(ts) : \A e \in Phrases(ts)[k] : IsPhrase(ts, e)
<1> DEFINE T == {k \in Nat : k <= Len(ts) => \A e \in Phrases(ts)[k] : IsPhrase(ts, e)}
<1>0. Len(ts) \in Nat
  OBVIOUS
<1>1. 0 \in T
  BY <1>0, PhrasesStep
<1>2. ASSUME NEW k \in Nat, k \in T PROVE k + 1 \in T
  <2> SUFFICES ASSUME k + 1 <= Len(ts), NEW e \in Longer(ts, Phrases(ts)[k]) PROVE IsPhrase(ts, e)
    BY <1>0, PhrasesStep
  <2>1. \A d \in Phrases(ts)[k] : IsPhrase(ts, d)
    BY <1>0, <1>2
  <2> DEFINE P == Phrases(ts)[k]
  <2>0. e \in Longer(ts, P)
    OBVIOUS
  <2> HIDE DEF P
  <2>2. \A i \in Int : Peek(ts, i) \in {"(", ")", "-", "^", "*", "/", "%", "+"} => i \in 1 .. Len(ts)
    BY PeekWithin DEF Blank
  <2>3. CASE e \in P
    BY <2>1, <2>3 DEF P
  <2>4. CASE IsLeaf(ts, e)
    BY <2>4 DEF Phrase, IsPhrase, IsLeaf
  <2>5. CASE IsParen(ts, P, e)
    <3>1. PICK d \in P : /\ Peek(ts, d.from - 1) = "(" /\ Peek(ts, d.to + 1) = ")"
                         /\ e = Phrase(5, d.from - 1, d.to + 1, d.tree, d.deep + 1)
      BY <2>5 DEF IsParen
    <3>2. d.deep \in Nat /\ d.from \in Nat /\ d.to \in Nat /\ d.from <= d.to
      BY <1>0, <2>1 DEF IsPhrase, P
    <3>3. d.from - 1 \in Int /\ d.to + 1 \in Int
      BY <3>2
    <3>4. d.from - 1 \in 1 .. Len(ts) /\ d.to + 1 \in 1 .. Len(ts)
      BY <2>2, <3>1, <3>3
    <3>5. e.rank = 5 /\ e.from = d.from - 1 /\ e.to = d.to + 1 /\ e.deep = d.deep + 1
      BY <3>1 DEF Phrase
    <3>6. d.to + 1 \in (d.from - 1) .. Len(ts) /\ d.deep + 1 \in Nat /\ 5 \in 1 .. 5
      BY <1>0, <3>2, <3>4
    <3> QED BY <3>4, <3>5, <3>6, Zenon DEF IsPhrase
  <2>6. CASE IsNegation(ts, P, e)
    <3>1. PICK d \in P : /\ Peek(ts, d.from - 1) = "-"
                         /\ e = Phrase(3, d.from - 1, d.to, <<"neg", d.tree>>, d.deep + 1)
      BY <2>6 DEF IsNegation
    <3>2. d.deep \in Nat /\ d.from \in Nat /\ d.to \in Nat /\ d.from <= d.to /\ d.to <= Len(ts)
      BY <1>0, <2>1 DEF IsPhrase, P
    <3>3. d.from - 1 \in Int
      BY <3>2
    <3>4. d.from - 1 \in 1 .. Len(ts)
      BY <2>2, <3>1, <3>3
    <3>5. e.rank = 3 /\ e.from = d.from - 1 /\ e.to = d.to /\ e.deep = d.deep + 1
      BY <3>1 DEF Phrase
    <3> QED BY <1>0, <3>2, <3>4, <3>5 DEF IsPhrase
  <2>7. CASE IsBinary(ts, P, e)
    <3>1. PICK l \in P, r \in P, rank \in {1, 2, 4} :
            r.from = l.to + 2 /\ e = Binary(ts, rank, l, r)
      BY <2>7 DEF IsBinary
    <3>2. IsPhrase(ts, l) /\ IsPhrase(ts, r)
      BY <2>1 DEF P
    <3>3. /\ e.rank = rank /\ e.from = l.from /\ e.to = r.to
          /\ e.deep = Larger(l.deep, r.deep + 1)
      BY <3>1 DEF Binary, Phrase
    <3>4. Larger(l.deep, r.deep + 1) \in Nat
      BY <3>2 DEF IsPhrase, Larger
    <3>5. /\ l.from \in 1 .. Len(ts) /\ l.to \in Nat /\ l.from <= l.to
          /\ r.from \in Nat /\ r.to \in 1 .. Len(ts) /\ r.from <= r.to
      BY <1>0, <3>2 DEF IsPhrase
    <3>6. r.to \in l.from .. Len(ts)
      BY <1>0, <3>1, <3>5
    <3> QED BY <3>3, <3>4, <3>5, <3>6 DEF IsPhrase
  <2> QED BY <2>0, <2>3, <2>4, <2>5, <2>6, <2>7, ByRule, Zenon
<1> HIDE DEF T
<1>3. \A k \in Nat : k \in T
  BY <1>1, <1>2, Induction
<1> QED BY <1>0, <1>3 DEF T

(* A stage has the phrases of the stages before it. *)
LEMMA StagesGrow ==
  ASSUME NEW ts \in Seq(Tokens), NEW a \in 0 .. Len(ts), NEW b \in a .. Len(ts)
  PROVE  Phrases(ts)[a] \subseteq Phrases(ts)[b]
<1> DEFINE T == {n \in Nat : a + n <= Len(ts) => Phrases(ts)[a] \subseteq Phrases(ts)[a + n]}
<1>0. Len(ts) \in Nat
  OBVIOUS
<1>1. 0 \in T
  OBVIOUS
<1>2. ASSUME NEW n \in Nat, n \in T PROVE n + 1 \in T
  <2> SUFFICES ASSUME a + n + 1 <= Len(ts)
               PROVE  Phrases(ts)[a] \subseteq Phrases(ts)[a + n + 1]
    OBVIOUS
  <2>1. Phrases(ts)[a + n + 1] = Longer(ts, Phrases(ts)[a + n])
    BY <1>0, PhrasesStep
  <2>2. Phrases(ts)[a] \subseteq Phrases(ts)[a + n]
    BY <1>2
  <2> QED BY <2>1, <2>2, ByRule
<1> HIDE DEF T
<1>3. b - a \in T
  BY <1>1, <1>2, Induction
<1> QED BY <1>3 DEF T

(* In the stage of its own length. *)
Short(ts, e) == IsPhrase(ts, e) /\ e \in Phrases(ts)[e.to - e.from + 1]

(* A phrase made of shorter ones is in the stage of its own length, as they are. *)
LEMMA ShortOnes ==
  ASSUME NEW ts \in Seq(Tokens), NEW e, IsPhrase(ts, e), NEW D,
         \A d \in D : Short(ts, d) /\ d.to - d.from < e.to - e.from,
         IsLeaf(ts, e) \/ IsParen(ts, D, e) \/ IsNegation(ts, D, e) \/ IsBinary(ts, D, e)
  PROVE  Short(ts, e)
<1> DEFINE m == e.to - e.from
<1>1. Len(ts) \in Nat /\ m \in Nat /\ m + 1 <= Len(ts)
  BY DEF IsPhrase
<1>2. ASSUME NEW d \in D PROVE d \in Phrases(ts)[m]
  <2>1. IsPhrase(ts, d) /\ d.to - d.from < m
    BY DEF Short
  <2>2. d.to - d.from + 1 \in 0 .. Len(ts) /\ m \in (d.to - d.from + 1) .. Len(ts)
    <3>1. d.from \in Nat /\ d.to \in Nat /\ 1 <= d.from /\ d.from <= d.to /\ d.to <= Len(ts)
      BY <1>1, <2>1 DEF IsPhrase
    <3>2. \A a, b, c, n \in Nat : 1 <= a /\ a <= b /\ b <= n /\ b - a < c /\ c + 1 <= n =>
            b - a + 1 \in 0 .. n /\ c \in (b - a + 1) .. n
      OBVIOUS
    <3> HIDE DEF m
    <3> QED BY <1>1, <2>1, <3>1, <3>2
  <2>3. d \in Phrases(ts)[d.to - d.from + 1]
    BY DEF Short
  <2> HIDE DEF m
  <2> QED BY <2>2, <2>3, StagesGrow
<1>3. IsLeaf(ts, e) \/ IsParen(ts, Phrases(ts)[m], e) \/ IsNegation(ts, Phrases(ts)[m], e)
        \/ IsBinary(ts, Phrases(ts)[m], e)
  <2> HIDE DEF m
  <2> QED BY <1>2, Zenon DEF IsParen, IsNegation, IsBinary
<1>4. e \in Longer(ts, Phrases(ts)[m])
  BY <1>3, ByRule, Zenon
<1>5. Phrases(ts)[m + 1] = Longer(ts, Phrases(ts)[m])
  <2> HIDE DEF m
  <2>1. m + 1 \in 0 .. Len(ts) /\ m + 1 # 0 /\ (m + 1) - 1 = m
    BY <1>1
  <2> QED BY <1>1, <2>1, PhrasesStep
<1> QED BY <1>4, <1>5 DEF Short

-----------------------------------------------------------------------------
(* The parser. *)

Powers == {0, 2, 4, 5, 6}

(* The binding powers of the operators, and the arguments they lead to. *)
LEMMA Binding ==
  /\ \A op \in {"+", "-"} : Infix(op)[1] = 1 /\ Infix(op)[2] = 2
  /\ \A op \in {"*", "/", "%"} : Infix(op)[1] = 3 /\ Infix(op)[2] = 4
  /\ Infix("^")[1] = 7 /\ Infix("^")[2] = 6
  /\ \A ts : Calls(ts) = (1 .. Len(ts) + 1) \X Powers
<1>1. \A op \in {"+", "-"} : Infix(op) = <<1, 2>>
  BY DEF Infix
<1>2. \A op \in {"*", "/", "%"} : Infix(op) = <<3, 4>>
  BY DEF Infix
<1>3. Infix("^") = <<7, 6>>
  BY DEF Infix
<1>4. {Infix(op)[2] : op \in Operators} = {2, 4, 6}
  <2>1. Infix("+")[2] = 2 /\ Infix("*")[2] = 4 /\ Infix("^")[2] = 6
    BY <1>1, <1>2, <1>3
  <2>2. \A op \in Operators : Infix(op)[2] \in {2, 4, 6}
    BY <1>1, <1>2, <1>3 DEF Operators
  <2>3. "+" \in Operators /\ "*" \in Operators /\ "^" \in Operators
    BY DEF Operators
  <2> QED BY <2>1, <2>2, <2>3
<1>5. {0, NegBp} \cup {Infix(op)[2] : op \in Operators} = Powers
  BY <1>4 DEF NegBp, Powers
<1> QED BY <1>1, <1>2, <1>3, <1>5 DEF Calls

(* What Parser::prefix makes of a token. *)
LEMMA PrefixByToken ==
  ASSUME NEW ts, NEW deeper, NEW pos
  PROVE  LET token == Peek(ts, pos)
             operand == deeper[<<pos + 1, 5>>]
             inner == deeper[<<pos + 1, 0>>]
             result == Prefix(ts, deeper, pos)
         IN  /\ token = "-" => result = IF operand.ok THEN Parsed(<<"neg", operand.tree>>, operand.pos)
                                        ELSE Failed
             /\ token \in Operands => result = Parsed(<<"leaf", token>>, pos + 1)
             /\ token = "(" => result = IF inner.ok /\ Peek(ts, inner.pos) = ")"
                                        THEN Parsed(inner.tree, inner.pos + 1) ELSE Failed
             /\ token \notin Operands \cup {"-", "("} => result = Failed
<1>1. "-" \notin Operands /\ "(" \notin Operands
  BY ExprAssumption DEF Operators
<1>2. CASE Peek(ts, pos) = "-"
  BY <1>1, <1>2 DEF Prefix, NegBp
<1>3. CASE Peek(ts, pos) = "("
  BY <1>1, <1>3 DEF Prefix
<1>4. CASE Peek(ts, pos) \in Operands
  BY <1>1, <1>4 DEF Prefix
<1>5. CASE Peek(ts, pos) \notin Operands \cup {"-", "("}
  BY <1>5 DEF Prefix
<1> QED BY <1>1, <1>2, <1>3, <1>4, <1>5, Zenon

(* The loop breaks at what is no operator, or one that binds less. *)
Stops(minBp, op) == op \notin Operators \/ Infix(op)[1] < minBp

(* A loop that breaks in a turn stays there. *)
LEMMA Stays ==
  ASSUME NEW ts \in Seq(Tokens), NEW deeper, NEW pos, NEW minBp \in Powers, NEW j \in 0 .. Len(ts),
         Stops(minBp, Peek(ts, Turns(ts, deeper, pos, minBp)[j].pos))
  PROVE  Turns(ts, deeper, pos, minBp)[Len(ts)] = Turns(ts, deeper, pos, minBp)[j]
<1> DEFINE turns == Turns(ts, deeper, pos, minBp)
           T == {n \in Nat : j + n <= Len(ts) => turns[j + n] = turns[j]}
<1>0. Len(ts) \in Nat
  OBVIOUS
<1>1. 0 \in T
  OBVIOUS
<1>2. ASSUME NEW n \in Nat, n \in T PROVE n + 1 \in T
  <2> SUFFICES ASSUME j + n + 1 <= Len(ts) PROVE turns[j + n + 1] = turns[j]
    OBVIOUS
  <2>1. turns[j + n] = turns[j]
    BY <1>2
  <2>2. turns[j + n + 1] = Turn(ts, deeper, minBp, turns[j + n])
    <3>1. j + n + 1 \in 0 .. Len(ts) /\ j + n + 1 # 0 /\ (j + n + 1) - 1 = j + n
      BY <1>0
    <3> QED BY <1>0, <3>1, TurnsStep
  <2>3. \A op \in Operators : Infix(op)[1] \in Nat
    BY Binding DEF Operators
  <2>4. ~(/\ Peek(ts, turns[j].pos) \in Operators
          /\ Infix(Peek(ts, turns[j].pos))[1] >= minBp)
    BY <2>3 DEF Stops, Powers
  <2> HIDE DEF turns
  <2>5. Turn(ts, deeper, minBp, turns[j]) = turns[j]
    BY <2>4 DEF Turn
  <2> QED BY <2>1, <2>2, <2>5
<1> HIDE DEF T
<1>3. Len(ts) - j \in T
  BY <1>0, <1>1, <1>2, Induction
<1> QED BY <1>0, <1>3 DEF T

-----------------------------------------------------------------------------
(* Whatever the grammar reads, the parser does. *)

(* The least rank that a call with a binding power reads. *)
Level(minBp) == IF minBp = 0 THEN 1 ELSE IF minBp = 2 THEN 2 ELSE 3

(* The operators that would take a phrase of a rank as their left operand's end. *)
Tight(rank) == IF rank = 1 THEN {"*", "/", "%", "^"} ELSE IF rank = 5 THEN {} ELSE {"^"}

(* A call that has to come by a phrase ... *)
Ready(ts, e, room, minBp) ==
  e.deep < room /\ e.rank >= Level(minBp) /\ Peek(ts, e.to + 1) \notin Tight(e.rank)

(* ... does, within as many turns as the phrase has tokens after its first. *)
Reaches(ts, e, room, minBp) ==
  \E j \in 0 .. e.to - e.from :
    Turns(ts, Levels(ts)[room - 1], e.from, minBp)[j] = Parsed(e.tree, e.to + 1)

Found(ts, e) ==
  \A room \in 1 .. MaxDepth + 1, minBp \in Powers :
    Ready(ts, e, room, minBp) => Reaches(ts, e, room, minBp)

(* ... and returns it, if the loop breaks at what is behind it. *)
LEMMA Returns ==
  ASSUME NEW ts \in Seq(Tokens), NEW e, IsPhrase(ts, e), NEW room \in 1 .. MaxDepth + 1,
         NEW minBp \in Powers, Reaches(ts, e, room, minBp), Stops(minBp, Peek(ts, e.to + 1))
  PROVE  Levels(ts)[room][<<e.from, minBp>>] = Parsed(e.tree, e.to + 1)
<1> DEFINE turns == Turns(ts, Levels(ts)[room - 1], e.from, minBp)
<1>1. PICK j \in 0 .. e.to - e.from : turns[j] = Parsed(e.tree, e.to + 1)
  BY DEF Reaches
<1>2. j \in 0 .. Len(ts)
  BY DEF IsPhrase
<1>3. turns[j].pos = e.to + 1
  BY <1>1 DEF Parsed
<1>4. turns[Len(ts)] = turns[j]
  <2>1. Stops(minBp, Peek(ts, turns[j].pos))
    BY <1>3
  <2> QED BY <1>2, <2>1, Stays
<1>5. <<e.from, minBp>> \in Calls(ts)
  BY Binding DEF IsPhrase
<1>6. Levels(ts)[room][<<e.from, minBp>>] = turns[Len(ts)]
  BY <1>5, LevelsStep, ExprAssumption
<1> QED BY <1>1, <1>4, <1>6

(* What stops a call: with which powers, behind a phrase of which ranks. *)
LEMMA StopsBehind ==
  ASSUME NEW op
  PROVE  /\ op \notin Operators => \A minBp \in Powers : Stops(minBp, op)
         /\ op # "^" => Stops(4, op) /\ Stops(5, op) /\ Stops(6, op)
         /\ op \notin {"*", "/", "%", "^"} => Stops(2, op)
BY Binding DEF Stops, Operators

(* An operand. *)
LEMMA FoundLeaf ==
  ASSUME NEW ts \in Seq(Tokens), NEW e, IsPhrase(ts, e), IsLeaf(ts, e)
  PROVE  Found(ts, e)
<1> SUFFICES ASSUME NEW room \in 1 .. MaxDepth + 1, NEW minBp \in Powers
             PROVE  Reaches(ts, e, room, minBp)
  BY DEF Found
<1>1. PICK i \in DOMAIN ts : ts[i] \in Operands /\ e = Phrase(5, i, i, <<"leaf", ts[i]>>, 0)
  BY DEF IsLeaf
<1>2. e.from = i /\ e.to = i /\ e.tree = <<"leaf", ts[i]>>
  BY <1>1 DEF Phrase
<1>3. Prefix(ts, Levels(ts)[room - 1], i) = Parsed(<<"leaf", ts[i]>>, i + 1)
  BY <1>1, PrefixByToken DEF Peek
<1>4. Turns(ts, Levels(ts)[room - 1], i, minBp)[0] = Parsed(<<"leaf", ts[i]>>, i + 1)
  BY <1>3, TurnsStep
<1> QED BY <1>2, <1>4 DEF Reaches, IsPhrase

(* Parentheses. *)
LEMMA FoundParen ==
  ASSUME NEW ts \in Seq(Tokens), NEW P, \A d \in P : IsPhrase(ts, d) /\ Found(ts, d),
         NEW e, IsPhrase(ts, e), IsParen(ts, P, e)
  PROVE  Found(ts, e)
<1> SUFFICES ASSUME NEW room \in 1 .. MaxDepth + 1, NEW minBp \in Powers,
                    Ready(ts, e, room, minBp)
             PROVE  Reaches(ts, e, room, minBp)
  BY DEF Found
<1>1. PICK d \in P : /\ Peek(ts, d.from - 1) = "(" /\ Peek(ts, d.to + 1) = ")"
                     /\ e = Phrase(5, d.from - 1, d.to + 1, d.tree, d.deep + 1)
  BY DEF IsParen
<1>2. /\ e.from = d.from - 1 /\ e.to = d.to + 1 /\ e.tree = d.tree /\ e.deep = d.deep + 1
  BY <1>1 DEF Phrase
<1>3. IsPhrase(ts, d) /\ Found(ts, d)
  OBVIOUS
<1>4. room - 1 \in 1 .. MaxDepth + 1 /\ d.deep < room - 1
  BY <1>2, <1>3, ExprAssumption DEF Ready, IsPhrase
<1>5. ")" \notin Operators /\ \A rank : ")" \notin Tight(rank)
  BY DEF Operators, Tight
<1>6. Ready(ts, d, room - 1, 0)
  <2>1. d.rank >= Level(0)
    BY <1>3 DEF Level, IsPhrase
  <2> QED BY <1>1, <1>4, <1>5, <2>1, Zenon DEF Ready
<1>7. Levels(ts)[room - 1][<<d.from, 0>>] = Parsed(d.tree, d.to + 1)
  <2>1. 0 \in Powers
    BY DEF Powers
  <2>2. Reaches(ts, d, room - 1, 0)
    BY <1>3, <1>4, <1>6, <2>1 DEF Found
  <2>3. Stops(0, Peek(ts, d.to + 1))
    BY <1>1, <1>5, <2>1, StopsBehind
  <2> QED BY <1>3, <1>4, <2>1, <2>2, <2>3, Returns
<1>8. Prefix(ts, Levels(ts)[room - 1], e.from) = Parsed(d.tree, (d.to + 1) + 1)
  <2>1. e.from + 1 = d.from
    BY <1>2, <1>3 DEF IsPhrase
  <2>2. /\ Parsed(d.tree, d.to + 1).ok /\ Parsed(d.tree, d.to + 1).tree = d.tree
        /\ Parsed(d.tree, d.to + 1).pos = d.to + 1
    BY DEF Parsed
  <2>3. Peek(ts, e.from) = "("
    BY <1>1, <1>2
  <2> DEFINE inner == Levels(ts)[room - 1][<<e.from + 1, 0>>]
  <2>4. Prefix(ts, Levels(ts)[room - 1], e.from)
          = IF inner.ok /\ Peek(ts, inner.pos) = ")" THEN Parsed(inner.tree, inner.pos + 1) ELSE Failed
    BY <2>3, PrefixByToken, Zenon
  <2>5. inner = Parsed(d.tree, d.to + 1)
    BY <1>7, <2>1
  <2> HIDE DEF inner
  <2> QED BY <1>1, <2>2, <2>4, <2>5
<1>9. Turns(ts, Levels(ts)[room - 1], e.from, minBp)[0] = Parsed(e.tree, e.to + 1)
  BY <1>2, <1>8, TurnsStep
<1> QED BY <1>9 DEF Reaches, IsPhrase

(* A negation. *)
LEMMA FoundNegation ==
  ASSUME NEW ts \in Seq(Tokens), NEW P, \A d \in P : IsPhrase(ts, d) /\ Found(ts, d),
         NEW e, IsPhrase(ts, e), IsNegation(ts, P, e)
  PROVE  Found(ts, e)
<1> SUFFICES ASSUME NEW room \in 1 .. MaxDepth + 1, NEW minBp \in Powers,
                    Ready(ts, e, room, minBp)
             PROVE  Reaches(ts, e, room, minBp)
  BY DEF Found
<1>1. PICK d \in P : /\ d.rank >= 3 /\ Peek(ts, d.from - 1) = "-"
                     /\ e = Phrase(3, d.from - 1, d.to, <<"neg", d.tree>>, d.deep + 1)
  BY DEF IsNegation
<1>2. /\ e.from = d.from - 1 /\ e.to = d.to /\ e.tree = <<"neg", d.tree>>
      /\ e.deep = d.deep + 1 /\ e.rank = 3
  BY <1>1 DEF Phrase
<1>3. IsPhrase(ts, d) /\ Found(ts, d)
  OBVIOUS
<1>4. room - 1 \in 1 .. MaxDepth + 1 /\ d.deep < room - 1
  BY <1>2, <1>3, ExprAssumption DEF Ready, IsPhrase
<1>5. Peek(ts, d.to + 1) # "^" /\ Peek(ts, d.to + 1) \notin Tight(d.rank)
  BY <1>1, <1>2, <1>3 DEF Ready, Tight, IsPhrase
<1>6. Ready(ts, d, room - 1, 5)
  BY <1>1, <1>4, <1>5 DEF Ready, Level
<1>7. Levels(ts)[room - 1][<<d.from, 5>>] = Parsed(d.tree, d.to + 1)
  <2>1. 5 \in Powers
    BY DEF Powers
  <2>2. Reaches(ts, d, room - 1, 5)
    BY <1>3, <1>4, <1>6, <2>1 DEF Found
  <2>3. Stops(5, Peek(ts, d.to + 1))
    BY <1>5, StopsBehind
  <2> QED BY <1>3, <1>4, <2>1, <2>2, <2>3, Returns
<1>8. Prefix(ts, Levels(ts)[room - 1], e.from) = Parsed(<<"neg", d.tree>>, d.to + 1)
  <2>1. e.from + 1 = d.from
    BY <1>2, <1>3 DEF IsPhrase
  <2>2. /\ Parsed(d.tree, d.to + 1).ok /\ Parsed(d.tree, d.to + 1).tree = d.tree
        /\ Parsed(d.tree, d.to + 1).pos = d.to + 1
    BY DEF Parsed
  <2>3. Peek(ts, e.from) = "-"
    BY <1>1, <1>2
  <2> DEFINE operand == Levels(ts)[room - 1][<<e.from + 1, 5>>]
  <2>4. Prefix(ts, Levels(ts)[room - 1], e.from)
          = IF operand.ok THEN Parsed(<<"neg", operand.tree>>, operand.pos) ELSE Failed
    BY <2>3, PrefixByToken, Zenon
  <2>5. operand = Parsed(d.tree, d.to + 1)
    BY <1>7, <2>1
  <2> HIDE DEF operand
  <2> QED BY <2>2, <2>4, <2>5
<1>9. Turns(ts, Levels(ts)[room - 1], e.from, minBp)[0] = Parsed(e.tree, e.to + 1)
  BY <1>2, <1>8, TurnsStep
<1> QED BY <1>9 DEF Reaches, IsPhrase

(* What Binds means to the parser: an operator that a call with minBp takes, *)
(* on from a left operand that it comes by, with a right operand that the    *)
(* call for it comes by, and that stops where the phrase made of them ends.  *)
LEMMA BindsByPowers ==
  ASSUME NEW rank, NEW op, NEW l, NEW r, l.rank \in 1 .. 5, r.rank \in 1 .. 5,
         Binds(rank, op, l, r), NEW minBp \in Powers, rank >= Level(minBp), NEW next,
         next \notin Tight(rank)
  PROVE  /\ op \in Operators /\ Infix(op)[1] >= minBp /\ Infix(op)[2] \in Powers
         /\ l.rank >= Level(minBp) /\ op \notin Tight(l.rank)
         /\ r.rank >= Level(Infix(op)[2]) /\ next \notin Tight(r.rank)
         /\ Stops(Infix(op)[2], next)
<1>1. CASE rank = 4 /\ op \in {"^"} /\ l.rank >= 5 /\ r.rank >= 3
  <2>1. op = "^" /\ Infix(op)[1] = 7 /\ Infix(op)[2] = 6
    BY <1>1, Binding
  <2>2. Stops(6, next)
    BY <1>1, StopsBehind DEF Tight
  <2> QED BY <1>1, <2>1, <2>2 DEF Operators, Powers, Level, Tight
<1>2. CASE rank = 2 /\ op \in {"*", "/", "%"} /\ l.rank >= 2 /\ r.rank >= 3
  <2>1. Infix(op)[1] = 3 /\ Infix(op)[2] = 4
    BY <1>2, Binding
  <2>2. Stops(4, next)
    BY <1>2, StopsBehind DEF Tight
  <2> QED BY <1>2, <2>1, <2>2 DEF Operators, Powers, Level, Tight
<1>3. CASE rank = 1 /\ op \in {"+", "-"} /\ l.rank >= 1 /\ r.rank >= 2
  <2>1. Infix(op)[1] = 1 /\ Infix(op)[2] = 2
    BY <1>3, Binding
  <2>2. Stops(2, next)
    BY <1>3, StopsBehind DEF Tight
  <2> QED BY <1>3, <2>1, <2>2 DEF Operators, Powers, Level, Tight
<1> QED BY <1>1, <1>2, <1>3 DEF Binds

(* An operator between two operands. *)
LEMMA FoundBinary ==
  ASSUME NEW ts \in Seq(Tokens), NEW P, \A d \in P : IsPhrase(ts, d) /\ Found(ts, d),
         NEW e, IsPhrase(ts, e), IsBinary(ts, P, e)
  PROVE  Found(ts, e)
<1> SUFFICES ASSUME NEW room \in 1 .. MaxDepth + 1, NEW minBp \in Powers,
                    Ready(ts, e, room, minBp)
             PROVE  Reaches(ts, e, room, minBp)
  BY DEF Found
<1>1. PICK l \in P, r \in P, rank \in {1, 2, 4} :
        /\ r.from = l.to + 2
        /\ Binds(rank, Peek(ts, l.to + 1), l, r)
        /\ e = Binary(ts, rank, l, r)
  BY DEF IsBinary
<1> DEFINE op == Peek(ts, l.to + 1)
           right == Infix(op)[2]
           deeper == Levels(ts)[room - 1]
           turns == Turns(ts, deeper, e.from, minBp)
<1>2. /\ e.from = l.from /\ e.to = r.to /\ e.tree = <<op, l.tree, r.tree>>
      /\ e.deep = Larger(l.deep, r.deep + 1) /\ e.rank = rank
  BY <1>1 DEF Binary, Phrase
<1>3. IsPhrase(ts, l) /\ Found(ts, l) /\ IsPhrase(ts, r) /\ Found(ts, r)
  OBVIOUS
<1>4. l.deep <= e.deep /\ r.deep + 1 <= e.deep
  BY <1>2, <1>3 DEF Larger, IsPhrase
<1>5. l.deep < room /\ r.deep < room - 1 /\ room - 1 \in 1 .. MaxDepth + 1
  <2>1. l.deep \in Nat /\ r.deep \in Nat /\ e.deep \in Nat /\ e.deep < room
    BY <1>3 DEF IsPhrase, Ready
  <2> QED BY <1>4, <2>1, ExprAssumption
<1>6. /\ op \in Operators /\ Infix(op)[1] >= minBp /\ right \in Powers
      /\ l.rank >= Level(minBp) /\ op \notin Tight(l.rank)
      /\ r.rank >= Level(right) /\ Peek(ts, e.to + 1) \notin Tight(r.rank)
      /\ Stops(right, Peek(ts, e.to + 1))
  <2>1. /\ l.rank \in 1 .. 5 /\ r.rank \in 1 .. 5 /\ rank >= Level(minBp)
        /\ Peek(ts, e.to + 1) \notin Tight(rank)
    BY <1>2, <1>3 DEF IsPhrase, Ready
  <2> QED BY <1>1, <2>1, BindsByPowers
<1> HIDE DEF op, right
<1>7. PICK j \in 0 .. l.to - l.from : turns[j] = Parsed(l.tree, l.to + 1)
  <2>1. Ready(ts, l, room, minBp)
    BY <1>5, <1>6 DEF Ready, op
  <2>2. Reaches(ts, l, room, minBp)
    BY <1>3, <2>1 DEF Found
  <2> QED BY <1>2, <2>2 DEF Reaches
<1>8. deeper[<<r.from, right>>] = Parsed(r.tree, r.to + 1)
  <2>1. Ready(ts, r, room - 1, right)
    BY <1>2, <1>5, <1>6 DEF Ready
  <2>2. Reaches(ts, r, room - 1, right)
    BY <1>3, <1>5, <1>6, <2>1 DEF Found
  <2> QED BY <1>2, <1>3, <1>5, <1>6, <2>2, Returns
<1>9. Turn(ts, deeper, minBp, turns[j]) = Parsed(<<op, l.tree, r.tree>>, r.to + 1)
  <2> DEFINE lhs == turns[j]
             rhs == deeper[<<lhs.pos + 1, Infix(Peek(ts, lhs.pos))[2]>>]
  <2>1. lhs.ok /\ lhs.tree = l.tree /\ lhs.pos = l.to + 1
    BY <1>7 DEF Parsed
  <2>2. lhs.pos + 1 = r.from /\ Peek(ts, lhs.pos) = op
    BY <1>1, <1>3, <2>1 DEF op, IsPhrase
  <2>3. rhs = Parsed(r.tree, r.to + 1)
    BY <1>8, <2>2 DEF right
  <2>4. rhs.ok /\ rhs.tree = r.tree /\ rhs.pos = r.to + 1
    BY <2>3 DEF Parsed
  <2> HIDE DEF turns, deeper, lhs
  <2>5. Turn(ts, deeper, minBp, lhs) = Parsed(<<op, lhs.tree, rhs.tree>>, rhs.pos)
    BY <1>6, <2>1, <2>2, <2>4 DEF Turn
  <2> QED BY <2>1, <2>4, <2>5 DEF lhs
<1>10. turns[j + 1] = Turn(ts, deeper, minBp, turns[j])
  <2>0. Len(ts) \in Nat
    OBVIOUS
  <2>1. \A k \in 0 .. Len(ts) : k # 0 => turns[k] = Turn(ts, deeper, minBp, turns[k - 1])
    BY <2>0, TurnsStep
  <2> HIDE DEF turns, deeper
  <2>2. j \in Nat /\ j + 1 \in 0 .. Len(ts) /\ j + 1 # 0 /\ (j + 1) - 1 = j
    BY <1>1, <1>3 DEF IsPhrase
  <2>3. turns[j + 1] = Turn(ts, deeper, minBp, turns[(j + 1) - 1])
    BY <2>1, <2>2, Zenon
  <2> QED BY <2>2, <2>3, Zenon
<1>11. j + 1 \in 0 .. e.to - e.from
  <2>1. /\ l.from \in Nat /\ l.to \in Nat /\ r.from \in Nat /\ r.to \in Nat
        /\ r.from <= r.to
    <3>1. Len(ts) \in Nat
      OBVIOUS
    <3>2. \A d : IsPhrase(ts, d) => d.from \in Nat /\ d.to \in Nat /\ d.from <= d.to
      BY <3>1 DEF IsPhrase
    <3> QED BY <1>3, <3>2, Zenon
  <2>3. r.from = l.to + 2
    BY <1>1
  <2>2. e.from = l.from /\ e.to = r.to
    BY <1>2
  <2> QED BY <2>1, <2>2, <2>3
<1>12. turns[j + 1] = Parsed(e.tree, e.to + 1)
  BY <1>2, <1>9, <1>10
<1> QED BY <1>11, <1>12 DEF Reaches

(* Every phrase that a call has room for is reached. *)
LEMMA Completeness ==
  ASSUME NEW ts \in Seq(Tokens)
  PROVE  \A e \in Phrases(ts)[Len(ts)] : Found(ts, e)
<1> DEFINE T == {k \in Nat : k <= Len(ts) => \A e \in Phrases(ts)[k] : Found(ts, e)}
<1>0. Len(ts) \in Nat
  OBVIOUS
<1>1. 0 \in T
  BY <1>0, PhrasesStep
<1>2. ASSUME NEW k \in Nat, k \in T PROVE k + 1 \in T
  <2> SUFFICES ASSUME k + 1 <= Len(ts), NEW e \in Phrases(ts)[k + 1] PROVE Found(ts, e)
    OBVIOUS
  <2> DEFINE P == Phrases(ts)[k]
  <2>1. e \in Longer(ts, P)
    <3>1. k + 1 \in 0 .. Len(ts) /\ k + 1 # 0 /\ (k + 1) - 1 = k
      BY <1>0
    <3> QED BY <1>0, <3>1, PhrasesStep
  <2>2. \A d \in P : IsPhrase(ts, d) /\ Found(ts, d)
    BY <1>0, <1>2, PhrasesWithin
  <2>3. IsPhrase(ts, e)
    BY <1>0, PhrasesWithin
  <2> HIDE DEF P
  <2>4. e \in P \/ IsLeaf(ts, e) \/ IsParen(ts, P, e) \/ IsNegation(ts, P, e) \/ IsBinary(ts, P, e)
    BY <2>1, ByRule, Zenon
  <2> QED BY <2>2, <2>3, <2>4, FoundLeaf, FoundParen, FoundNegation, FoundBinary, Zenon
<1> HIDE DEF T
<1>3. Len(ts) \in T
  BY <1>0, <1>1, <1>2, Induction
<1> QED BY <1>0, <1>3 DEF T

-----------------------------------------------------------------------------
(* Whatever the parser reads, the grammar does. *)

(* What a call with this much room read from a position on is a phrase. *)
Reads(ts, result, room, pos, minBp, e) ==
  /\ Short(ts, e) /\ e.from = pos
  /\ result = Parsed(e.tree, e.to + 1)
  /\ e.deep < room /\ e.rank >= Level(minBp)

(* Where the loop is, no operator belongs to the phrase so far more tightly. *)
InLoop(ts, result, room, pos, minBp, e) ==
  Reads(ts, result, room, pos, minBp, e) /\ Peek(ts, e.to + 1) \notin Tight(e.rank)

(* What the calls with this much room return. *)
CallsRead(ts, room) ==
  \A pos \in 1 .. Len(ts) + 1, minBp \in Powers :
    LET result == Levels(ts)[room][<<pos, minBp>>]
    IN  result.ok => \E e : /\ Reads(ts, result, room, pos, minBp, e)
                            /\ Stops(minBp, Peek(ts, e.to + 1))

(* What stops a call is no operator that binds as tightly. *)
LEMMA StopsNot ==
  ASSUME NEW op
  PROVE  /\ Stops(4, op) \/ Stops(5, op) \/ Stops(6, op) => op # "^"
         /\ Stops(2, op) => op \notin {"*", "/", "%", "^"}
BY Binding DEF Stops, Operators

(* The fields of the records. *)
LEMMA FieldsOfRecords ==
  /\ \A tree, pos : Parsed(tree, pos).ok /\ Parsed(tree, pos).tree = tree /\ Parsed(tree, pos).pos = pos
  /\ ~Failed.ok
  /\ \A rank, from, to, tree, deep :
       /\ Phrase(rank, from, to, tree, deep).rank = rank
       /\ Phrase(rank, from, to, tree, deep).from = from
       /\ Phrase(rank, from, to, tree, deep).to = to
       /\ Phrase(rank, from, to, tree, deep).tree = tree
       /\ Phrase(rank, from, to, tree, deep).deep = deep
BY DEF Parsed, Failed, Phrase

(* The first operand of a call. *)
LEMMA PrefixReads ==
  ASSUME NEW ts \in Seq(Tokens), NEW room \in 1 .. MaxDepth + 1, CallsRead(ts, room - 1),
         NEW pos \in 1 .. Len(ts) + 1, NEW minBp \in Powers,
         Prefix(ts, Levels(ts)[room - 1], pos).ok
  PROVE  \E e : InLoop(ts, Prefix(ts, Levels(ts)[room - 1], pos), room, pos, minBp, e)
<1> DEFINE deeper == Levels(ts)[room - 1]
           result == Prefix(ts, deeper, pos)
           token == Peek(ts, pos)
<1>0. Len(ts) \in Nat /\ pos \in Nat /\ room - 1 \in Nat /\ Level(minBp) \in {1, 2, 3}
  BY ExprAssumption DEF Level
<1>1. 0 \in Powers /\ 5 \in Powers /\ Level(0) = 1 /\ Level(5) = 3
  BY DEF Powers, Level
<1>2. token # Blank => pos \in 1 .. Len(ts) /\ pos + 1 \in 1 .. Len(ts) + 1 /\ token = ts[pos]
  BY <1>0, PeekWithin
<1>3. CASE token \in Operands
  <2> DEFINE e == Phrase(5, pos, pos, <<"leaf", token>>, 0)
  <2>1. token # Blank
    BY <1>3, ExprAssumption
  <2>2. result = Parsed(<<"leaf", token>>, pos + 1)
    BY <1>3, PrefixByToken, Zenon
  <2>3. IsPhrase(ts, e)
    BY <1>0, <1>2, <2>1, FieldsOfRecords DEF IsPhrase
  <2>4. IsLeaf(ts, e)
    <3>1. pos \in DOMAIN ts /\ token = ts[pos]
      BY <1>2, <2>1
    <3> HIDE DEF token
    <3> QED BY <1>3, <3>1, Zenon DEF IsLeaf
  <2>5. Short(ts, e)
    <3> HIDE DEF e
    <3> DEFINE D == {}
    <3>1. \A d \in D : Short(ts, d) /\ d.to - d.from < e.to - e.from
      OBVIOUS
    <3> HIDE DEF D
    <3> QED BY <2>3, <2>4, <3>1, ShortOnes
  <2>6. /\ e.from = pos /\ e.to = pos /\ e.tree = <<"leaf", token>> /\ e.deep = 0 /\ e.rank = 5
    BY DEF Phrase
  <2> HIDE DEF e, result, token
  <2>7. InLoop(ts, result, room, pos, minBp, e)
    BY <1>0, <2>2, <2>5, <2>6 DEF InLoop, Reads, Tight
  <2> QED BY <2>7 DEF result
<1>4. CASE token = "-"
  <2> DEFINE operand == deeper[<<pos + 1, 5>>]
  <2>1. token # Blank
    BY <1>4 DEF Blank
  <2>2. result = IF operand.ok THEN Parsed(<<"neg", operand.tree>>, operand.pos) ELSE Failed
    BY <1>4, PrefixByToken, Zenon
  <2>3. operand.ok
    <3> HIDE DEF operand
    <3> QED BY <2>2, FieldsOfRecords
  <2>4. PICK d : /\ Reads(ts, operand, room - 1, pos + 1, 5, d)
                 /\ Stops(5, Peek(ts, d.to + 1))
    BY <1>1, <1>2, <2>1, <2>3 DEF CallsRead
  <2> DEFINE e == Phrase(3, pos, d.to, <<"neg", d.tree>>, d.deep + 1)
  <2> HIDE DEF operand
  <2>5. /\ Short(ts, d) /\ IsPhrase(ts, d) /\ d.from = pos + 1 /\ d.deep < room - 1 /\ d.rank >= 3
        /\ operand = Parsed(d.tree, d.to + 1)
    BY <1>1, <2>4 DEF Reads, Short
  <2>6. result = Parsed(<<"neg", d.tree>>, d.to + 1)
    <3>1. operand.tree = d.tree /\ operand.pos = d.to + 1
      BY <2>5 DEF Parsed
    <3> HIDE DEF result
    <3> QED BY <2>2, <2>3, <3>1, Zenon
  <2>7. /\ e.from = pos /\ e.to = d.to /\ e.tree = <<"neg", d.tree>> /\ e.deep = d.deep + 1 /\ e.rank = 3
    BY DEF Phrase
  <2>8. d.from - 1 = pos
    BY <1>0, <2>5
  <2>9. IsNegation(ts, {d}, e)
    BY <1>4, <2>5, <2>8 DEF IsNegation
  <2> HIDE DEF e, result, token
  <2>10. IsPhrase(ts, e) /\ d.to - d.from < e.to - e.from
    <3>1. d.to \in Nat /\ d.from <= d.to /\ d.to <= Len(ts) /\ d.deep \in Nat
      BY <1>0, <2>5 DEF IsPhrase
    <3>2. pos \in 1 .. Len(ts)
      BY <1>2, <2>1
    <3>3. d.to \in pos .. Len(ts) /\ d.to - d.from < d.to - pos
      BY <1>0, <2>5, <3>1, <3>2
    <3> QED BY <2>7, <3>1, <3>2, <3>3 DEF IsPhrase
  <2>11. Short(ts, e)
    BY <2>5, <2>9, <2>10, ShortOnes
  <2>12. Peek(ts, e.to + 1) \notin Tight(e.rank)
    BY <2>4, <2>7, StopsNot DEF Tight
  <2>13. e.deep < room /\ e.rank >= Level(minBp)
    BY <1>0, <2>5, <2>7 DEF IsPhrase
  <2>14. InLoop(ts, result, room, pos, minBp, e)
    BY <2>6, <2>7, <2>11, <2>12, <2>13 DEF InLoop, Reads
  <2> QED BY <2>14 DEF result
<1>5. CASE token = "("
  <2> DEFINE inner == deeper[<<pos + 1, 0>>]
  <2>1. token # Blank
    BY <1>5 DEF Blank
  <2>2. result = IF inner.ok /\ Peek(ts, inner.pos) = ")" THEN Parsed(inner.tree, inner.pos + 1)
                 ELSE Failed
    BY <1>5, PrefixByToken, Zenon
  <2>3. inner.ok /\ Peek(ts, inner.pos) = ")"
    <3> HIDE DEF inner
    <3> QED BY <2>2, FieldsOfRecords
  <2>4. PICK d : Reads(ts, inner, room - 1, pos + 1, 0, d)
    BY <1>1, <1>2, <2>1, <2>3 DEF CallsRead
  <2> DEFINE e == Phrase(5, pos, d.to + 1, d.tree, d.deep + 1)
  <2> HIDE DEF inner
  <2>5. /\ Short(ts, d) /\ IsPhrase(ts, d) /\ d.from = pos + 1 /\ d.deep < room - 1
        /\ inner = Parsed(d.tree, d.to + 1)
    BY <1>1, <2>4 DEF Reads, Short
  <2>6. result = Parsed(d.tree, d.to + 1 + 1) /\ Peek(ts, d.to + 1) = ")"
    BY <2>2, <2>3, <2>5, FieldsOfRecords
  <2>7. /\ e.from = pos /\ e.to = d.to + 1 /\ e.tree = d.tree /\ e.deep = d.deep + 1 /\ e.rank = 5
    BY DEF Phrase
  <2>8. d.from - 1 = pos
    BY <1>0, <2>5
  <2>9. IsParen(ts, {d}, e)
    BY <1>5, <2>6, <2>8 DEF IsParen
  <2> HIDE DEF e, result, token
  <2>10. d.to + 1 \in 1 .. Len(ts)
    <3>1. d.to + 1 \in Int
      BY <2>5 DEF IsPhrase
    <3> QED BY <2>6, <3>1, PeekWithin DEF Blank
  <2>11. IsPhrase(ts, e) /\ d.to - d.from < e.to - e.from
    <3>1. d.to \in Nat /\ d.from <= d.to /\ d.deep \in Nat
      BY <1>0, <2>5 DEF IsPhrase
    <3>2. pos \in 1 .. Len(ts)
      BY <1>2, <2>1
    <3>3. d.to + 1 \in pos .. Len(ts) /\ d.to - d.from < (d.to + 1) - pos
      BY <1>0, <2>5, <2>10, <3>1, <3>2
    <3>4. d.deep + 1 \in Nat /\ 5 \in 1 .. 5
      BY <3>1
    <3>5. IsPhrase(ts, e)
      BY <2>7, <3>2, <3>3, <3>4, Zenon DEF IsPhrase
    <3> QED BY <2>7, <3>3, <3>5
  <2>12. Short(ts, e)
    BY <2>5, <2>9, <2>11, ShortOnes
  <2>13. e.deep < room /\ e.rank >= Level(minBp)
    BY <1>0, <2>5, <2>7 DEF IsPhrase
  <2>14. InLoop(ts, result, room, pos, minBp, e)
    BY <2>6, <2>7, <2>12, <2>13 DEF InLoop, Reads, Tight
  <2> QED BY <2>14 DEF result
<1>6. CASE token \notin Operands \cup {"-", "("}
  <2>1. result = Failed
    BY <1>6, PrefixByToken, Zenon
  <2> QED BY <2>1, FieldsOfRecords
<1> QED BY <1>3, <1>4, <1>5, <1>6

(* An operator that a call takes binds its operands by their ranks. *)
LEMMA PowersBind ==
  ASSUME NEW op \in Operators, NEW minBp \in Powers, Infix(op)[1] >= minBp,
         NEW l, NEW r, l.rank \in 1 .. 5, r.rank \in 1 .. 5,
         op \notin Tight(l.rank), r.rank >= Level(Infix(op)[2]),
         NEW next, Stops(Infix(op)[2], next)
  PROVE  \E rank \in {1, 2, 4} :
           Binds(rank, op, l, r) /\ rank >= Level(minBp) /\ next \notin Tight(rank)
<1>1. CASE op = "^"
  <2>1. Infix(op)[2] = 6 /\ next # "^"
    BY <1>1, Binding, StopsNot
  <2>2. l.rank = 5
    BY <1>1 DEF Tight
  <2> QED BY <1>1, <2>1, <2>2 DEF Binds, Level, Tight, Powers
<1>2. CASE op \in {"*", "/", "%"}
  <2>1. Infix(op)[1] = 3 /\ Infix(op)[2] = 4
    BY <1>2, Binding
  <2>2. next # "^" /\ minBp \in {0, 2}
    BY <2>1, StopsNot DEF Powers
  <2>3. l.rank >= 2
    BY <1>2 DEF Tight
  <2> QED BY <1>2, <2>1, <2>2, <2>3 DEF Binds, Level, Tight
<1>3. CASE op \in {"+", "-"}
  <2>1. Infix(op)[1] = 1 /\ Infix(op)[2] = 2
    BY <1>3, Binding
  <2>2. next \notin {"*", "/", "%", "^"} /\ minBp = 0
    BY <2>1, StopsNot DEF Powers
  <2> QED BY <1>3, <2>1, <2>2 DEF Binds, Level, Tight
<1> QED BY <1>1, <1>2, <1>3 DEF Operators

(* One turn of the loop that does not break. *)
LEMMA TurnReads ==
  ASSUME NEW ts \in Seq(Tokens), NEW room \in 1 .. MaxDepth + 1, CallsRead(ts, room - 1),
         NEW pos \in 1 .. Len(ts) + 1, NEW minBp \in Powers,
         NEW lhs, NEW l, InLoop(ts, lhs, room, pos, minBp, l),
         ~Stops(minBp, Peek(ts, l.to + 1)),
         Turn(ts, Levels(ts)[room - 1], minBp, lhs).ok
  PROVE  \E e : /\ InLoop(ts, Turn(ts, Levels(ts)[room - 1], minBp, lhs), room, pos, minBp, e)
                /\ e.to >= l.to + 2
<1> DEFINE deeper == Levels(ts)[room - 1]
           op == Peek(ts, l.to + 1)
           right == Infix(op)[2]
           rhs == deeper[<<l.to + 2, right>>]
           result == Turn(ts, deeper, minBp, lhs)
<1>1. /\ Short(ts, l) /\ IsPhrase(ts, l) /\ l.from = pos /\ lhs = Parsed(l.tree, l.to + 1)
      /\ l.deep < room /\ l.rank >= Level(minBp) /\ op \notin Tight(l.rank)
  BY DEF InLoop, Reads, Short
<1>2. lhs.ok /\ lhs.tree = l.tree /\ lhs.pos = l.to + 1
  BY <1>1, FieldsOfRecords
<1>3. op \in Operators /\ right \in Powers /\ Infix(op)[1] \in Nat
  <2>1. op \in Operators
    BY Zenon DEF Stops
  <2>2. \A sign \in Operators : Infix(sign)[1] \in Nat /\ Infix(sign)[2] \in {2, 4, 6}
    BY Binding DEF Operators
  <2> QED BY <2>1, <2>2 DEF Powers
<1>4. Infix(op)[1] >= minBp
  BY <1>3 DEF Stops, Powers
<1>5. Len(ts) \in Nat /\ l.to \in Nat /\ l.from \in Nat /\ l.deep \in Nat /\ l.from <= l.to /\ room - 1 \in Nat
  BY <1>1, ExprAssumption DEF IsPhrase
<1>6. l.to + 1 \in 1 .. Len(ts)
  <2>1. op # Blank
    BY <1>3 DEF Operators, Blank
  <2> QED BY <1>5, <2>1, PeekWithin
<1> HIDE DEF op
<1>7. result = IF rhs.ok THEN Parsed(<<op, l.tree, rhs.tree>>, rhs.pos) ELSE Failed
  <2>1. lhs.pos + 1 = l.to + 2 /\ Peek(ts, lhs.pos) = op
    BY <1>2, <1>5 DEF op
  <2> QED BY <1>2, <1>3, <1>4, <2>1 DEF Turn
<1>8. rhs.ok
  <2> HIDE DEF rhs
  <2> QED BY <1>7, FieldsOfRecords
<1>9. PICK r : Reads(ts, rhs, room - 1, l.to + 2, right, r) /\ Stops(right, Peek(ts, r.to + 1))
  <2>1. l.to + 2 \in 1 .. Len(ts) + 1
    BY <1>5, <1>6
  <2> HIDE DEF right
  <2> QED BY <1>3, <1>8, <2>1 DEF CallsRead
<1> HIDE DEF rhs, result
<1>10. /\ Short(ts, r) /\ IsPhrase(ts, r) /\ r.from = l.to + 2 /\ rhs = Parsed(r.tree, r.to + 1)
       /\ r.deep < room - 1 /\ r.rank >= Level(right)
  BY <1>9 DEF Reads, Short
<1>11. PICK rank \in {1, 2, 4} : /\ Binds(rank, op, l, r) /\ rank >= Level(minBp)
                                 /\ Peek(ts, r.to + 1) \notin Tight(rank)
  <2>1. l.rank \in 1 .. 5 /\ r.rank \in 1 .. 5
    BY <1>1, <1>10 DEF IsPhrase
  <2> QED BY <1>1, <1>3, <1>4, <1>9, <1>10, <2>1, PowersBind
<1> DEFINE e == Binary(ts, rank, l, r)
<1>12. /\ e.from = pos /\ e.to = r.to /\ e.tree = <<op, l.tree, r.tree>> /\ e.rank = rank
       /\ e.deep = Larger(l.deep, r.deep + 1)
  BY <1>1 DEF Binary, Phrase, op
<1>13. IsBinary(ts, {l, r}, e)
  BY <1>10, <1>11, Zenon DEF IsBinary, op
<1> HIDE DEF e, right
<1>14. r.to \in Nat /\ r.from <= r.to /\ r.deep \in Nat /\ r.to <= Len(ts)
  BY <1>5, <1>10 DEF IsPhrase
<1>15. e.deep \in Nat /\ e.deep < room
  <2>1. \A a, b, c \in Nat : a < c /\ b < c - 1 => Larger(a, b + 1) \in Nat /\ Larger(a, b + 1) < c
    BY DEF Larger
  <2>2. l.deep < room /\ r.deep < room - 1 /\ l.deep \in Nat /\ r.deep \in Nat
    BY <1>1, <1>5, <1>10, <1>14, Zenon
  <2>3. room \in Nat
    BY ExprAssumption
  <2>4. Larger(l.deep, r.deep + 1) \in Nat /\ Larger(l.deep, r.deep + 1) < room
    BY <2>1, <2>2, <2>3
  <2> QED BY <1>12, <2>4, Zenon
<1>16. IsPhrase(ts, e)
  <2>1. pos \in 1 .. Len(ts) /\ r.to \in pos .. Len(ts)
    <3>1. \A a, b, c, d, n \in Nat :
            a <= b /\ b + 1 \in 1 .. n /\ c = b + 2 /\ c <= d /\ d <= n => d \in a .. n
      OBVIOUS
    <3>2. l.from = pos /\ pos \in 1 .. Len(ts)
      BY <1>1 DEF IsPhrase
    <3>3. r.from = l.to + 2 /\ r.from \in Nat
      BY <1>5, <1>10
    <3> QED BY <1>5, <1>6, <1>14, <3>1, <3>2, <3>3, Zenon
  <2> QED BY <1>12, <1>15, <2>1 DEF IsPhrase
<1>17. l.to - l.from < e.to - e.from /\ r.to - r.from < e.to - e.from
  <2>1. \A a, b, c, d \in Nat : a <= b /\ c <= d /\ c = b + 2 => b - a < d - a /\ d - c < d - a
    OBVIOUS
  <2>2. r.from \in Nat /\ r.from = l.to + 2
    BY <1>5, <1>10
  <2>3. e.from = l.from /\ e.to = r.to
    BY <1>1, <1>12
  <2> QED BY <1>5, <1>14, <2>1, <2>2, <2>3, Zenon
<1>18. Short(ts, e)
  <2> DEFINE D == {l, r}
  <2>1. \A d \in D : Short(ts, d) /\ d.to - d.from < e.to - e.from
    BY <1>1, <1>10, <1>17
  <2>2. IsBinary(ts, D, e)
    BY <1>13
  <2> HIDE DEF D
  <2> QED BY <1>16, <2>1, <2>2, ShortOnes
<1>19. result = Parsed(e.tree, e.to + 1)
  <2>1. rhs.tree = r.tree /\ rhs.pos = r.to + 1
    BY <1>10 DEF Parsed
  <2> QED BY <1>7, <1>8, <1>12, <2>1, Zenon
<1>20. InLoop(ts, result, room, pos, minBp, e)
  BY <1>11, <1>12, <1>15, <1>18, <1>19 DEF InLoop, Reads
<1>21. e.to >= l.to + 2
  BY <1>5, <1>10, <1>12, <1>14
<1> QED BY <1>20, <1>21 DEF result

(* The loop to its end: its last turn has broken, there being no more tokens. *)
LEMMA LoopReads ==
  ASSUME NEW ts \in Seq(Tokens), NEW room \in 1 .. MaxDepth + 1, CallsRead(ts, room - 1),
         NEW pos \in 1 .. Len(ts) + 1, NEW minBp \in Powers,
         Turns(ts, Levels(ts)[room - 1], pos, minBp)[Len(ts)].ok
  PROVE  \E e : /\ Reads(ts, Turns(ts, Levels(ts)[room - 1], pos, minBp)[Len(ts)], room, pos, minBp, e)
                /\ Stops(minBp, Peek(ts, e.to + 1))
<1> DEFINE deeper == Levels(ts)[room - 1]
           turns == Turns(ts, deeper, pos, minBp)
           Inv(k) == turns[k].ok =>
                       \E e : /\ InLoop(ts, turns[k], room, pos, minBp, e)
                              /\ Stops(minBp, Peek(ts, e.to + 1)) \/ e.to >= pos + k
           T == {k \in Nat : k <= Len(ts) => Inv(k)}
<1>0. Len(ts) \in Nat /\ pos \in Nat
  OBVIOUS
<1>a. turns[0] = Prefix(ts, deeper, pos)
  BY <1>0, TurnsStep
<1>b. \A k \in 0 .. Len(ts) : k # 0 => turns[k] = Turn(ts, deeper, minBp, turns[k - 1])
  BY <1>0, TurnsStep
<1> HIDE DEF turns
<1>1. 0 \in T
  <2> SUFFICES ASSUME turns[0].ok
               PROVE  \E e : InLoop(ts, turns[0], room, pos, minBp, e) /\ e.to >= pos + 0
    OBVIOUS
  <2>1. PICK e : InLoop(ts, turns[0], room, pos, minBp, e)
    BY <1>a, PrefixReads
  <2>2. e.to >= pos + 0
    BY <1>0, <2>1 DEF InLoop, Reads, Short, IsPhrase
  <2> QED BY <2>1, <2>2
<1>2. ASSUME NEW k \in Nat, k \in T PROVE k + 1 \in T
  <2> SUFFICES ASSUME k + 1 <= Len(ts), turns[k + 1].ok
               PROVE  \E e : /\ InLoop(ts, turns[k + 1], room, pos, minBp, e)
                             /\ Stops(minBp, Peek(ts, e.to + 1)) \/ e.to >= pos + (k + 1)
    OBVIOUS
  <2>1. turns[k + 1] = Turn(ts, deeper, minBp, turns[k])
    <3>1. k + 1 \in 0 .. Len(ts) /\ k + 1 # 0 /\ (k + 1) - 1 = k
      BY <1>0
    <3> QED BY <1>b, <3>1
  <2>2. turns[k].ok
    <3>1. ~turns[k].ok => Turn(ts, deeper, minBp, turns[k]) = turns[k]
      BY DEF Turn
    <3> QED BY <2>1, <3>1
  <2>3. PICK l : /\ InLoop(ts, turns[k], room, pos, minBp, l)
                 /\ Stops(minBp, Peek(ts, l.to + 1)) \/ l.to >= pos + k
    BY <1>0, <1>2, <2>2
  <2>4. turns[k].pos = l.to + 1
    BY <2>3, FieldsOfRecords DEF InLoop, Reads
  <2>5. CASE Stops(minBp, Peek(ts, l.to + 1))
    <3>1. \A op \in Operators : Infix(op)[1] \in Nat
      BY Binding DEF Operators
    <3>2. ~(/\ Peek(ts, turns[k].pos) \in Operators
            /\ Infix(Peek(ts, turns[k].pos))[1] >= minBp)
      BY <2>4, <2>5, <3>1 DEF Stops, Powers
    <3>3. turns[k + 1] = turns[k]
      BY <2>1, <3>2 DEF Turn
    <3> QED BY <2>3, <2>5, <3>3
  <2>6. CASE ~Stops(minBp, Peek(ts, l.to + 1))
    <3>1. PICK e : InLoop(ts, turns[k + 1], room, pos, minBp, e) /\ e.to >= l.to + 2
      BY <2>1, <2>3, <2>6, TurnReads
    <3>2. l.to \in Nat /\ e.to \in Nat
      <4>1. IsPhrase(ts, l) /\ IsPhrase(ts, e)
        BY <2>3, <3>1, Zenon DEF InLoop, Reads, Short
      <4>2. \A d : IsPhrase(ts, d) => d.to \in Nat
        BY <1>0 DEF IsPhrase
      <4> QED BY <4>1, <4>2, Zenon
    <3>3. e.to >= pos + (k + 1)
      <4>1. l.to >= pos + k /\ e.to >= l.to + 2
        BY <2>3, <2>6, <3>1, Zenon
      <4> QED BY <1>0, <3>2, <4>1
    <3> QED BY <3>1, <3>3
  <2> QED BY <2>5, <2>6
<1> HIDE DEF T
<1>3. Len(ts) \in T
  BY <1>0, <1>1, <1>2, Induction
<1>4. PICK e : /\ InLoop(ts, turns[Len(ts)], room, pos, minBp, e)
               /\ Stops(minBp, Peek(ts, e.to + 1)) \/ e.to >= pos + Len(ts)
  BY <1>0, <1>3 DEF T, turns
<1>5. e.to <= Len(ts) /\ e.to \in Nat /\ pos >= 1
  BY <1>0, <1>4 DEF InLoop, Reads, Short, IsPhrase
<1>6. Stops(minBp, Peek(ts, e.to + 1))
  BY <1>0, <1>4, <1>5
<1> QED BY <1>4, <1>6 DEF InLoop, turns

(* Every call returns a phrase, or an error. *)
LEMMA Soundness ==
  ASSUME NEW ts \in Seq(Tokens)
  PROVE  CallsRead(ts, MaxDepth + 1)
<1> DEFINE T == {n \in Nat : n <= MaxDepth + 1 => CallsRead(ts, n)}
<1>0. MaxDepth \in Nat /\ \A pos \in 1 .. Len(ts) + 1, minBp \in Powers : <<pos, minBp>> \in Calls(ts)
  BY Binding, ExprAssumption
<1>1. 0 \in T
  <2>1. \A call \in Calls(ts) : Levels(ts)[0][call] = Failed
    BY <1>0, LevelsStep
  <2> QED BY <1>0, <2>1, FieldsOfRecords DEF CallsRead
<1>2. ASSUME NEW n \in Nat, n \in T PROVE n + 1 \in T
  <2> SUFFICES ASSUME n + 1 <= MaxDepth + 1, NEW pos \in 1 .. Len(ts) + 1, NEW minBp \in Powers,
                      Levels(ts)[n + 1][<<pos, minBp>>].ok
               PROVE  \E e : /\ Reads(ts, Levels(ts)[n + 1][<<pos, minBp>>], n + 1, pos, minBp, e)
                             /\ Stops(minBp, Peek(ts, e.to + 1))
    BY DEF CallsRead
  <2>1. n + 1 \in 1 .. MaxDepth + 1 /\ n + 1 # 0 /\ n + 1 \in 0 .. MaxDepth + 1 /\ (n + 1) - 1 = n
    BY <1>0
  <2>2. CallsRead(ts, (n + 1) - 1)
    BY <1>0, <1>2, <2>1
  <2>3. Levels(ts)[n + 1][<<pos, minBp>>] = Turns(ts, Levels(ts)[(n + 1) - 1], pos, minBp)[Len(ts)]
    BY <1>0, <2>1, LevelsStep
  <2> DEFINE room == n + 1
  <2>4. Turns(ts, Levels(ts)[room - 1], pos, minBp)[Len(ts)].ok
    BY <2>3
  <2> HIDE DEF room
  <2>5. room \in 1 .. MaxDepth + 1 /\ CallsRead(ts, room - 1)
    BY <2>1, <2>2 DEF room
  <2>6. \E e : /\ Reads(ts, Turns(ts, Levels(ts)[room - 1], pos, minBp)[Len(ts)], room, pos, minBp, e)
               /\ Stops(minBp, Peek(ts, e.to + 1))
    BY <2>4, <2>5, LoopReads
  <2> QED BY <2>3, <2>6 DEF room
<1> HIDE DEF T
<1>3. MaxDepth + 1 \in T
  BY <1>0, <1>1, <1>2, Induction
<1> QED BY <1>0, <1>3 DEF T

-----------------------------------------------------------------------------
(* A text and its meaning. *)

(* What lex accepts are tokens. *)
LEMMA LexTokens ==
  ASSUME NEW S, NEW text \in Seq(S), Lex(text).ok
  PROVE  Lex(text).tokens \in Seq(Tokens)
<1> DEFINE upto == Upto(text)
           T == {k \in Nat : k <= Len(text) => upto[k] \in Seq(Tokens)}
<1>0. Len(text) \in Nat /\ DOMAIN text = 1 .. Len(text)
  OBVIOUS
<1>1. \A i \in 1 .. Len(text) : text[i] \in Tokens \cup {Blank}
  BY <1>0 DEF Lex
<1>2. upto[0] = <<>>
  BY <1>0, LexStep
<1>3. \A k \in 0 .. Len(text) :
        k # 0 => upto[k] = IF text[k] = Blank THEN upto[k - 1] ELSE Append(upto[k - 1], text[k])
  BY <1>0, LexStep
<1> HIDE DEF upto
<1>4. 0 \in T
  <2>1. <<>> \in Seq(Tokens)
    OBVIOUS
  <2> QED BY <1>2, <2>1
<1>5. ASSUME NEW k \in Nat, k \in T PROVE k + 1 \in T
  <2> SUFFICES ASSUME k + 1 <= Len(text) PROVE upto[k + 1] \in Seq(Tokens)
    OBVIOUS
  <2>1. upto[k] \in Seq(Tokens)
    BY <1>0, <1>5
  <2>2. upto[k + 1] = IF text[k + 1] = Blank THEN upto[k] ELSE Append(upto[k], text[k + 1])
    <3>1. k + 1 \in 0 .. Len(text) /\ k + 1 # 0 /\ (k + 1) - 1 = k
      BY <1>0
    <3> QED BY <1>3, <3>1
  <2>3. text[k + 1] \in Tokens \cup {Blank}
    BY <1>0, <1>1
  <2>4. CASE text[k + 1] = Blank
    BY <2>1, <2>2, <2>4
  <2>5. CASE text[k + 1] # Blank
    BY <2>1, <2>2, <2>3, <2>5
  <2> QED BY <2>4, <2>5
<1> HIDE DEF T
<1>6. Len(text) \in T
  BY <1>0, <1>4, <1>5, Induction
<1> QED BY <1>0, <1>6 DEF T, Lex, upto

(* The parser by binding powers gives every text the one tree that the     *)
(* documented grammar gives it within MAX_TOKENS and MAX_DEPTH, and an     *)
(* error to the texts that have none.                                      *)
THEOREM ParserReadsTheGrammar ==
  ASSUME NEW S, NEW text \in Seq(S)
  PROVE  Meanings(text) = IF Parse(text).ok THEN {Parse(text).tree} ELSE {}
<1> DEFINE ts == Lex(text).tokens
           P == Phrases(ts)[Len(ts)]
           result == Levels(ts)[MaxDepth + 1][<<1, 0>>]
           Fits == Lex(text).ok /\ Len(ts) <= MaxTokens
           Whole(e) == e.from = 1 /\ e.to = Len(ts) /\ e.deep <= MaxDepth
<1>1. CASE ~Fits
  <2>1. Meanings(text) = {}
    BY <1>1, Zenon DEF Meanings
  <2>2. Parse(text) = Failed
    <3>1. Lex(text).ok => Len(ts) > MaxTokens
      <4>1. Lex(text).ok => Len(ts) \in Nat
        BY LexTokens
      <4> HIDE DEF ts
      <4> QED BY <1>1, <4>1, ExprAssumption
    <3> QED BY <3>1, Zenon DEF Parse
  <2> QED BY <2>1, <2>2, FieldsOfRecords
<1>2. CASE Fits
  <2>0. Meanings(text) = {e.tree : e \in {e \in P : Whole(e)}}
    BY <1>2 DEF Meanings
  <2>1. ts \in Seq(Tokens)
    BY <1>2, LexTokens
  <2>2. Parse(text) = IF ts # <<>> /\ result.ok /\ result.pos = Len(ts) + 1 THEN result ELSE Failed
    <3>1. ~(Len(ts) > MaxTokens)
      <4>1. Len(ts) \in Nat
        BY <2>1
      <4> HIDE DEF ts
      <4> QED BY <1>2, <4>1, ExprAssumption
    <3> HIDE DEF result
    <3> QED BY <1>2, <3>1 DEF Parse, result
  <2> HIDE DEF ts
  <2>3. Len(ts) \in Nat /\ MaxDepth \in Nat /\ 0 \in Powers /\ MaxDepth + 1 \in 1 .. MaxDepth + 1
    BY <2>1, ExprAssumption DEF Powers
  <2>4. ASSUME NEW e \in P, Whole(e)
        PROVE  ts # <<>> /\ result = Parsed(e.tree, Len(ts) + 1)
    <3>1. IsPhrase(ts, e) /\ Found(ts, e)
      BY <2>1, <2>3, PhrasesWithin, Completeness
    <3>2. Peek(ts, e.to + 1) = Blank
      BY <2>1, <2>3, <2>4 DEF Peek
    <3>3. Blank \notin Operators /\ \A rank : Blank \notin Tight(rank)
      BY DEF Blank, Operators, Tight
    <3>4. Ready(ts, e, MaxDepth + 1, 0)
      <4>1. e.rank >= Level(0) /\ e.deep < MaxDepth + 1
        BY <2>3, <2>4, <3>1 DEF Level, IsPhrase
      <4> QED BY <3>2, <3>3, <4>1, Zenon DEF Ready
    <3>5. Reaches(ts, e, MaxDepth + 1, 0)
      BY <2>3, <3>1, <3>4 DEF Found
    <3>6. Stops(0, Peek(ts, e.to + 1))
      BY <2>3, <3>2, <3>3, StopsBehind
    <3>7. Levels(ts)[MaxDepth + 1][<<e.from, 0>>] = Parsed(e.tree, e.to + 1)
      BY <2>1, <2>3, <3>1, <3>5, <3>6, Returns
    <3>8. Len(ts) # 0
      BY <2>3, <3>1 DEF IsPhrase
    <3> QED BY <2>4, <3>7, <3>8
  <2>5. ASSUME ts # <<>>, result.ok, result.pos = Len(ts) + 1
        PROVE  \E e \in P : Whole(e) /\ e.tree = result.tree
    <3>1. PICK e : Reads(ts, result, MaxDepth + 1, 1, 0, e)
      <4>1. 1 \in 1 .. Len(ts) + 1
        BY <2>3
      <4> QED BY <2>1, <2>3, <2>5, <4>1, Soundness DEF CallsRead
    <3>2. /\ IsPhrase(ts, e) /\ e \in Phrases(ts)[e.to - e.from + 1] /\ e.from = 1
          /\ result.tree = e.tree /\ result.pos = e.to + 1 /\ e.deep < MaxDepth + 1
      BY <3>1, FieldsOfRecords DEF Reads, Short
    <3>3. e.to = Len(ts) /\ e.to - e.from + 1 = Len(ts) /\ e.deep <= MaxDepth
      BY <2>3, <2>5, <3>2 DEF IsPhrase
    <3> QED BY <3>2, <3>3
  <2> HIDE DEF P, result, Whole
  <2>6. CASE Parse(text).ok
    <3>1. ts # <<>> /\ result.ok /\ result.pos = Len(ts) + 1 /\ Parse(text) = result
      BY <2>2, <2>6, FieldsOfRecords
    <3>2. \A e \in P : Whole(e) => e.tree = result.tree
      BY <2>4, FieldsOfRecords
    <3>3. \E e \in P : Whole(e) /\ e.tree = result.tree
      BY <2>5, <3>1
    <3> QED BY <2>0, <2>6, <3>1, <3>2, <3>3
  <2>7. CASE ~Parse(text).ok
    <3>1. \A e \in P : ~Whole(e)
      BY <2>2, <2>4, <2>7, FieldsOfRecords
    <3> QED BY <2>0, <2>7, <3>1
  <2> QED BY <2>6, <2>7
<1> QED BY <1>1, <1>2

-----------------------------------------------------------------------------
(* Evaluation. *)

(* An operand that is no number of a record. *)
Faulty(rec, token) == token \in Fields /\ rec[token] # "number"

(* There is none among the tokens from a to b; one is the first of them. *)
Clean(ts, rec, a, b) == \A j \in a .. b : ~Faulty(rec, ts[j])

FirstFaulty(ts, rec, a, b, i) ==
  i \in a .. b /\ Faulty(rec, ts[i]) /\ \A j \in a .. i - 1 : ~Faulty(rec, ts[j])

Records == [Fields -> {"number", "missing", "text"}]

(* An operand faults where its token does. *)
LEMMA FaultOfLeaf ==
  ASSUME NEW rec \in Records, NEW token
  PROVE  LeafFault(<<"leaf", token>>, rec) = NoFault <=> ~Faulty(rec, token)
<1>1. <<"leaf", token>>[2] = token
  OBVIOUS
<1>2. ASSUME token \in Fields PROVE FieldFault(rec, token) = NoFault <=> rec[token] = "number"
  <2>1. rec[token] \in {"number", "missing", "text"}
    BY <1>2 DEF Records
  <2> QED BY <2>1 DEF FieldFault, NoFault
<1> QED BY <1>1, <1>2 DEF LeafFault, Faulty

(* The trees pending in an evaluation. *)
Trees(ts) == {e.tree : e \in Phrases(ts)[Len(ts)]}

(* The first of the pending trees, and what visiting it leaves. *)
LEMMA Pending ==
  ASSUME NEW S, NEW x \in S, NEW rest \in Seq(S)
  PROVE  /\ <<x>> \o rest \in Seq(S)
         /\ <<x>> \o rest # <<>> /\ Head(<<x>> \o rest) = x /\ Tail(<<x>> \o rest) = rest
<1>1. <<x>> \o rest \in Seq(S) /\ Len(<<x>> \o rest) = 1 + Len(rest)
  OBVIOUS
<1>2. Head(<<x>> \o rest) = x
  BY <1>1
<1>3. Tail(<<x>> \o rest) = rest
  <2>1. Len(<<x>> \o rest) # 0
    BY <1>1
  <2>2. Tail(<<x>> \o rest) \in Seq(S) /\ Len(Tail(<<x>> \o rest)) = Len(rest)
    BY <1>1, <2>1
  <2>3. \A i \in 1 .. Len(rest) : Tail(<<x>> \o rest)[i] = rest[i]
    BY <1>1, <2>1, <2>2
  <2> QED BY <2>2, <2>3, SeqEqual
<1>4. <<x>> \o rest # <<>>
  BY <1>1
<1> QED BY <1>1, <1>2, <1>3, <1>4

(* A visit. *)
LEMMA VisitStep ==
  ASSUME NEW S, NEW x \in S, NEW rest \in Seq(S), NEW rec
  PROVE  LET pending == <<x>> \o rest
         IN  /\ x[1] = "leaf" => Visit(pending, rec) = IF LeafFault(x, rec) = NoFault THEN rest ELSE pending
             /\ x[1] = "neg" => Visit(pending, rec) = <<x[2]>> \o rest
             /\ x[1] \in Operators => Visit(pending, rec) = <<x[2], x[3]>> \o rest
<1> DEFINE pending == <<x>> \o rest
<1>1. Head(pending) = x /\ Tail(pending) = rest
  BY Pending
<1>2. "leaf" \notin Operators /\ "neg" \notin Operators
  BY DEF Operators
<1> HIDE DEF pending
<1>3. CASE x[1] = "leaf"
  BY <1>1, <1>2, <1>3 DEF Visit, pending
<1>4. CASE x[1] = "neg"
  BY <1>1, <1>2, <1>4 DEF Visit, pending
<1>5. CASE x[1] \in Operators
  BY <1>1, <1>2, <1>5 DEF Visit, pending
<1> QED BY <1>3, <1>4, <1>5 DEF pending

(* An evaluation: what is pending after each visit. *)
IsWalk(w, rec) ==
  \A k \in 0 .. MaxTokens : k # 0 => w[k] = IF w[k - 1] = <<>> THEN <<>> ELSE Visit(w[k - 1], rec)

(* The visit of an operator: of two operands, the one on the left is next. *)
Descent(S, w, n, rest) ==
  \A x \in S : w[n] = <<x>> \o rest =>
    /\ x[1] = "neg" => w[n + 1] = <<x[2]>> \o rest
    /\ x[1] \in Operators /\ x[2] \in S /\ x[3] \in S =>
         /\ <<x[3]>> \o rest \in Seq(S)
         /\ w[n + 1] = <<x[2]>> \o (<<x[3]>> \o rest)

(* It is that of every walk. *)
LEMMA Descends ==
  ASSUME NEW S, NEW rec, NEW w, IsWalk(w, rec), NEW n \in Nat, n + 1 \in 0 .. MaxTokens,
         NEW rest \in Seq(S)
  PROVE  Descent(S, w, n, rest)
<1> SUFFICES ASSUME NEW x \in S, w[n] = <<x>> \o rest
             PROVE  /\ x[1] = "neg" => w[n + 1] = <<x[2]>> \o rest
                    /\ x[1] \in Operators /\ x[2] \in S /\ x[3] \in S =>
                         /\ <<x[3]>> \o rest \in Seq(S)
                         /\ w[n + 1] = <<x[2]>> \o (<<x[3]>> \o rest)
  BY Zenon DEF Descent
<1>0. x \in S /\ rest \in Seq(S)
  OBVIOUS
<1>1. n + 1 # 0 /\ (n + 1) - 1 = n
  OBVIOUS
<1>2. w[n] # <<>>
  BY <1>0, Pending, Zenon
<1>3. w[n + 1] = Visit(<<x>> \o rest, rec)
  BY <1>1, <1>2, Zenon DEF IsWalk
<1>4. /\ x[1] = "neg" => Visit(<<x>> \o rest, rec) = <<x[2]>> \o rest
      /\ x[1] \in Operators => Visit(<<x>> \o rest, rec) = <<x[2], x[3]>> \o rest
  BY <1>0, VisitStep
<1>5. ASSUME NEW y \in S, NEW z \in S PROVE <<y, z>> \o rest = <<y>> \o (<<z>> \o rest)
  <2>1. <<y, z>> = <<y>> \o <<z>>
    <3> DEFINE s == <<y>> \o <<z>>
    <3>1. s \in Seq(S) /\ Len(s) = 2 /\ s[1] = y /\ s[2] = z
      OBVIOUS
    <3>2. <<y, z>> \in Seq(S) /\ Len(<<y, z>>) = 2 /\ <<y, z>>[1] = y /\ <<y, z>>[2] = z
      OBVIOUS
    <3> HIDE DEF s
    <3>3. \A i \in 1 .. 2 : s[i] = <<y, z>>[i]
      <4> TAKE i \in 1 .. 2
      <4>1. i = 1 \/ i = 2
        OBVIOUS
      <4> QED BY <3>1, <3>2, <4>1
    <3> QED BY <3>1, <3>2, <3>3, SeqEqual DEF s
  <2>2. (<<y>> \o <<z>>) \o rest = <<y>> \o (<<z>> \o rest)
    BY ConcatAssociative
  <2> QED BY <2>1, <2>2
<1>6. \A z \in S : <<z>> \o rest \in Seq(S)
  BY <1>0
<1>7. x[1] \in Operators /\ x[2] \in S /\ x[3] \in S =>
        Visit(<<x>> \o rest, rec) = <<x[2]>> \o (<<x[3]>> \o rest)
  BY <1>4, <1>5
<1> QED BY <1>3, <1>4, <1>6, <1>7

Size(e) == e.to - e.from + 1

(* The evaluation of a phrase is over within as many visits as it has      *)
(* tokens, unless an operand of it faults: then it stays at the first.     *)
Passes(ts, rec, w, e, n, rest) ==
  \E m \in n .. n + Size(e) :
    \/ Clean(ts, rec, e.from, e.to) /\ w[m] = rest
    \/ \E i : /\ FirstFaulty(ts, rec, e.from, e.to, i)
              /\ w[m] # <<>> /\ Head(w[m]) = <<"leaf", ts[i]>>

Evaluates(ts, rec, w, e) ==
  \A n \in Nat, rest \in Seq(Trees(ts)) :
    n + Size(e) <= MaxTokens /\ w[n] = <<e.tree>> \o rest => Passes(ts, rec, w, e, n, rest)

(* The evaluation of an operand, *)
LEMMA EvaluatesLeaf ==
  ASSUME NEW ts \in Seq(Tokens), NEW rec \in Records, NEW w, IsWalk(w, rec),
         NEW e, IsPhrase(ts, e), e.tree \in Trees(ts), IsLeaf(ts, e)
  PROVE  Evaluates(ts, rec, w, e)
<1> SUFFICES ASSUME NEW n \in Nat, NEW rest \in Seq(Trees(ts)),
                    n + Size(e) <= MaxTokens, w[n] = <<e.tree>> \o rest
             PROVE  Passes(ts, rec, w, e, n, rest)
  BY DEF Evaluates
<1>1. PICK i \in DOMAIN ts : ts[i] \in Operands /\ e = Phrase(5, i, i, <<"leaf", ts[i]>>, 0)
  BY DEF IsLeaf
<1>2. e.from = i /\ e.to = i /\ e.tree = <<"leaf", ts[i]>> /\ i \in Nat
  BY <1>1, FieldsOfRecords
<1>3. e.tree[1] = "leaf"
  BY <1>2
<1>4. w[n] # <<>> /\ Head(w[n]) = e.tree
  BY Pending
<1>5. CASE Faulty(rec, ts[i])
  <2>1. FirstFaulty(ts, rec, e.from, e.to, i)
    BY <1>2, <1>5 DEF FirstFaulty
  <2>2. n \in n .. n + Size(e)
    BY <1>2 DEF Size
  <2> QED BY <1>2, <1>4, <2>1, <2>2 DEF Passes
<1>6. CASE ~Faulty(rec, ts[i])
  <2>1. Clean(ts, rec, e.from, e.to)
    BY <1>2, <1>6 DEF Clean
  <2>2. n + 1 \in n .. n + Size(e) /\ n + 1 \in 0 .. MaxTokens /\ n + 1 # 0 /\ (n + 1) - 1 = n
    <3>1. Size(e) = 1
      BY <1>2 DEF Size
    <3> QED BY <3>1, ExprAssumption
  <2>3. w[n + 1] = Visit(w[n], rec)
    BY <1>4, <2>2 DEF IsWalk
  <2>4. LeafFault(e.tree, rec) = NoFault
    BY <1>2, <1>6, FaultOfLeaf
  <2>5. Visit(w[n], rec) = rest
    BY <1>3, <2>4, VisitStep
  <2> QED BY <2>1, <2>2, <2>3, <2>5 DEF Passes
<1> QED BY <1>5, <1>6

(* A phrase within another that begins after tokens without fault. *)
LEMMA Within ==
  ASSUME NEW ts, NEW rec, NEW a \in Nat, NEW b \in Nat, NEW c \in Nat, NEW d \in Nat,
         a <= c, d <= b, \A j \in a .. c - 1 : ~Faulty(rec, ts[j])
  PROVE  /\ \A i : FirstFaulty(ts, rec, c, d, i) => FirstFaulty(ts, rec, a, b, i)
         /\ Clean(ts, rec, c, d) /\ (\A j \in d + 1 .. b : ~Faulty(rec, ts[j])) => Clean(ts, rec, a, b)
<1>1. ASSUME NEW i, FirstFaulty(ts, rec, c, d, i) PROVE FirstFaulty(ts, rec, a, b, i)
  <2>1. i \in c .. d /\ Faulty(rec, ts[i]) /\ \A j \in c .. i - 1 : ~Faulty(rec, ts[j])
    BY <1>1 DEF FirstFaulty
  <2>2. ASSUME NEW j \in a .. i - 1 PROVE ~Faulty(rec, ts[j])
    <3>1. j \in a .. c - 1 \/ j \in c .. i - 1
      BY <2>1
    <3> QED BY <2>1, <3>1
  <2>3. i \in a .. b
    BY <2>1
  <2> QED BY <2>1, <2>2, <2>3 DEF FirstFaulty
<1>2. ASSUME Clean(ts, rec, c, d), \A j \in d + 1 .. b : ~Faulty(rec, ts[j]), NEW j \in a .. b
      PROVE  ~Faulty(rec, ts[j])
  <2>1. j \in a .. c - 1 \/ j \in c .. d \/ j \in d + 1 .. b
    OBVIOUS
  <2> QED BY <1>2, <2>1 DEF Clean
<1> QED BY <1>1, <1>2 DEF Clean

(* No parenthesis and no operator is an operand that faults. *)
LEMMA NoOperand ==
  ASSUME NEW rec, NEW op \in Operators \cup {"(", ")"}
  PROVE  ~Faulty(rec, op)
<1>1. op \notin Operands
  BY ExprAssumption
<1> QED BY <1>1 DEF Faulty, Operands

(* The visits of one phrase, or of two of them one after the other, are    *)
(* within those of a phrase made of them.                                  *)
VisitsFit(n, a, b, c) ==
  /\ n + a <= MaxTokens /\ n .. n + a \subseteq n .. n + c
  /\ n + 1 \in 0 .. MaxTokens /\ (n + 1) + a <= MaxTokens
  /\ n + 1 .. (n + 1) + a \subseteq n .. n + c
  /\ \A m \in n + 1 .. (n + 1) + a :
       m \in Nat /\ m + b <= MaxTokens /\ m .. m + b \subseteq n .. n + c

(* They fit where the phrase has a token of its own. *)
LEMMA Visits ==
  ASSUME NEW n \in Nat, NEW a \in Nat, NEW b \in Nat, NEW c \in Nat,
         c >= a + b + 1, n + c <= MaxTokens
  PROVE  VisitsFit(n, a, b, c)
BY ExprAssumption DEF VisitsFit

(* How far a visit of a phrase leads into it, and a walk of what is in it. *)
LEMMA ParenSpan ==
  ASSUME NEW ts \in Seq(Tokens), NEW d, NEW e, IsPhrase(ts, d), IsPhrase(ts, e),
         e.from = d.from - 1, e.to = d.to + 1, NEW n \in Nat, n + Size(e) <= MaxTokens
  PROVE  /\ d.from \in Nat /\ d.to \in Nat /\ e.from \in Nat /\ e.to \in Nat
         /\ e.from <= d.from /\ d.to <= e.to
         /\ e.from .. d.from - 1 = {e.from} /\ d.to + 1 .. e.to = {e.to}
         /\ VisitsFit(n, Size(d), 0, Size(e))
<1>1. /\ d.from \in Nat /\ d.to \in Nat /\ d.from <= d.to /\ d.from = e.from + 1
      /\ e.from \in Nat /\ e.to \in Nat
  BY DEF IsPhrase
<1>2. Size(d) \in Nat /\ Size(e) \in Nat /\ Size(e) >= Size(d) + 0 + 1
  <2>1. \A a, b, c, f \in Nat : a <= b /\ a = c + 1 /\ f = b + 1 =>
          /\ b - a + 1 \in Nat /\ f - c + 1 \in Nat /\ f - c + 1 >= (b - a + 1) + 0 + 1
    OBVIOUS
  <2> QED BY <1>1, <2>1 DEF Size
<1>3. VisitsFit(n, Size(d), 0, Size(e))
  <2>1. 0 \in Nat
    OBVIOUS
  <2> QED BY <1>2, <2>1, Visits, Zenon
<1>4. /\ e.from <= d.from /\ d.to <= e.to
      /\ e.from .. d.from - 1 = {e.from} /\ d.to + 1 .. e.to = {e.to}
  <2>1. \A a, b \in Nat : b = a + 1 => a <= b /\ a .. b - 1 = {a} /\ b .. b = {b}
    OBVIOUS
  <2> QED BY <1>1, <2>1
<1> QED BY <1>1, <1>3, <1>4

(* ... of a negation, *)
LEMMA NegationSpan ==
  ASSUME NEW ts \in Seq(Tokens), NEW d, NEW e, IsPhrase(ts, d), IsPhrase(ts, e),
         e.from = d.from - 1, e.to = d.to, NEW n \in Nat, n + Size(e) <= MaxTokens
  PROVE  /\ d.from \in Nat /\ d.to \in Nat /\ e.from \in Nat /\ e.to \in Nat
         /\ e.from <= d.from /\ d.to <= e.to
         /\ e.from .. d.from - 1 = {e.from} /\ d.to + 1 .. e.to = {}
         /\ VisitsFit(n, Size(d), 0, Size(e))
<1>1. /\ d.from \in Nat /\ d.to \in Nat /\ d.from <= d.to /\ d.from = e.from + 1
      /\ e.from \in Nat /\ e.to \in Nat
  BY DEF IsPhrase
<1>2. Size(d) \in Nat /\ Size(e) \in Nat /\ Size(e) >= Size(d) + 0 + 1
  <2>1. \A a, b, c \in Nat : a <= b /\ a = c + 1 =>
          b - a + 1 \in Nat /\ b - c + 1 \in Nat /\ b - c + 1 >= (b - a + 1) + 0 + 1
    OBVIOUS
  <2> QED BY <1>1, <2>1 DEF Size
<1>3. VisitsFit(n, Size(d), 0, Size(e))
  <2>1. 0 \in Nat
    OBVIOUS
  <2> QED BY <1>2, <2>1, Visits, Zenon
<1>4. /\ e.from <= d.from /\ d.to <= e.to
      /\ e.from .. d.from - 1 = {e.from} /\ d.to + 1 .. e.to = {}
  <2>1. \A a, b \in Nat : b = a + 1 => a <= b /\ a .. b - 1 = {a}
    OBVIOUS
  <2>2. d.to + 1 .. e.to = {}
    BY <1>1
  <2> QED BY <1>1, <2>1, <2>2
<1> QED BY <1>1, <1>3, <1>4

(* ... and of two operands. *)
LEMMA BinarySpan ==
  ASSUME NEW ts \in Seq(Tokens), NEW l, NEW r, NEW e, IsPhrase(ts, l), IsPhrase(ts, r),
         r.from = l.to + 2, e.from = l.from, e.to = r.to, NEW n \in Nat, n + Size(e) <= MaxTokens
  PROVE  /\ l.from \in Nat /\ l.to \in Nat /\ r.from \in Nat /\ r.to \in Nat
         /\ l.from <= r.from /\ l.to <= r.to /\ l.to + 1 \in DOMAIN ts
         /\ l.from .. l.from - 1 = {} /\ r.to + 1 .. r.to = {}
         /\ l.from .. r.from - 1 = (l.from .. l.to) \cup {l.to + 1}
         /\ VisitsFit(n, Size(l), Size(r), Size(e))
<1>1. /\ l.from \in Nat /\ l.to \in Nat /\ l.from <= l.to
      /\ r.from \in Nat /\ r.to \in Nat /\ r.from <= r.to /\ r.to <= Len(ts) /\ Len(ts) \in Nat
  <2>1. Len(ts) \in Nat
    OBVIOUS
  <2>2. \A d : IsPhrase(ts, d) => d.from \in Nat /\ d.to \in Nat /\ d.from <= d.to /\ d.to <= Len(ts)
    BY <2>1 DEF IsPhrase
  <2> QED BY <2>1, <2>2
<1>2. /\ l.from <= r.from /\ l.to <= r.to /\ l.to + 1 \in DOMAIN ts
      /\ l.from .. l.from - 1 = {} /\ r.to + 1 .. r.to = {}
  BY <1>1
<1>3. l.from .. r.from - 1 = (l.from .. l.to) \cup {l.to + 1}
  BY <1>1
<1>4. /\ Size(l) \in Nat /\ Size(r) \in Nat /\ Size(e) \in Nat
      /\ Size(e) >= Size(l) + Size(r) + 1
  <2>1. \A a, b, c, f \in Nat : a <= b /\ c <= f /\ c = b + 2 =>
          /\ b - a + 1 \in Nat /\ f - c + 1 \in Nat /\ f - a + 1 \in Nat
          /\ f - a + 1 >= (b - a + 1) + (f - c + 1) + 1
    OBVIOUS
  <2>2. Size(e) = r.to - l.from + 1
    BY DEF Size
  <2> QED BY <1>1, <2>1, <2>2 DEF Size
<1>5. VisitsFit(n, Size(l), Size(r), Size(e))
  BY <1>4, Visits, Zenon
<1> QED BY <1>1, <1>2, <1>3, <1>5, Zenon

(* ... of parentheses, *)
LEMMA EvaluatesParen ==
  ASSUME NEW ts \in Seq(Tokens), NEW rec \in Records, NEW w, IsWalk(w, rec),
         NEW P, \A d \in P : IsPhrase(ts, d) /\ Evaluates(ts, rec, w, d),
         NEW e, IsPhrase(ts, e), IsParen(ts, P, e)
  PROVE  Evaluates(ts, rec, w, e)
<1> SUFFICES ASSUME NEW n \in Nat, NEW rest \in Seq(Trees(ts)),
                    n + Size(e) <= MaxTokens, w[n] = <<e.tree>> \o rest
             PROVE  Passes(ts, rec, w, e, n, rest)
  BY DEF Evaluates
<1>1. PICK d \in P : /\ Peek(ts, d.from - 1) = "(" /\ Peek(ts, d.to + 1) = ")"
                     /\ e = Phrase(5, d.from - 1, d.to + 1, d.tree, d.deep + 1)
  BY DEF IsParen
<1>2. e.from = d.from - 1 /\ e.to = d.to + 1 /\ e.tree = d.tree
  BY <1>1, FieldsOfRecords
<1>3. IsPhrase(ts, d) /\ Evaluates(ts, rec, w, d)
  OBVIOUS
<1>4. /\ d.from \in Nat /\ d.to \in Nat /\ e.from \in Nat /\ e.to \in Nat
      /\ e.from <= d.from /\ d.to <= e.to
      /\ e.from .. d.from - 1 = {e.from} /\ d.to + 1 .. e.to = {e.to}
      /\ n + Size(d) <= MaxTokens /\ n .. n + Size(d) \subseteq n .. n + Size(e)
  <2>1. e.from = d.from - 1 /\ e.to = d.to + 1
    BY <1>2
  <2>2. /\ d.from \in Nat /\ d.to \in Nat /\ e.from \in Nat /\ e.to \in Nat
        /\ e.from <= d.from /\ d.to <= e.to
        /\ e.from .. d.from - 1 = {e.from} /\ d.to + 1 .. e.to = {e.to}
        /\ VisitsFit(n, Size(d), 0, Size(e))
    BY <1>3, <2>1, ParenSpan
  <2> QED BY <2>2, Zenon DEF VisitsFit
<1>5. ts[e.from] = "(" /\ ts[e.to] = ")"
  <2>1. e.from \in DOMAIN ts /\ e.to \in DOMAIN ts
    BY DEF IsPhrase
  <2> QED BY <1>1, <1>2, <2>1 DEF Peek
<1>6. PICK m \in n .. n + Size(d) :
         \/ Clean(ts, rec, d.from, d.to) /\ w[m] = rest
         \/ \E i : /\ FirstFaulty(ts, rec, d.from, d.to, i)
                   /\ w[m] # <<>> /\ Head(w[m]) = <<"leaf", ts[i]>>
  <2>1. w[n] = <<d.tree>> \o rest
    BY <1>2, Zenon
  <2> QED BY <1>3, <1>4, <2>1, Zenon DEF Evaluates, Passes
<1>7. ~Faulty(rec, ts[e.from]) /\ ~Faulty(rec, ts[e.to])
  BY <1>5, NoOperand, Zenon
<1>8. (\A j \in e.from .. d.from - 1 : ~Faulty(rec, ts[j])) /\ \A j \in d.to + 1 .. e.to : ~Faulty(rec, ts[j])
  BY <1>4, <1>7, Zenon
<1>9. /\ \A i : FirstFaulty(ts, rec, d.from, d.to, i) => FirstFaulty(ts, rec, e.from, e.to, i)
      /\ Clean(ts, rec, d.from, d.to) => Clean(ts, rec, e.from, e.to)
  BY <1>4, <1>8, Within, Zenon
<1> QED BY <1>4, <1>6, <1>9, Zenon DEF Passes

(* ... of a negation, *)
LEMMA EvaluatesNegation ==
  ASSUME NEW ts \in Seq(Tokens), NEW rec \in Records, NEW w, IsWalk(w, rec),
         NEW P, \A d \in P : IsPhrase(ts, d) /\ Evaluates(ts, rec, w, d) /\ d.tree \in Trees(ts),
         NEW e, IsPhrase(ts, e), e.tree \in Trees(ts), IsNegation(ts, P, e)
  PROVE  Evaluates(ts, rec, w, e)
<1> SUFFICES ASSUME NEW n \in Nat, NEW rest \in Seq(Trees(ts)),
                    n + Size(e) <= MaxTokens, w[n] = <<e.tree>> \o rest
             PROVE  Passes(ts, rec, w, e, n, rest)
  BY DEF Evaluates
<1>1. PICK d \in P : /\ d.rank >= 3 /\ Peek(ts, d.from - 1) = "-"
                     /\ e = Phrase(3, d.from - 1, d.to, <<"neg", d.tree>>, d.deep + 1)
  BY DEF IsNegation
<1>2. e.from = d.from - 1 /\ e.to = d.to /\ e.tree = <<"neg", d.tree>>
  BY <1>1, FieldsOfRecords
<1>3. IsPhrase(ts, d) /\ Evaluates(ts, rec, w, d)
  OBVIOUS
<1>4. /\ d.from \in Nat /\ d.to \in Nat /\ e.from \in Nat /\ e.to \in Nat
      /\ e.from <= d.from /\ d.to <= e.to
      /\ e.from .. d.from - 1 = {e.from} /\ d.to + 1 .. e.to = {}
      /\ n + 1 \in 0 .. MaxTokens /\ (n + 1) + Size(d) <= MaxTokens
      /\ n + 1 .. (n + 1) + Size(d) \subseteq n .. n + Size(e)
  <2>1. e.from = d.from - 1 /\ e.to = d.to
    BY <1>2
  <2>2. /\ d.from \in Nat /\ d.to \in Nat /\ e.from \in Nat /\ e.to \in Nat
        /\ e.from <= d.from /\ d.to <= e.to
        /\ e.from .. d.from - 1 = {e.from} /\ d.to + 1 .. e.to = {}
        /\ VisitsFit(n, Size(d), 0, Size(e))
    BY <1>3, <2>1, NegationSpan
  <2> QED BY <2>2, Zenon DEF VisitsFit
<1>5. ts[e.from] = "-"
  <2>1. e.from \in DOMAIN ts
    BY DEF IsPhrase
  <2> QED BY <1>1, <1>2, <2>1 DEF Peek
<1>6. w[n + 1] = <<d.tree>> \o rest
  <2>1. e.tree[1] = "neg" /\ e.tree[2] = d.tree
    BY <1>2
  <2>2. w[n + 1] = <<e.tree[2]>> \o rest
    <3>1. n + 1 \in 0 .. MaxTokens
      BY <1>4
    <3>2. Descent(Trees(ts), w, n, rest)
      BY <3>1, Descends, Zenon
    <3> QED BY <2>1, <3>2, Zenon DEF Descent
  <2> QED BY <2>1, <2>2, Zenon
<1>7. PICK m \in n + 1 .. (n + 1) + Size(d) :
         \/ Clean(ts, rec, d.from, d.to) /\ w[m] = rest
         \/ \E i : /\ FirstFaulty(ts, rec, d.from, d.to, i)
                   /\ w[m] # <<>> /\ Head(w[m]) = <<"leaf", ts[i]>>
  <2>1. n + 1 \in Nat
    OBVIOUS
  <2> QED BY <1>3, <1>4, <1>6, <2>1, Zenon DEF Evaluates, Passes
<1>8. ~Faulty(rec, ts[e.from])
  <2>1. "-" \in Operators
    BY DEF Operators
  <2> QED BY <1>5, <2>1, NoOperand, Zenon
<1>9. (\A j \in e.from .. d.from - 1 : ~Faulty(rec, ts[j])) /\ \A j \in d.to + 1 .. e.to : ~Faulty(rec, ts[j])
  BY <1>4, <1>8, Zenon
<1>10. /\ \A i : FirstFaulty(ts, rec, d.from, d.to, i) => FirstFaulty(ts, rec, e.from, e.to, i)
       /\ Clean(ts, rec, d.from, d.to) => Clean(ts, rec, e.from, e.to)
  BY <1>4, <1>9, Within, Zenon
<1> QED BY <1>4, <1>7, <1>10, Zenon DEF Passes

(* ... and of two operands, the one on the left first. *)
LEMMA EvaluatesBinary ==
  ASSUME NEW ts \in Seq(Tokens), NEW rec \in Records, NEW w, IsWalk(w, rec),
         NEW P, \A d \in P : IsPhrase(ts, d) /\ Evaluates(ts, rec, w, d) /\ d.tree \in Trees(ts),
         NEW e, IsPhrase(ts, e), e.tree \in Trees(ts), IsBinary(ts, P, e)
  PROVE  Evaluates(ts, rec, w, e)
<1> SUFFICES ASSUME NEW n \in Nat, NEW rest \in Seq(Trees(ts)),
                    n + Size(e) <= MaxTokens, w[n] = <<e.tree>> \o rest
             PROVE  Passes(ts, rec, w, e, n, rest)
  BY DEF Evaluates
<1>1. PICK l \in P, r \in P, rank \in {1, 2, 4} :
        /\ r.from = l.to + 2
        /\ Binds(rank, Peek(ts, l.to + 1), l, r)
        /\ e = Binary(ts, rank, l, r)
  BY DEF IsBinary
<1> DEFINE op == Peek(ts, l.to + 1)
<1>2. e.from = l.from /\ e.to = r.to /\ e.tree = <<op, l.tree, r.tree>>
  BY <1>1 DEF Binary, Phrase
<1>3. /\ IsPhrase(ts, l) /\ Evaluates(ts, rec, w, l) /\ l.tree \in Trees(ts)
      /\ IsPhrase(ts, r) /\ Evaluates(ts, rec, w, r) /\ r.tree \in Trees(ts)
  OBVIOUS
<1>4. op \in Operators
  BY <1>1 DEF Binds, Operators
<1>5. r.from = l.to + 2
  BY <1>1
<1>6. /\ l.from \in Nat /\ l.to \in Nat /\ r.from \in Nat /\ r.to \in Nat
      /\ l.from <= r.from /\ l.to <= r.to /\ l.to + 1 \in DOMAIN ts
      /\ l.from .. l.from - 1 = {} /\ r.to + 1 .. r.to = {}
      /\ l.from .. r.from - 1 = (l.from .. l.to) \cup {l.to + 1}
      /\ n + 1 \in 0 .. MaxTokens /\ (n + 1) + Size(l) <= MaxTokens
      /\ n + 1 .. (n + 1) + Size(l) \subseteq n .. n + Size(e)
      /\ \A m \in n + 1 .. (n + 1) + Size(l) :
           m \in Nat /\ m + Size(r) <= MaxTokens /\ m .. m + Size(r) \subseteq n .. n + Size(e)
  <2>1. e.from = l.from /\ e.to = r.to
    BY <1>2
  <2> HIDE DEF op
  <2>2. /\ l.from \in Nat /\ l.to \in Nat /\ r.from \in Nat /\ r.to \in Nat
        /\ l.from <= r.from /\ l.to <= r.to /\ l.to + 1 \in DOMAIN ts
        /\ l.from .. l.from - 1 = {} /\ r.to + 1 .. r.to = {}
        /\ l.from .. r.from - 1 = (l.from .. l.to) \cup {l.to + 1}
        /\ VisitsFit(n, Size(l), Size(r), Size(e))
    BY <1>3, <1>5, <2>1, BinarySpan
  <2> QED BY <2>2, Zenon DEF VisitsFit
<1>7. ~Faulty(rec, ts[l.to + 1])
  BY <1>4, <1>6, NoOperand, Zenon DEF Peek
<1> HIDE DEF op
<1> DEFINE next == <<r.tree>> \o rest
<1>8. next \in Seq(Trees(ts)) /\ w[n + 1] = <<l.tree>> \o next
  <2>1. e.tree[1] = op /\ e.tree[2] = l.tree /\ e.tree[3] = r.tree
    BY <1>2
  <2>2. e.tree[1] \in Operators /\ e.tree[2] \in Trees(ts) /\ e.tree[3] \in Trees(ts)
    BY <1>3, <1>4, <2>1
  <2>3. /\ <<e.tree[3]>> \o rest \in Seq(Trees(ts))
        /\ w[n + 1] = <<e.tree[2]>> \o (<<e.tree[3]>> \o rest)
    <3>1. n + 1 \in 0 .. MaxTokens
      BY <1>6
    <3>2. Descent(Trees(ts), w, n, rest)
      BY <3>1, Descends, Zenon
    <3> QED BY <2>2, <3>2, Zenon DEF Descent
  <2> QED BY <2>1, <2>3, Zenon
<1> HIDE DEF next
<1>9. PICK m \in n + 1 .. (n + 1) + Size(l) :
         \/ Clean(ts, rec, l.from, l.to) /\ w[m] = next
         \/ \E i : /\ FirstFaulty(ts, rec, l.from, l.to, i)
                   /\ w[m] # <<>> /\ Head(w[m]) = <<"leaf", ts[i]>>
  <2>1. n + 1 \in Nat
    OBVIOUS
  <2> QED BY <1>3, <1>6, <1>8, <2>1, Zenon DEF Evaluates, Passes
<1>10. CASE \E i : /\ FirstFaulty(ts, rec, l.from, l.to, i)
                   /\ w[m] # <<>> /\ Head(w[m]) = <<"leaf", ts[i]>>
  <2>1. l.from <= l.from /\ \A j \in l.from .. l.from - 1 : ~Faulty(rec, ts[j])
    <3>1. \A h \in Nat : h <= h
      OBVIOUS
    <3> QED BY <1>6, <3>1, Zenon
  <2>2. \A i : FirstFaulty(ts, rec, l.from, l.to, i) => FirstFaulty(ts, rec, e.from, e.to, i)
    BY <1>2, <1>6, <2>1, Within, Zenon
  <2> QED BY <1>6, <1>10, <2>2, Zenon DEF Passes
<1>11. CASE Clean(ts, rec, l.from, l.to) /\ w[m] = next
  <2>1. PICK k \in m .. m + Size(r) :
           \/ Clean(ts, rec, r.from, r.to) /\ w[k] = rest
           \/ \E i : /\ FirstFaulty(ts, rec, r.from, r.to, i)
                     /\ w[k] # <<>> /\ Head(w[k]) = <<"leaf", ts[i]>>
    BY <1>3, <1>6, <1>11, Zenon DEF Evaluates, Passes, next
  <2>2. \A j \in l.from .. r.from - 1 : ~Faulty(rec, ts[j])
    BY <1>6, <1>7, <1>11, Zenon DEF Clean
  <2>3. r.to <= r.to /\ \A j \in r.to + 1 .. r.to : ~Faulty(rec, ts[j])
    <3>1. \A h \in Nat : h <= h
      OBVIOUS
    <3> QED BY <1>6, <3>1, Zenon
  <2>4. /\ \A i : FirstFaulty(ts, rec, r.from, r.to, i) => FirstFaulty(ts, rec, e.from, e.to, i)
        /\ Clean(ts, rec, r.from, r.to) => Clean(ts, rec, e.from, e.to)
    BY <1>2, <1>6, <2>2, <2>3, Within, Zenon
  <2> QED BY <1>6, <2>1, <2>4, Zenon DEF Passes
<1> QED BY <1>9, <1>10, <1>11, Zenon

(* The evaluation of every phrase of a text. *)
LEMMA AllEvaluate ==
  ASSUME NEW ts \in Seq(Tokens), NEW rec \in Records, NEW w, IsWalk(w, rec)
  PROVE  \A e \in Phrases(ts)[Len(ts)] : Evaluates(ts, rec, w, e)
<1> DEFINE T == {k \in Nat : k <= Len(ts) => \A e \in Phrases(ts)[k] : Evaluates(ts, rec, w, e)}
<1>0. Len(ts) \in Nat
  OBVIOUS
<1>1. 0 \in T
  BY <1>0, PhrasesStep
<1>2. ASSUME NEW k \in Nat, k \in T PROVE k + 1 \in T
  <2> SUFFICES ASSUME k + 1 <= Len(ts), NEW e \in Phrases(ts)[k + 1] PROVE Evaluates(ts, rec, w, e)
    OBVIOUS
  <2> DEFINE P == Phrases(ts)[k]
  <2>1. k \in 0 .. Len(ts) /\ k + 1 \in 0 .. Len(ts) /\ k + 1 # 0 /\ (k + 1) - 1 = k
    BY <1>0
  <2>2. e \in Longer(ts, P)
    BY <1>0, <2>1, PhrasesStep
  <2>3. IsPhrase(ts, e) /\ \A d \in P : IsPhrase(ts, d)
    BY <2>1, PhrasesWithin
  <2>4. Phrases(ts)[k] \subseteq Phrases(ts)[Len(ts)] /\ Phrases(ts)[k + 1] \subseteq Phrases(ts)[Len(ts)]
    BY <1>0, <2>1, StagesGrow
  <2>5. e.tree \in Trees(ts) /\ \A d \in P : d.tree \in Trees(ts)
    BY <2>4 DEF Trees
  <2>6. \A d \in P : Evaluates(ts, rec, w, d)
    BY <1>0, <1>2, <2>1
  <2> HIDE DEF P
  <2>7. e \in P \/ IsLeaf(ts, e) \/ IsParen(ts, P, e) \/ IsNegation(ts, P, e) \/ IsBinary(ts, P, e)
    BY <2>2, ByRule
  <2>8. CASE e \in P
    BY <2>6, <2>8
  <2>9. CASE IsLeaf(ts, e)
    BY <2>3, <2>5, <2>9, EvaluatesLeaf, Zenon
  <2>10. CASE IsParen(ts, P, e)
    BY <2>3, <2>6, <2>10, EvaluatesParen, Zenon
  <2>11. CASE IsNegation(ts, P, e)
    BY <2>3, <2>5, <2>6, <2>11, EvaluatesNegation, Zenon
  <2>12. CASE IsBinary(ts, P, e)
    BY <2>3, <2>5, <2>6, <2>12, EvaluatesBinary, Zenon
  <2> QED BY <2>7, <2>8, <2>9, <2>10, <2>11, <2>12
<1> HIDE DEF T
<1>3. Len(ts) \in T
  BY <1>0, <1>1, <1>2, Induction
<1> QED BY <1>0, <1>3 DEF T

(* What a walk stays at: the end, and an operand that faults. *)
LEMMA WalkStays ==
  ASSUME NEW rec \in Records, NEW w, IsWalk(w, rec), NEW m \in 0 .. MaxTokens,
         w[m] # <<>> => \E token : Head(w[m]) = <<"leaf", token>> /\ Faulty(rec, token)
  PROVE  w[MaxTokens] = w[m]
<1> DEFINE T == {k \in Nat : m + k <= MaxTokens => w[m + k] = w[m]}
<1>0. MaxTokens \in Nat /\ m \in Nat /\ MaxTokens - m \in Nat /\ m + (MaxTokens - m) = MaxTokens
  BY ExprAssumption
<1>1. 0 \in T
  BY <1>0
<1>2. ASSUME NEW k \in Nat, k \in T PROVE k + 1 \in T
  <2> SUFFICES ASSUME m + (k + 1) <= MaxTokens PROVE w[m + (k + 1)] = w[m]
    OBVIOUS
  <2> DEFINE i == m + (k + 1)
  <2>1. i \in 0 .. MaxTokens /\ i # 0 /\ i - 1 = m + k /\ w[m + k] = w[m]
    BY <1>0, <1>2
  <2> HIDE DEF i
  <2>2. w[i] = IF w[m] = <<>> THEN <<>> ELSE Visit(w[m], rec)
    BY <2>1, Zenon DEF IsWalk
  <2>3. CASE w[m] = <<>>
    BY <2>2, <2>3 DEF i
  <2>4. CASE w[m] # <<>>
    <3>0. PICK token : Head(w[m]) = <<"leaf", token>> /\ Faulty(rec, token)
      BY <2>4
    <3>1. LeafFault(<<"leaf", token>>, rec) # NoFault
      BY <3>0, FaultOfLeaf
    <3>2. <<"leaf", token>>[1] = "leaf"
      OBVIOUS
    <3>3. Visit(w[m], rec) = w[m]
      BY <3>0, <3>1, <3>2 DEF Visit
    <3> QED BY <2>2, <2>4, <3>3 DEF i
  <2> QED BY <2>3, <2>4
<1> HIDE DEF T
<1>3. MaxTokens - m \in T
  BY <1>0, <1>1, <1>2, Induction
<1> QED BY <1>0, <1>3 DEF T

(* Expr::eval faults at the first operand among the tokens that is no      *)
(* number, as that operand does.                                           *)
LEMMA EvaluatesTokens ==
  ASSUME NEW S, NEW text \in Seq(S), Parse(text).ok, NEW rec \in Records
  PROVE  LET ts == Lex(text).tokens
         IN  \/ Clean(ts, rec, 1, Len(ts)) /\ Eval(Parse(text).tree, rec) = NoFault
             \/ \E i : /\ FirstFaulty(ts, rec, 1, Len(ts), i)
                       /\ Eval(Parse(text).tree, rec) = FieldFault(rec, ts[i])
<1> DEFINE ts == Lex(text).tokens
           tree == Parse(text).tree
           w == Walk(tree, rec)
<1>1. Lex(text).ok /\ Len(ts) <= MaxTokens
  <2>1. Lex(text).ok
    BY FieldsOfRecords DEF Parse
  <2>2. Len(ts) \in Nat
    BY <2>1, LexTokens
  <2>3. ~(Len(ts) > MaxTokens)
    BY FieldsOfRecords DEF Parse
  <2> QED BY <2>1, <2>2, <2>3, ExprAssumption
<1>2. ts \in Seq(Tokens)
  BY <1>1, LexTokens
<1>3. PICK e \in Phrases(ts)[Len(ts)] : e.from = 1 /\ e.to = Len(ts) /\ e.tree = tree
  <2>1. tree \in Meanings(text)
    BY ParserReadsTheGrammar
  <2>2. Meanings(text) = {e.tree : e \in {e \in Phrases(ts)[Len(ts)] :
                                            e.from = 1 /\ e.to = Len(ts) /\ e.deep <= MaxDepth}}
    BY <1>1, Zenon DEF Meanings
  <2> HIDE DEF ts, tree
  <2> QED BY <2>1, <2>2
<1>4. Eval(tree, rec) = IF w[MaxTokens] = <<>> THEN NoFault ELSE LeafFault(Head(w[MaxTokens]), rec)
  BY Zenon DEF Eval
<1>5. IsWalk(w, rec) /\ w[0] = <<tree>>
  BY WalkStep, Zenon DEF IsWalk
<1> HIDE DEF w, ts, tree
<1>6. Evaluates(ts, rec, w, e)
  BY <1>2, <1>5, AllEvaluate
<1>7. Len(ts) \in Nat /\ Size(e) = Len(ts) /\ 0 + Size(e) <= MaxTokens
  <2>1. Len(ts) \in Nat
    BY <1>2
  <2> QED BY <1>1, <1>3, <2>1 DEF Size
<1>8. <<>> \in Seq(Trees(ts)) /\ w[0] = <<e.tree>> \o <<>>
  <2>1. e.tree \in Trees(ts)
    BY DEF Trees
  <2>2. <<e.tree>> \in Seq(Trees(ts))
    BY <2>1
  <2>3. <<e.tree>> \o <<>> = <<e.tree>>
    BY <2>2, ConcatEmptySeq
  <2>4. <<>> \in Seq(Trees(ts))
    OBVIOUS
  <2> QED BY <1>3, <1>5, <2>3, <2>4
<1>9. Passes(ts, rec, w, e, 0, <<>>)
  <2>1. 0 \in Nat
    OBVIOUS
  <2> QED BY <1>6, <1>7, <1>8, <2>1, Zenon DEF Evaluates
<1>10. PICK m \in 0 .. 0 + Size(e) :
         \/ Clean(ts, rec, 1, Len(ts)) /\ w[m] = <<>>
         \/ \E i : /\ FirstFaulty(ts, rec, 1, Len(ts), i)
                   /\ w[m] # <<>> /\ Head(w[m]) = <<"leaf", ts[i]>>
  BY <1>3, <1>9, Zenon DEF Passes
<1>11. m \in 0 .. MaxTokens
  BY <1>7, <1>10, ExprAssumption
<1>12. CASE Clean(ts, rec, 1, Len(ts)) /\ w[m] = <<>>
  <2>1. w[MaxTokens] = <<>>
    BY <1>5, <1>11, <1>12, WalkStays, Zenon
  <2> QED BY <1>4, <1>12, <2>1 DEF ts, tree
<1>13. CASE \E i : /\ FirstFaulty(ts, rec, 1, Len(ts), i)
                   /\ w[m] # <<>> /\ Head(w[m]) = <<"leaf", ts[i]>>
  <2>1. PICK i : /\ FirstFaulty(ts, rec, 1, Len(ts), i)
                 /\ w[m] # <<>> /\ Head(w[m]) = <<"leaf", ts[i]>>
    BY <1>13
  <2>2. Faulty(rec, ts[i])
    BY <2>1 DEF FirstFaulty
  <2>3. w[MaxTokens] = w[m]
    BY <1>5, <1>11, <2>1, <2>2, WalkStays, Zenon
  <2>4. LeafFault(<<"leaf", ts[i]>>, rec) = FieldFault(rec, ts[i])
    BY <2>2 DEF LeafFault, Faulty
  <2>5. Eval(tree, rec) = FieldFault(rec, ts[i])
    BY <1>4, <2>1, <2>3, <2>4
  <2> QED BY <2>1, <2>5, Zenon DEF ts, tree
<1> QED BY <1>10, <1>12, <1>13

(* What lex leaves of a text: the first faulty operand stays the first. *)
LEMMA LexFaults ==
  ASSUME NEW S, NEW text \in Seq(S), Lex(text).ok, NEW rec
  PROVE  LET ts == Lex(text).tokens
         IN  /\ Clean(text, rec, 1, Len(text)) => Clean(ts, rec, 1, Len(ts))
             /\ \A i : FirstFaulty(text, rec, 1, Len(text), i) =>
                         \E j : FirstFaulty(ts, rec, 1, Len(ts), j) /\ ts[j] = text[i]
<1> DEFINE upto == Upto(text)
           Same(k) ==
             /\ upto[k] \in Seq(S)
             /\ Clean(text, rec, 1, k) => Clean(upto[k], rec, 1, Len(upto[k]))
             /\ \A i : FirstFaulty(text, rec, 1, k, i) =>
                         \E j : FirstFaulty(upto[k], rec, 1, Len(upto[k]), j) /\ upto[k][j] = text[i]
           T == {k \in Nat : k <= Len(text) => Same(k)}
<1>0. Len(text) \in Nat /\ DOMAIN text = 1 .. Len(text)
  OBVIOUS
<1>1. upto[0] = <<>>
  BY <1>0, LexStep
<1>2. \A k \in 0 .. Len(text) :
        k # 0 => upto[k] = IF text[k] = Blank THEN upto[k - 1] ELSE Append(upto[k - 1], text[k])
  BY <1>0, LexStep
<1>3. ~Faulty(rec, Blank)
  BY ExprAssumption DEF Faulty, Operands
<1> HIDE DEF upto
<1>4. 0 \in T
  <2>1. <<>> \in Seq(S) /\ Len(<<>>) = 0 /\ 1 .. 0 = {}
    OBVIOUS
  <2> QED BY <1>1, <2>1 DEF Clean, FirstFaulty
<1>5. ASSUME NEW k \in Nat, k \in T PROVE k + 1 \in T
  <2> SUFFICES ASSUME k + 1 <= Len(text) PROVE Same(k + 1)
    OBVIOUS
  <2> DEFINE s == upto[k]
             t == upto[k + 1]
  <2>1. k <= Len(text) /\ k + 1 \in 0 .. Len(text) /\ k + 1 # 0 /\ (k + 1) - 1 = k /\ k + 1 \in 1 .. Len(text)
    BY <1>0
  <2>2. s \in Seq(S) /\ Same(k) /\ Len(s) \in Nat
    BY <1>5, <2>1
  <2>3. t = IF text[k + 1] = Blank THEN s ELSE Append(s, text[k + 1])
    BY <1>2, <2>1
  <2>4. text[k + 1] \in S
    BY <1>0, <2>1
  <2>5. 1 .. k + 1 = (1 .. k) \cup {k + 1}
    OBVIOUS
  <2>6. Clean(text, rec, 1, k + 1) => Clean(text, rec, 1, k) /\ ~Faulty(rec, text[k + 1])
    BY <2>5 DEF Clean
  <2>7. ASSUME NEW i, FirstFaulty(text, rec, 1, k + 1, i)
        PROVE  \/ FirstFaulty(text, rec, 1, k, i)
               \/ i = k + 1 /\ Faulty(rec, text[k + 1]) /\ Clean(text, rec, 1, k)
    <3>1. CASE i = k + 1
      BY <2>7, <3>1 DEF FirstFaulty, Clean
    <3>2. CASE i # k + 1
      BY <2>5, <2>7, <3>2 DEF FirstFaulty
    <3> QED BY <3>1, <3>2
  <2>8. CASE text[k + 1] = Blank
    <3>1. t = s
      BY <2>3, <2>8
    <3>2. \A i : FirstFaulty(text, rec, 1, k + 1, i) => FirstFaulty(text, rec, 1, k, i)
      BY <1>3, <2>7, <2>8
    <3> HIDE DEF s
    <3>3. Same(k)
      BY <2>2
    <3> QED BY <2>2, <2>6, <3>1, <3>2, <3>3, Zenon DEF s
  <2>9. CASE text[k + 1] # Blank
    <3> DEFINE n == Len(s) + 1
    <3>1. t \in Seq(S) /\ Len(t) = n /\ t[n] = text[k + 1] /\ \A j \in 1 .. Len(s) : t[j] = s[j]
      BY <2>2, <2>3, <2>4, <2>9
    <3>2. 1 .. n = (1 .. Len(s)) \cup {n} /\ n - 1 = Len(s) /\ n \in 1 .. n
      BY <2>2
    <3> HIDE DEF s, t, n
    <3>3. Clean(s, rec, 1, Len(s)) /\ ~Faulty(rec, text[k + 1]) => Clean(t, rec, 1, n)
      BY <3>1, <3>2 DEF Clean
    <3>4. ASSUME NEW j, FirstFaulty(s, rec, 1, Len(s), j) PROVE FirstFaulty(t, rec, 1, n, j) /\ t[j] = s[j]
      <4>1. j \in 1 .. Len(s) /\ Faulty(rec, s[j]) /\ \A h \in 1 .. j - 1 : ~Faulty(rec, s[h])
        BY <3>4 DEF FirstFaulty
      <4>2. \A h \in 1 .. j - 1 : h \in 1 .. Len(s)
        BY <2>2, <4>1 DEF s
      <4> QED BY <3>1, <3>2, <4>1, <4>2 DEF FirstFaulty
    <3>5. Clean(s, rec, 1, Len(s)) /\ Faulty(rec, text[k + 1]) => FirstFaulty(t, rec, 1, n, n)
      BY <3>1, <3>2 DEF Clean, FirstFaulty
    <3>6. Clean(text, rec, 1, k) => Clean(s, rec, 1, Len(s))
      BY <2>2 DEF s
    <3>7. \A i : FirstFaulty(text, rec, 1, k, i) => \E j : FirstFaulty(s, rec, 1, Len(s), j) /\ s[j] = text[i]
      BY <2>2 DEF s
    <3>8. Clean(text, rec, 1, k + 1) => Clean(t, rec, 1, Len(t))
      BY <2>6, <3>1, <3>3, <3>6
    <3>9. ASSUME NEW i, FirstFaulty(text, rec, 1, k + 1, i)
          PROVE  \E j : FirstFaulty(t, rec, 1, Len(t), j) /\ t[j] = text[i]
      <4>1. CASE FirstFaulty(text, rec, 1, k, i)
        BY <3>1, <3>4, <3>7, <4>1
      <4>2. CASE i = k + 1 /\ Faulty(rec, text[k + 1]) /\ Clean(text, rec, 1, k)
        BY <3>1, <3>5, <3>6, <4>2
      <4> QED BY <2>7, <3>9, <4>1, <4>2
    <3> QED BY <3>1, <3>8, <3>9 DEF t
  <2> QED BY <2>8, <2>9
<1> HIDE DEF T
<1>6. Len(text) \in T
  BY <1>0, <1>4, <1>5, Induction
<1>7. Same(Len(text))
  BY <1>0, <1>6 DEF T
<1>8. Lex(text).tokens = upto[Len(text)]
  BY DEF Lex, upto
<1> QED BY <1>7, <1>8

(* Of the operands of an expression that are no number in a record, the    *)
(* one that comes first in the text is the fault of its evaluation; where  *)
(* there is none, there is no fault.                                       *)
THEOREM FirstFaultDecides ==
  ASSUME NEW S, NEW text \in Seq(S), Parse(text).ok, NEW rec \in Records
  PROVE  /\ Clean(text, rec, 1, Len(text)) => Eval(Parse(text).tree, rec) = NoFault
         /\ \A i : FirstFaulty(text, rec, 1, Len(text), i) =>
                     Eval(Parse(text).tree, rec) = FieldFault(rec, text[i])
<1> DEFINE ts == Lex(text).tokens
<1>1. Lex(text).ok
  BY FieldsOfRecords DEF Parse
<1>2. ts \in Seq(Tokens) /\ Len(ts) \in Nat
  BY <1>1, LexTokens
<1>3. /\ Clean(text, rec, 1, Len(text)) => Clean(ts, rec, 1, Len(ts))
      /\ \A i : FirstFaulty(text, rec, 1, Len(text), i) =>
                  \E j : FirstFaulty(ts, rec, 1, Len(ts), j) /\ ts[j] = text[i]
  BY <1>1, LexFaults
<1>4. \/ Clean(ts, rec, 1, Len(ts)) /\ Eval(Parse(text).tree, rec) = NoFault
      \/ \E i : /\ FirstFaulty(ts, rec, 1, Len(ts), i)
                /\ Eval(Parse(text).tree, rec) = FieldFault(rec, ts[i])
  BY EvaluatesTokens
<1> HIDE DEF ts
<1>5. \A i : FirstFaulty(ts, rec, 1, Len(ts), i) => ~Clean(ts, rec, 1, Len(ts))
  BY DEF FirstFaulty, Clean
<1>6. \A i, j : FirstFaulty(ts, rec, 1, Len(ts), i) /\ FirstFaulty(ts, rec, 1, Len(ts), j) => i = j
  <2> SUFFICES ASSUME NEW i, NEW j, FirstFaulty(ts, rec, 1, Len(ts), i), FirstFaulty(ts, rec, 1, Len(ts), j)
               PROVE  i = j
    OBVIOUS
  <2>1. /\ i \in 1 .. Len(ts) /\ Faulty(rec, ts[i]) /\ \A h \in 1 .. i - 1 : ~Faulty(rec, ts[h])
        /\ j \in 1 .. Len(ts) /\ Faulty(rec, ts[j]) /\ \A h \in 1 .. j - 1 : ~Faulty(rec, ts[h])
    BY DEF FirstFaulty
  <2>2. ~(i < j) /\ ~(j < i)
    BY <1>2, <2>1
  <2> QED BY <1>2, <2>1, <2>2
<1> QED BY <1>3, <1>4, <1>5, <1>6

=============================================================================
