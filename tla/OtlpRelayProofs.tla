--------------------------- MODULE OtlpRelayProofs ---------------------------
(***************************************************************************)
(* The OTLP relay for any number of clients, data points, requests and     *)
(* restarts, any channel and batch size: every increment that was decoded  *)
(* is in one record, and what the channel accepted is delivered or held.   *)
(*                                                                         *)
(* A request is decoded by a fold over its points, and what records count  *)
(* is a fold over a set: the first part shows what the two folds compute,  *)
(* by well-founded induction on the subsets of a finite set.               *)
(***************************************************************************)
EXTENDS OtlpRelay, FiniteSetTheorems, TLAPS

-----------------------------------------------------------------------------
(* Induction. *)

(* A set of natural numbers that has one has a least one. *)
LEMMA LeastNat ==
  ASSUME NEW T \in SUBSET Nat, T # {}
  PROVE  \E x \in T : \A y \in T : x <= y
<1> DEFINE F == {1 .. n : n \in T}
<1>1. F \subseteq FiniteSubsetsOf(Nat)
  <2>1. ASSUME NEW n \in Nat PROVE IsFiniteSet(1 .. n) /\ 1 .. n \subseteq Nat
    BY FS_Interval
  <2> QED BY <2>1 DEF FiniteSubsetsOf
<1>2. F # {}
  OBVIOUS
<1>3. IsWellFoundedOn(StrictSubsetOrdering(Nat), FiniteSubsetsOf(Nat))
  BY FS_StrictSubsetOrderingWellFounded
<1> HIDE DEF F
<1>4. \E w \in F : \A y \in F : ~(<<y, w>> \in StrictSubsetOrdering(Nat))
  BY <1>1, <1>2, <1>3, WFMin, Zenon
<1>5. PICK x \in T : \A y \in F : ~(<<y, 1 .. x>> \in StrictSubsetOrdering(Nat))
  BY <1>4 DEF F
<1>6. ASSUME NEW y \in T, y < x PROVE FALSE
  <2>1. x \in 1 .. x /\ x \notin 1 .. y
    BY <1>6
  <2>2. 1 .. y \subseteq 1 .. x /\ 1 .. y # 1 .. x /\ 1 .. x \subseteq Nat /\ 1 .. y \subseteq Nat
    BY <1>6, <2>1
  <2> QED BY <1>5, <2>2 DEF F, StrictSubsetOrdering
<1> QED BY <1>6

(* ... and a family of subsets of a finite set that has one has a least one. *)
LEMMA LeastSubset ==
  ASSUME NEW S, IsFiniteSet(S), NEW B, B \subseteq SUBSET S, B # {}
  PROVE  \E T \in B : \A x \in T : T \ {x} \notin B
<1>1. IsWellFoundedOn(StrictSubsetOrdering(S), SUBSET S)
  BY FS_StrictSubsetOrderingWellFounded, FS_FiniteSubsetsOfFinite
<1>2. PICK T \in B : \A U \in B : ~(<<U, T>> \in StrictSubsetOrdering(S))
  BY <1>1, WFMin, Zenon
<1>3. ASSUME NEW x \in T, T \ {x} \in B PROVE FALSE
  <2>1. T \ {x} \subseteq T /\ T \ {x} # T /\ T \in SUBSET S /\ T \ {x} \in SUBSET S
    BY <1>3
  <2> QED BY <1>2, <1>3, <2>1 DEF StrictSubsetOrdering
<1> QED BY <1>3

(* A recursion over the subsets of a finite set, one element less at a time, *)
(* has a solution, with the type of its steps.                             *)
FoldArgs(S, V, base, pick, F) ==
  /\ IsFiniteSet(S)
  /\ base \in V
  /\ \A s \in SUBSET S : s # {} => pick[s] \in s
  /\ F \in [S \X V -> V]

Folds(g, S, V, base, pick, F) ==
  /\ g \in [SUBSET S -> V]
  /\ \A s \in SUBSET S : g[s] = IF s = {} THEN base ELSE F[<<pick[s], g[s \ {pick[s]}]>>]

(* A fold over any finite set exists: a least set without one would have *)
(* one, made of the fold of the set less its pick.                       *)
LEMMA FoldExists ==
  ASSUME NEW S, NEW V, NEW base, NEW pick, NEW F, FoldArgs(S, V, base, pick, F)
  PROVE  \E g : Folds(g, S, V, base, pick, F)
<1> USE DEF FoldArgs
<1> DEFINE Level(n) == {s \in SUBSET S : Cardinality(s) <= n}
           Eq(g, s) == g[s] = IF s = {} THEN base ELSE F[<<pick[s], g[s \ {pick[s]}]>>]
           Rec(g, n) == g \in [Level(n) -> V] /\ \A s \in Level(n) : Eq(g, s)
           Bad == {n \in Nat : ~ \E g : Rec(g, n)}
<1>1. \A s \in SUBSET S : IsFiniteSet(s) /\ Cardinality(s) \in Nat /\ (Cardinality(s) = 0 <=> s = {})
  BY FS_Subset, FS_CardinalityType, FS_EmptySet
<1>2. \A s \in SUBSET S, x \in S : x \in s => Cardinality(s \ {x}) = Cardinality(s) - 1
  BY <1>1, FS_RemoveElement
<1>3. 0 \notin Bad
  <2> DEFINE g == [s \in Level(0) |-> base]
  <2>1. \A s \in Level(0) : s = {}
    BY <1>1
  <2>2. Rec(g, 0)
    BY <2>1
  <2> QED BY <2>2
<1>4. ASSUME NEW n \in Nat, n \notin Bad PROVE n + 1 \notin Bad
  <2>1. PICK h : Rec(h, n)
    BY <1>4
  <2> DEFINE g == [s \in Level(n + 1) |-> IF s = {} THEN base ELSE F[<<pick[s], h[s \ {pick[s]}]>>]]
  <2>2. ASSUME NEW s \in Level(n + 1), s # {}
        PROVE  s \ {pick[s]} \in Level(n) /\ pick[s] \in S
    BY <2>2, <1>1, <1>2
  <2>3. g \in [Level(n + 1) -> V]
    BY <2>1, <2>2
  <2>4. Level(n) \subseteq Level(n + 1)
    BY <1>1
  <2>5. \A s \in Level(n) : g[s] = h[s]
    BY <2>1, <2>4
  <2>6. \A s \in Level(n + 1) : Eq(g, s)
    BY <2>2, <2>4, <2>5
  <2> QED BY <2>3, <2>6
<1>5. Bad = {}
  <2> HIDE DEF Bad
  <2>1. Bad \in SUBSET Nat
    BY DEF Bad
  <2>2. ASSUME Bad # {} PROVE FALSE
    <3>1. PICK n \in Bad : \A m \in Bad : n <= m
      BY <2>1, <2>2, LeastNat
    <3>2. n \in Nat /\ n # 0 /\ n - 1 \in Nat
      BY <2>1, <1>3
    <3>3. n - 1 \in Bad
      BY <3>2, <1>4
    <3> QED BY <3>1, <3>2, <3>3
  <2> QED BY <2>2
<1>6. PICK g : Rec(g, Cardinality(S))
  BY <1>1, <1>5
<1>7. Level(Cardinality(S)) = SUBSET S
  BY FS_Subset, FS_CardinalityType
<1> QED BY <1>6, <1>7 DEF Folds

(* What the records of a set count, and the sum that it is. *)
Total(S) == MapThenSumSet(LAMBDA r : r.delta, S)

(* Of the elements of a set, the one CHOOSE takes. *)
Picked(s) == CHOOSE x \in s : TRUE

Sums(g, S) ==
  g = [s \in SUBSET S |-> IF s = {} THEN 0 ELSE Picked(s).delta + g[s \ {Picked(s)}]]

(* The total is what the fold of the library computes. *)
LEMMA TotalDef ==
  ASSUME NEW S
  PROVE  Total(S) = (CHOOSE g : Sums(g, S))[S]
BY DEF Total, MapThenSumSet, MapThenFoldSet, Sums, Picked

(* Every finite set of records has its sums. *)
LEMMA SumsExist ==
  ASSUME NEW S, IsFiniteSet(S), \A r \in S : r.delta \in Nat
  PROVE  \E g \in [SUBSET S -> Nat] : Sums(g, S)
<1> DEFINE pick == [s \in SUBSET S |-> Picked(s)]
           F == [p \in S \X Nat |-> p[1].delta + p[2]]
<1>1. \A s \in SUBSET S : s # {} => pick[s] \in s
  BY DEF Picked
<1>2. F \in [S \X Nat -> Nat]
  OBVIOUS
<1>3. \A x \in S, v \in Nat : F[<<x, v>>] = x.delta + v
  OBVIOUS
<1>3a. \A s \in SUBSET S : pick[s] = Picked(s)
  OBVIOUS
<1> HIDE DEF F, pick
<1>3b. FoldArgs(S, Nat, 0, pick, F)
  BY <1>1, <1>2 DEF FoldArgs
<1>3c. PICK g : Folds(g, S, Nat, 0, pick, F)
  BY <1>3b, FoldExists
<1>4. /\ g \in [SUBSET S -> Nat]
      /\ \A s \in SUBSET S : g[s] = IF s = {} THEN 0 ELSE F[<<pick[s], g[s \ {pick[s]}]>>]
  BY <1>3c DEF Folds
<1>5. \A s \in SUBSET S : g[s] = IF s = {} THEN 0 ELSE Picked(s).delta + g[s \ {Picked(s)}]
  <2> SUFFICES ASSUME NEW s \in SUBSET S, s # {}
               PROVE  g[s] = Picked(s).delta + g[s \ {Picked(s)}]
    BY <1>4
  <2>1. Picked(s) \in S /\ g[s \ {Picked(s)}] \in Nat
    <3>1. Picked(s) \in s /\ s \ {Picked(s)} \in SUBSET S
      BY <1>1, <1>3a
    <3> QED BY <1>4, <3>1
  <2>2. g[s] = F[<<Picked(s), g[s \ {Picked(s)}]>>]
    BY <1>3a, <1>4
  <2> QED BY <1>3, <2>1, <2>2
<1>6. g = [s \in SUBSET S |-> g[s]]
  BY <1>4
<1>7. g = [s \in SUBSET S |-> IF s = {} THEN 0 ELSE Picked(s).delta + g[s \ {Picked(s)}]]
  BY <1>5, <1>6
<1> QED BY <1>4, <1>7 DEF Sums

(* The sums over a set and over a part of it agree. *)
LEMMA SumsAgree ==
  ASSUME NEW S, IsFiniteSet(S), NEW T \in SUBSET S,
         NEW g, Sums(g, S), NEW h, Sums(h, T)
  PROVE  g[T] = h[T]
<1> DEFINE Bad == {s \in SUBSET T : g[s] # h[s]}
<1>1. \A s \in SUBSET T : /\ g[s] = IF s = {} THEN 0 ELSE Picked(s).delta + g[s \ {Picked(s)}]
                          /\ h[s] = IF s = {} THEN 0 ELSE Picked(s).delta + h[s \ {Picked(s)}]
  BY DEF Sums
<1>2. ASSUME Bad # {} PROVE FALSE
  <2>1. IsFiniteSet(T)
    BY FS_Subset
  <2>2. PICK s \in Bad : \A x \in s : s \ {x} \notin Bad
    BY <1>2, <2>1, LeastSubset
  <2>3. s # {} /\ s \in SUBSET T
    BY <1>1
  <2>4. Picked(s) \in s
    BY <2>3 DEF Picked
  <2> QED BY <1>1, <2>2, <2>3, <2>4
<1> QED BY <1>2

(* The total of a set: nothing, or an element's part and the rest's. *)
LEMMA TotalStep ==
  ASSUME NEW S, IsFiniteSet(S), \A r \in S : r.delta \in Nat
  PROVE  /\ Total(S) \in Nat
         /\ S = {} => Total(S) = 0
         /\ S # {} => Picked(S) \in S /\ Total(S) = Picked(S).delta + Total(S \ {Picked(S)})
<1>1. ASSUME NEW T \in SUBSET S
      PROVE  \E g \in [SUBSET T -> Nat] : Sums(g, T) /\ Total(T) = g[T]
  <2>1. IsFiniteSet(T) /\ \A r \in T : r.delta \in Nat
    BY FS_Subset
  <2>2. PICK h \in [SUBSET T -> Nat] : Sums(h, T)
    BY <2>1, SumsExist
  <2> DEFINE g == CHOOSE i : Sums(i, T)
  <2>3. Sums(g, T)
    BY <2>2
  <2>4. Total(T) = g[T]
    BY TotalDef
  <2> HIDE DEF g
  <2>5. \A s \in SUBSET T : g[s] = h[s]
    <3> SUFFICES ASSUME NEW s \in SUBSET T PROVE g[s] = h[s]
      OBVIOUS
    <3>1. IsFiniteSet(s) /\ \A r \in s : r.delta \in Nat
      BY <2>1, FS_Subset
    <3>2. PICK i \in [SUBSET s -> Nat] : Sums(i, s)
      BY <3>1, SumsExist
    <3>3. g[s] = i[s]
      BY <2>1, <2>3, <3>2, SumsAgree
    <3>4. h[s] = i[s]
      BY <2>1, <2>2, <3>2, SumsAgree
    <3> QED BY <3>3, <3>4
  <2>6. g \in [SUBSET T -> Nat]
    BY <2>3, <2>5 DEF Sums
  <2> QED BY <2>3, <2>4, <2>6
<1>2. PICK g \in [SUBSET S -> Nat] : Sums(g, S) /\ Total(S) = g[S]
  BY <1>1
<1>3. Total(S) = IF S = {} THEN 0 ELSE Picked(S).delta + g[S \ {Picked(S)}]
  BY <1>2 DEF Sums
<1>4. S # {} => Picked(S) \in S
  BY DEF Picked
<1>5. ASSUME S # {} PROVE g[S \ {Picked(S)}] = Total(S \ {Picked(S)})
  <2> DEFINE T == S \ {Picked(S)}
  <2>1. PICK h \in [SUBSET T -> Nat] : Sums(h, T) /\ Total(T) = h[T]
    BY <1>1
  <2>2. g[T] = h[T]
    BY <1>2, <2>1, SumsAgree
  <2> QED BY <2>1, <2>2
<1>6. Total(S) \in Nat
  BY <1>2
<1> QED BY <1>3, <1>4, <1>5, <1>6

(* ... whichever element that is. *)
LEMMA TotalAdd ==
  ASSUME NEW S, IsFiniteSet(S), \A r \in S : r.delta \in Nat,
         NEW x, x \notin S, x.delta \in Nat
  PROVE  Total(S \cup {x}) = Total(S) + x.delta
<1> DEFINE X == S \cup {x}
           Adds(T, z) == Total(T \cup {z}) = Total(T) + z.delta
           Bad == {T \in SUBSET X : \E z \in X \ T : ~ Adds(T, z)}
<1>1. IsFiniteSet(X) /\ \A r \in X : r.delta \in Nat
  BY FS_AddElement
<1>2. \A s \in SUBSET X : IsFiniteSet(s) /\ Total(s) \in Nat
  BY <1>1, FS_Subset, TotalStep
<1>3. ASSUME Bad # {} PROVE FALSE
  <2>1. PICK T \in Bad : \A r \in T : T \ {r} \notin Bad
    <3>1. Bad \subseteq SUBSET X
      OBVIOUS
    <3> HIDE DEF X, Bad
    <3> QED BY <1>1, <1>3, <3>1, LeastSubset
  <2>2. PICK z \in X \ T : ~ Adds(T, z)
    BY <2>1
  <2> DEFINE U == T \cup {z}
             y == Picked(U)
  <2>3. U \in SUBSET X /\ T \in SUBSET X
    BY <2>1, <2>2
  <2>4. y \in U /\ Total(U) = y.delta + Total(U \ {y})
    BY <1>1, <1>2, <2>3, TotalStep
  <2> HIDE DEF y, Adds
  <2>5. CASE y = z
    <3>1. U \ {y} = T /\ z.delta \in Nat /\ Total(T) \in Nat
      BY <1>1, <1>2, <2>3, <2>5
    <3>2. Total(U) = z.delta + Total(T)
      BY <2>4, <2>5, <3>1
    <3> HIDE DEF U
    <3>3. Total(U) = Total(T) + z.delta
      BY <3>1, <3>2
    <3> QED BY <2>2, <3>3 DEF Adds, U
  <2>6. CASE y # z
    <3> DEFINE R == T \ {y}
    <3>1. y \in T /\ U \ {y} = R \cup {z} /\ T = R \cup {y} /\ z \in X \ R /\ y \in X \ R
      BY <2>3, <2>4, <2>6
    <3>2. R \in SUBSET X /\ R \notin Bad
      BY <2>1, <2>3, <3>1
    <3>3. Adds(R, z) /\ Adds(R, y)
      BY <3>1, <3>2
    <3>4. Total(R \cup {z}) = Total(R) + z.delta /\ Total(T) = Total(R) + y.delta
      BY <3>1, <3>3 DEF Adds
    <3>5. Total(U) = y.delta + Total(R \cup {z})
      BY <2>4, <3>1
    <3>6. Total(R) \in Nat /\ y.delta \in Nat /\ z.delta \in Nat
      BY <1>1, <1>2, <2>2, <3>1, <3>2
    <3>7. Total(U) = Total(T) + z.delta
      <4> HIDE DEF R, U
      <4> QED BY <3>4, <3>5, <3>6
    <3> QED BY <2>2, <3>7 DEF Adds
  <2> QED BY <2>5, <2>6
<1>4. S \notin Bad
  BY <1>3
<1> QED BY <1>4

(* Records without a delta do not change a total. *)
LEMMA TotalZeros ==
  ASSUME NEW S, IsFiniteSet(S), \A r \in S : r.delta \in Nat,
         NEW Z, IsFiniteSet(Z), \A r \in Z : r.delta = 0
  PROVE  Total(S \cup Z) = Total(S)
<1> DEFINE Bad == {T \in SUBSET Z : Total(S \cup T) # Total(S)}
<1>1. ASSUME Bad # {} PROVE FALSE
  <2>1. PICK T \in Bad : \A r \in T : T \ {r} \notin Bad
    <3>1. Bad \subseteq SUBSET Z
      OBVIOUS
    <3> HIDE DEF Bad
    <3> QED BY <1>1, <3>1, LeastSubset
  <2>2. T # {} /\ T \in SUBSET Z
    <3>1. S \cup {} = S
      OBVIOUS
    <3> QED BY <2>1, <3>1
  <2>3. PICK r \in T : TRUE
    BY <2>2
  <2> DEFINE R == S \cup (T \ {r})
  <2>4. Total(R) = Total(S)
    BY <2>1, <2>2
  <2>5. IsFiniteSet(R) /\ (\A q \in R : q.delta \in Nat) /\ r.delta = 0
    <3>1. IsFiniteSet(T \ {r})
      BY <2>2, FS_Subset
    <3>2. IsFiniteSet(R)
      BY <3>1, FS_Union
    <3> QED BY <2>2, <2>3, <3>2
  <2>6. CASE r \in S
    <3>1. S \cup T = R
      BY <2>6
    <3> QED BY <2>1, <2>4, <3>1
  <2>7. CASE r \notin S
    <3>1. S \cup T = R \cup {r} /\ r \notin R
      BY <2>7
    <3> HIDE DEF R
    <3>2. Total(R) \in Nat
      BY <2>5, TotalStep
    <3>3. r.delta \in Nat
      BY <2>5
    <3>4. Total(R \cup {r}) = Total(R) + r.delta
      BY <2>5, <3>1, <3>3, TotalAdd
    <3>5. Total(R \cup {r}) = Total(R)
      BY <2>5, <3>2, <3>4
    <3> QED BY <2>1, <2>4, <3>1, <3>5
  <2> QED BY <2>6, <2>7
<1>2. Z \notin Bad
  BY <1>1
<1> QED BY <1>2

-----------------------------------------------------------------------------
(* The inductive invariant. *)

Mine(c, records) == {r \in records : r.client = c}

(* The records of a client, wherever they are. *)
Made(c) == Mine(c, accepted \cup lost \cup Range(pending[c]))

(* What the next reading of the client will be taken to have gained. *)
Gain(c) == IF last[c] = {} THEN 0 ELSE Delta(CHOOSE v \in last[c] : TRUE, counter[c])

(* A handler that is not sending has nothing to send, and a record comes   *)
(* from a request that its client has made and that was decoded.           *)
FromRequests ==
  \A c \in Clients :
    /\ rpc[c] # "sending" => pending[c] = << >>
    /\ rpc[c] = "posted" => exports[c] > 0
    /\ \A r \in Range(pending[c]) : r.client = c /\ r.n <= exports[c]
    /\ \A r \in accepted \cup lost : r.client = c =>
         r.n <= exports[c] /\ (rpc[c] = "posted" => r.n < exports[c])
    /\ IsFiniteSet(Made(c))

(* How the baseline of a client stands to what it has counted: a restart   *)
(* since then hides the rest, and never makes up for more.                 *)
Baseline ==
  \A c \in Clients :
    /\ seen[c] <= total[c] /\ total[c] <= exports[c]
    /\ origin[c] <= seen[c]
    /\ last[c] = {} \/ \E v \in Nat : last[c] = {v}
    /\ last[c] = {} => origin[c] = seen[c]
    /\ last[c] # {} => \E i \in DOMAIN Shape[c] : Shape[c][i] = "sum"
    /\ \A v \in last[c] :
         \/ counter[c] - v = total[c] - seen[c]
         \/ resets > 0 /\ counter[c] <= total[c] - seen[c]

(* Up to an abort the relay holds what it accepted and has not delivered. *)
Held == Range(chan) \cup Range(buf) \cup Range(batch)

Kept == pc # "aborted" => accepted \subseteq Held \cup delivered

(* The last export begins once there is nobody left to send. *)
LastExport ==
  /\ ending => /\ stopping /\ \A c \in Clients : rpc[c] = "idle"
               /\ chan = << >> /\ buf = << >>
  /\ pc = "done" => ending

IInv == TypeOK /\ FromRequests /\ Baseline /\ DeltasConserved /\ Kept /\ LastExport

-----------------------------------------------------------------------------
(* What a request decodes to. *)

Point(c, i) == [client |-> c, n |-> exports[c], point |-> i, delta |-> 0]

Start(c) == [last |-> last[c], out |-> << >>]

Places(c) == [i \in DOMAIN Shape[c] |-> i]

(* The equation of the fold over the points of a request. *)
Decodes(g, c) ==
  g = [s \in SUBSET DOMAIN Places(c) |->
        IF s = {} THEN Start(c)
        ELSE DecodePoint(g[s \ {Max(s)}], Shape[c][Places(c)[Max(s)]],
                         Point(c, Places(c)[Max(s)]), counter[c])]

(* What a request decodes to is what the fold answers on all its places. *)
LEMMA DecodedDef ==
  ASSUME NEW c
  PROVE  Decoded(c) = (CHOOSE g : Decodes(g, c))[DOMAIN Places(c)]
BY DEF Decoded, FoldLeftDomain, FoldLeft, MapThenFoldSet, Decodes, Places, Start, Point

(* What a fold over the points of a request has at any time: records of the *)
(* request, of which one has what the reading gained, and none until a sum  *)
(* was met or when that was the first reading.                             *)
Yields(c, baseline, records) ==
  /\ \A r \in records : r.client = c /\ r.n = exports[c]
  /\ baseline # last[c] => \E i \in DOMAIN Shape[c] : Shape[c][i] = "sum"
  /\ \/ /\ IF last[c] = {} THEN baseline \in {{}, {counter[c]}} ELSE baseline = last[c]
        /\ \A r \in records : r.delta = 0
     \/ /\ last[c] # {} /\ baseline = {counter[c]}
        /\ \E gained \in records :
             /\ gained.delta = Gain(c)
             /\ \A r \in records : r = gained \/ r.delta = 0

Good(c) ==
  {acc \in [last : SUBSET Nat, out : Seq(Records)] : Yields(c, acc.last, Range(acc.out))}

(* The state a request is decoded in. *)
Posted(c) ==
  /\ exports[c] \in 1 .. MaxExports[c]
  /\ counter[c] \in Nat
  /\ last[c] = {} \/ \E v \in Nat : last[c] = {v}
  /\ Gain(c) \in 0 .. MaxExports[c]

(* Appending an element adds it to the range. *)
LEMMA RangeAppend ==
  ASSUME NEW S, NEW s \in Seq(S), NEW x
  PROVE  Range(Append(s, x)) = Range(s) \cup {x}
<1>1. /\ DOMAIN s = 1 .. Len(s) /\ Len(s) \in Nat
      /\ DOMAIN Append(s, x) = 1 .. Len(s) + 1
      /\ Append(s, x)[Len(s) + 1] = x
      /\ \A i \in 1 .. Len(s) : Append(s, x)[i] = s[i]
  OBVIOUS
<1>2. Len(s) + 1 \in DOMAIN Append(s, x) /\ DOMAIN s \subseteq DOMAIN Append(s, x)
  BY <1>1
<1>3. \A i \in DOMAIN Append(s, x) : i \in DOMAIN s \/ i = Len(s) + 1
  BY <1>1
<1> QED BY <1>1, <1>2, <1>3 DEF Range

(* A choice among one is that one. *)
LEMMA ChooseOne ==
  ASSUME NEW v
  PROVE  (CHOOSE x \in {v} : TRUE) = v
OBVIOUS

(* A set of positions of a sequence has a greatest. *)
LEMMA MaxIsOne ==
  ASSUME NEW n \in Nat, NEW s \in SUBSET (1 .. n), s # {}
  PROVE  Max(s) \in s
<1> DEFINE T == {n - x : x \in s}
<1>1. T \in SUBSET Nat /\ T # {}
  <2>1. \A x \in s : n - x \in Nat
    OBVIOUS
  <2> QED BY <2>1
<1>2. PICK m \in T : \A y \in T : m <= y
  BY <1>1, LeastNat
<1>3. PICK x \in s : m = n - x
  BY <1>2
<1>4. \A y \in s : n - x <= n - y
  BY <1>2, <1>3
<1>5. \A y \in s : x >= y
  BY <1>4
<1> QED BY <1>5 DEF Max

(* A record made for a place of a posted request is a record of it. *)
LEMMA NewRecord ==
  ASSUME NEW c \in Clients, Posted(c), NEW i \in DOMAIN Shape[c], NEW d \in 0 .. MaxExports[c]
  PROVE  /\ [Point(c, i) EXCEPT !.delta = d] \in Records
         /\ [Point(c, i) EXCEPT !.delta = d].client = c
         /\ [Point(c, i) EXCEPT !.delta = d].n = exports[c]
         /\ [Point(c, i) EXCEPT !.delta = d].delta = d
<1> DEFINE r == [Point(c, i) EXCEPT !.delta = d]
<1>1. r = [client |-> c, n |-> exports[c], point |-> i, delta |-> d]
  BY DEF Point
<1>2. r \in [client : {c}, n : 1 .. MaxExports[c], point : DOMAIN Shape[c], delta : 0 .. MaxExports[c]]
  BY <1>1 DEF Posted
<1> QED BY <1>1, <1>2 DEF Records

(* What a decode that yields its places is, written out. *)
LEMMA IsGood ==
  ASSUME NEW c, NEW l \in SUBSET Nat, NEW o \in Seq(Records), Yields(c, l, Range(o))
  PROVE  [last |-> l, out |-> o] \in Good(c)
BY DEF Good

(* A point more keeps it, and once a sum was met the baseline is its reading. *)
LEMMA PointKeeps ==
  ASSUME NEW c \in Clients, Posted(c), NEW i \in DOMAIN Shape[c], NEW acc \in Good(c)
  PROVE  LET next == DecodePoint(acc, Shape[c][i], Point(c, i), counter[c])
         IN  /\ next \in Good(c)
             /\ Shape[c][i] = "sum" \/ acc.last = {counter[c]} => next.last = {counter[c]}
<1> DEFINE value == counter[c]
           kind == Shape[c][i]
           rec(d) == [Point(c, i) EXCEPT !.delta = d]
           next == DecodePoint(acc, kind, Point(c, i), value)
<1>1. kind \in Kinds
  BY RelayAssumption
<1>2. acc.last \in SUBSET Nat /\ acc.out \in Seq(Records) /\ acc = [last |-> acc.last, out |-> acc.out]
  BY DEF Good
<1>3. ASSUME NEW d \in 0 .. MaxExports[c]
      PROVE  /\ rec(d) \in Records /\ rec(d).client = c /\ rec(d).n = exports[c] /\ rec(d).delta = d
             /\ Append(acc.out, rec(d)) \in Seq(Records)
             /\ Range(Append(acc.out, rec(d))) = Range(acc.out) \cup {rec(d)}
  <2>1. rec(d) \in Records /\ rec(d).client = c /\ rec(d).n = exports[c] /\ rec(d).delta = d
    BY NewRecord
  <2> HIDE DEF rec
  <2>2. Append(acc.out, rec(d)) \in Seq(Records)
    BY <1>2, <2>1
  <2>3. Range(Append(acc.out, rec(d))) = Range(acc.out) \cup {rec(d)}
    BY <1>2, RangeAppend
  <2> QED BY <2>1, <2>2, <2>3
<1>4. 0 \in 0 .. MaxExports[c] /\ Gain(c) \in 0 .. MaxExports[c] /\ value \in Nat
  BY RelayAssumption DEF Posted
<1> HIDE DEF rec
<1> DEFINE R == Range(acc.out)
<1>a. Yields(c, acc.last, R)
  BY DEF Good
<1>b. ASSUME kind = "sum" PROVE \E j \in DOMAIN Shape[c] : Shape[c][j] = "sum"
  BY <1>b
<1> HIDE DEF kind, value, R
<1>5. CASE kind = "ignored"
  <2>1. next = acc
    BY <1>5 DEF DecodePoint
  <2> QED BY <1>5, <2>1 DEF value, kind
<1>6. CASE kind = "plain"
  <2>1. next = [last |-> acc.last, out |-> Append(acc.out, rec(0))]
    BY <1>2, <1>6 DEF DecodePoint, rec
  <2>2. Yields(c, acc.last, R \cup {rec(0)})
    BY <1>3, <1>4, <1>a DEF Yields
  <2>3. next \in Good(c)
    <3>1. Append(acc.out, rec(0)) \in Seq(Records)
      BY <1>3, <1>4
    <3>2. Yields(c, acc.last, Range(Append(acc.out, rec(0))))
      BY <1>3, <1>4, <2>2 DEF R
    <3> QED BY <1>2, <2>1, <3>1, <3>2, IsGood
  <2> QED BY <1>6, <2>1, <2>3 DEF value, kind
<1>7. CASE kind = "sum" /\ acc.last = {}
  <2>1. next = [last |-> {value}, out |-> acc.out]
    BY <1>2, <1>7 DEF DecodePoint
  <2>2. Yields(c, {value}, R)
    BY <1>7, <1>a, <1>b DEF Yields, value
  <2>3. next \in Good(c)
    BY <1>2, <1>4, <2>1, <2>2, IsGood DEF R
  <2> QED BY <2>1, <2>3 DEF value, kind
<1>8. CASE kind = "sum" /\ acc.last # {}
  <2> DEFINE d == Delta(CHOOSE v \in acc.last : TRUE, value)
  <2>1. next = [last |-> {value}, out |-> Append(acc.out, rec(d))]
    BY <1>8 DEF DecodePoint, rec
  <2>2. Delta(CHOOSE v \in {value} : TRUE, value) = 0
    <3>1. Delta(value, value) = 0
      BY <1>4 DEF Delta
    <3> QED BY <3>1, ChooseOne
  <2>3. acc.last = last[c] /\ last[c] # {} => d = Gain(c)
    BY DEF Gain, value
  <2>4. acc.last = {value} => d = 0
    BY <2>2
  <2> HIDE DEF d
  <2>5. d \in 0 .. MaxExports[c]
    BY <1>4, <1>8, <1>a, <2>3, <2>4 DEF Yields, value
  <2>6. rec(d).client = c /\ rec(d).n = exports[c] /\ rec(d).delta = d
    BY <1>3, <2>5
  <2> DEFINE Goal == Yields(c, {value}, R \cup {rec(d)})
  <2>7. ASSUME last[c] # {} /\ acc.last = last[c] /\ \A r \in R : r.delta = 0 PROVE Goal
    <3>1. rec(d).delta = Gain(c)
      BY <2>3, <2>6, <2>7
    <3> QED BY <1>8, <1>a, <1>b, <2>6, <2>7, <3>1 DEF Yields, value
  <2>8. ASSUME ~(last[c] # {} /\ acc.last = last[c] /\ \A r \in R : r.delta = 0) PROVE Goal
    <3>1. acc.last = {value}
      BY <1>8, <1>a, <2>8 DEF Yields, value
    <3>2. rec(d).delta = 0
      BY <2>4, <2>6, <3>1
    <3> QED BY <1>8, <1>a, <1>b, <2>6, <2>8, <3>1, <3>2 DEF Yields, value
  <2>9. Yields(c, {value}, R \cup {rec(d)})
    BY <2>7, <2>8
  <2>10. next \in Good(c)
    <3>1. Append(acc.out, rec(d)) \in Seq(Records) /\ {value} \in SUBSET Nat
      BY <1>3, <1>4, <2>5
    <3>2. Yields(c, {value}, Range(Append(acc.out, rec(d))))
      BY <1>3, <2>5, <2>9 DEF R
    <3> QED BY <2>1, <3>1, <3>2, IsGood
  <2> QED BY <2>1, <2>10 DEF value, kind
<1> QED BY <1>1, <1>5, <1>6, <1>7, <1>8 DEF Kinds, value, kind

(* The fold over the points of a request: it exists, and what it computes. *)
LEMMA DecodedIs ==
  ASSUME NEW c \in Clients, Posted(c)
  PROVE  /\ Decoded(c) \in Good(c)
         /\ (\E i \in DOMAIN Shape[c] : Shape[c][i] = "sum") => Decoded(c).last = {counter[c]}
<1> DEFINE S == DOMAIN Shape[c]
           Next1(acc, i) == DecodePoint(acc, Shape[c][i], Point(c, i), counter[c])
           g == CHOOSE f : Decodes(f, c)
<1>1. \E n \in Nat : S = 1 .. n
  BY RelayAssumption
<1>2. IsFiniteSet(S)
  BY <1>1, FS_Interval
<1>3. \A s \in SUBSET S : s # {} => Max(s) \in s
  BY <1>1, MaxIsOne
<1>4. Start(c) \in Good(c)
  <2>1. << >> \in Seq(Records) /\ Range(<< >>) = {}
    BY DEF Range
  <2>2. last[c] \in SUBSET Nat /\ Yields(c, last[c], {})
    BY DEF Posted, Yields
  <2> QED BY <2>1, <2>2, IsGood DEF Start
<1>5. \A acc \in Good(c), i \in S :
        /\ Next1(acc, i) \in Good(c)
        /\ Shape[c][i] = "sum" \/ acc.last = {counter[c]} => Next1(acc, i).last = {counter[c]}
  BY PointKeeps
<1>6. DOMAIN Places(c) = S /\ \A i \in S : Places(c)[i] = i
  BY DEF Places
<1> HIDE DEF Next1, S
<1>7. \E f : Decodes(f, c)
  <2> DEFINE pick == [s \in SUBSET S |-> Max(s)]
             F == [p \in S \X Good(c) |-> Next1(p[2], p[1])]
  <2>1. \A i \in S, acc \in Good(c) : F[<<i, acc>>] = Next1(acc, i)
    OBVIOUS
  <2>2. FoldArgs(S, Good(c), Start(c), pick, F)
    BY <1>2, <1>3, <1>4, <1>5 DEF FoldArgs
  <2>3. \A s \in SUBSET S : pick[s] = Max(s)
    OBVIOUS
  <2> HIDE DEF pick, F
  <2>4. PICK f : Folds(f, S, Good(c), Start(c), pick, F)
    BY <2>2, FoldExists
  <2>5. ASSUME NEW s \in SUBSET S, s # {}
        PROVE  f[s] = Next1(f[s \ {Max(s)}], Places(c)[Max(s)])
    <3>1. Max(s) \in S /\ s \ {Max(s)} \in SUBSET S
      BY <1>3, <2>5
    <3>2. f[s \ {Max(s)}] \in Good(c)
      BY <2>4, <3>1 DEF Folds
    <3>3. f[s] = F[<<Max(s), f[s \ {Max(s)}]>>]
      BY <2>3, <2>4, <2>5 DEF Folds
    <3> QED BY <1>6, <2>1, <3>1, <3>2, <3>3
  <2>6. /\ f = [s \in SUBSET S |-> f[s]]
        /\ S \in SUBSET S
        /\ {} \in SUBSET S /\ f[{}] = Start(c)
    BY <2>4 DEF Folds
  <2>7. f = [s \in SUBSET S |-> IF s = {} THEN Start(c)
                                ELSE Next1(f[s \ {Max(s)}], Places(c)[Max(s)])]
    BY <2>5, <2>6
  <2> QED BY <1>6, <2>7 DEF Decodes, Next1
<1>8. Decodes(g, c)
  BY <1>7
<1> HIDE DEF g
<1>9. \A s \in SUBSET S :
        g[s] = IF s = {} THEN Start(c) ELSE Next1(g[s \ {Max(s)}], Max(s))
  <2>1. \A s \in SUBSET S :
          g[s] = IF s = {} THEN Start(c) ELSE Next1(g[s \ {Max(s)}], Places(c)[Max(s)])
    BY <1>6, <1>8 DEF Decodes, Next1
  <2> SUFFICES ASSUME NEW s \in SUBSET S
               PROVE  g[s] = IF s = {} THEN Start(c) ELSE Next1(g[s \ {Max(s)}], Max(s))
    OBVIOUS
  <2>2. CASE s = {}
    BY <2>1, <2>2
  <2>3. CASE s # {}
    <3>1. Places(c)[Max(s)] = Max(s)
      BY <1>3, <1>6, <2>3
    <3> QED BY <2>1, <2>3, <3>1
  <2> QED BY <2>2, <2>3
<1> DEFINE P(s) == /\ g[s] \in Good(c)
                   /\ (\E i \in s : Shape[c][i] = "sum") => g[s].last = {counter[c]}
           Bad == {s \in SUBSET S : ~ P(s)}
<1>10. ASSUME Bad # {} PROVE FALSE
  <2>1. PICK s \in Bad : \A x \in s : s \ {x} \notin Bad
    <3>1. Bad \subseteq SUBSET S
      OBVIOUS
    <3> HIDE DEF Bad
    <3> QED BY <1>2, <1>10, <3>1, LeastSubset
  <2>2. P({})
    BY <1>4, <1>9
  <2>3. s # {} /\ s \in SUBSET S
    BY <2>1, <2>2
  <2> DEFINE m == Max(s)
             r == s \ {m}
  <2>4. m \in s /\ r \in SUBSET S
    BY <1>3, <2>3
  <2>5. P(r)
    BY <2>1, <2>4
  <2>6. g[s] = Next1(g[r], m)
    BY <1>9, <2>3
  <2>7. /\ Next1(g[r], m) \in Good(c)
        /\ Shape[c][m] = "sum" \/ g[r].last = {counter[c]} => Next1(g[r], m).last = {counter[c]}
    BY <1>5, <2>3, <2>4, <2>5
  <2>8. (\E i \in s : Shape[c][i] = "sum") => Shape[c][m] = "sum" \/ \E i \in r : Shape[c][i] = "sum"
    OBVIOUS
  <2>9. P(s)
    BY <2>5, <2>6, <2>7, <2>8
  <2> QED BY <2>1, <2>9
<1>11. P(S)
  BY <1>10
<1>12. Decoded(c) = g[S]
  BY <1>6, DecodedDef DEF g
<1> QED BY <1>11, <1>12 DEF S

-----------------------------------------------------------------------------
(* Sequences. *)

(* What a sequence holds, and what taking its head leaves. *)
LEMMA SeqFacts ==
  ASSUME NEW S, NEW s \in Seq(S)
  PROVE  /\ Range(s) \subseteq S
         /\ IsFiniteSet(Range(s))
         /\ s # << >> => /\ Head(s) \in S /\ Tail(s) \in Seq(S) /\ Len(Tail(s)) = Len(s) - 1
                         /\ Range(s) = {Head(s)} \cup Range(Tail(s))
<1>1. DOMAIN s = 1 .. Len(s) /\ Len(s) \in Nat /\ \A i \in 1 .. Len(s) : s[i] \in S
  OBVIOUS
<1>2. Range(s) \subseteq S
  BY <1>1 DEF Range
<1>3. IsFiniteSet(Range(s))
  <2>1. IsFiniteSet(1 .. Len(s))
    BY <1>1, FS_Interval
  <2>2. s \in [1 .. Len(s) -> Range(s)]
    BY <1>1 DEF Range
  <2>3. s \in Surjection(1 .. Len(s), Range(s))
    BY <1>1, <2>2 DEF Surjection, Range
  <2> QED BY <2>1, <2>3, FS_Surjection
<1>4. ASSUME s # << >>
      PROVE  /\ Head(s) \in S /\ Tail(s) \in Seq(S) /\ Len(Tail(s)) = Len(s) - 1
             /\ Range(s) = {Head(s)} \cup Range(Tail(s))
  <2>1. Head(s) = s[1] /\ Head(s) \in S /\ Tail(s) \in Seq(S) /\ Len(Tail(s)) = Len(s) - 1 /\ Len(s) > 0
    BY <1>4
  <2>2. DOMAIN Tail(s) = 1 .. Len(s) - 1 /\ \A i \in 1 .. Len(s) - 1 : Tail(s)[i] = s[i + 1]
    BY <1>4
  <2>3. \A i \in 1 .. Len(s) : i = 1 \/ (i - 1 \in 1 .. Len(s) - 1 /\ (i - 1) + 1 = i)
    BY <1>1
  <2>4. \A i \in 1 .. Len(s) - 1 : i + 1 \in 1 .. Len(s)
    BY <1>1
  <2>5. 1 \in 1 .. Len(s)
    BY <2>1, <1>1
  <2>6. ASSUME NEW i \in 1 .. Len(s) PROVE s[i] \in {Head(s)} \cup Range(Tail(s))
    <3>1. CASE i = 1
      BY <2>1, <3>1
    <3>2. CASE i # 1
      <4>1. i - 1 \in DOMAIN Tail(s) /\ Tail(s)[i - 1] = s[i]
        BY <2>2, <2>3, <3>2
      <4> QED BY <4>1 DEF Range
    <3> QED BY <3>1, <3>2
  <2>7. ASSUME NEW i \in 1 .. Len(s) - 1 PROVE Tail(s)[i] \in Range(s)
    BY <1>1, <2>2, <2>4 DEF Range
  <2>8. Head(s) \in Range(s)
    BY <1>1, <2>1, <2>5 DEF Range
  <2>9. Range(s) \subseteq {Head(s)} \cup Range(Tail(s))
    BY <1>1, <2>6 DEF Range
  <2>10. Range(Tail(s)) \subseteq Range(s)
    BY <2>2, <2>7 DEF Range
  <2> QED BY <2>1, <2>8, <2>9, <2>10
<1> QED BY <1>2, <1>3, <1>4

(* The empty sequence has no elements. *)
LEMMA RangeEmpty == Range(<< >>) = {}
BY DEF Range

-----------------------------------------------------------------------------
(* The parts of the invariant. *)

(* The gain of a reading is what its client counted since the last one, or *)
(* less when it restarted in between.                                      *)
LEMMA GainIs ==
  ASSUME IInv, NEW c \in Clients
  PROVE  /\ Gain(c) \in 0 .. total[c] - seen[c]
         /\ last[c] # {} /\ resets = 0 => Gain(c) = total[c] - seen[c]
         /\ total[c] - seen[c] \in 0 .. MaxExports[c]
<1>1. /\ counter[c] \in Nat /\ total[c] \in Nat /\ seen[c] \in Nat /\ exports[c] \in Nat
      /\ exports[c] <= MaxExports[c] /\ MaxExports[c] \in Nat /\ resets \in Nat
      /\ seen[c] <= total[c] /\ total[c] <= exports[c]
  BY RelayAssumption DEF IInv, TypeOK, Baseline
<1>2. total[c] - seen[c] \in 0 .. MaxExports[c]
  BY <1>1
<1>3. CASE last[c] = {}
  BY <1>1, <1>2, <1>3 DEF Gain
<1>4. CASE last[c] # {}
  <2>1. PICK v \in Nat : last[c] = {v}
    BY <1>4 DEF IInv, Baseline
  <2>2. Gain(c) = IF counter[c] < v THEN counter[c] ELSE counter[c] - v
    BY <1>4, <2>1, ChooseOne DEF Gain, Delta
  <2>3. \/ counter[c] - v = total[c] - seen[c]
        \/ resets > 0 /\ counter[c] <= total[c] - seen[c]
    BY <2>1 DEF IInv, Baseline
  <2> QED BY <1>1, <1>2, <1>4, <2>2, <2>3
<1> QED BY <1>3, <1>4

(* A client waiting for its answer has posted a request. *)
LEMMA PostedIs ==
  ASSUME IInv, NEW c \in Clients, rpc[c] = "posted"
  PROVE  Posted(c)
<1>1. exports[c] \in Nat /\ exports[c] <= MaxExports[c] /\ counter[c] \in Nat /\ MaxExports[c] \in Nat
  BY RelayAssumption DEF IInv, TypeOK
<1>2. exports[c] > 0 /\ (last[c] = {} \/ \E v \in Nat : last[c] = {v})
  BY DEF IInv, FromRequests, Baseline
<1>3. Gain(c) \in 0 .. total[c] - seen[c] /\ total[c] - seen[c] \in 0 .. MaxExports[c]
  BY GainIs
<1>4. Gain(c) \in 0 .. MaxExports[c]
  BY <1>1, <1>3
<1> QED BY <1>1, <1>2, <1>4 DEF Posted

(* What decoding a request does to the state of its client. *)
LEMMA DecodeIs ==
  ASSUME IInv, NEW c \in Clients, Decode(c)
  PROVE  /\ Decoded(c).last \in SUBSET Nat /\ Decoded(c).out \in Seq(Records)
         /\ Yields(c, Decoded(c).last, Range(Decoded(c).out))
         /\ (\E i \in DOMAIN Shape[c] : Shape[c][i] = "sum") => Decoded(c).last = {counter[c]}
BY PostedIs, DecodedIs DEF Decode, Good

(* The initial state is well typed. *)
LEMMA TypeInit == Init => TypeOK
<1> SUFFICES ASSUME Init PROVE TypeOK
  OBVIOUS
<1>1. Cardinality({}) = 0
  BY FS_EmptySet
<1>2. \A S : << >> \in Seq(S)
  OBVIOUS
<1>3. << >> \in Seq(Records) /\ Len(<< >>) = 0
  BY <1>2
<1>4. Before \in Nat /\ MaxResets \in Nat /\ Cap \in Nat /\ MaxBatch \in Nat /\ MaxBatch > 0
      /\ MaxExports \in [Clients -> Nat]
  BY RelayAssumption
<1>5. /\ rpc \in [Clients -> {"idle", "posted", "sending"}]
      /\ counter \in [Clients -> Nat] /\ total \in [Clients -> Nat]
      /\ answered \in [Clients -> BOOLEAN]
      /\ exports \in [Clients -> Nat] /\ \A c \in Clients : exports[c] <= MaxExports[c]
      /\ resets \in 0 .. MaxResets
      /\ origin \in [Clients -> Nat] /\ seen \in [Clients -> Nat]
  BY <1>4 DEF Init
<1>6. /\ last \in [Clients -> SUBSET Nat] /\ \A c \in Clients : Cardinality(last[c]) <= 1
      /\ pending \in [Clients -> Seq(Records)]
  BY <1>1, <1>3 DEF Init
<1>7. /\ chan \in Seq(Records) /\ Len(chan) <= Cap
      /\ buf \in Seq(Records) /\ Len(buf) < MaxBatch
      /\ batch \in Seq(Records) /\ Len(batch) <= MaxBatch
  BY <1>3, <1>4 DEF Init
<1>8. /\ (pc = "exporting") = (batch # << >>)
      /\ pc \in {"connecting", "collecting", "exporting", "done", "aborted"}
      /\ stopping \in BOOLEAN /\ ending \in BOOLEAN /\ up \in BOOLEAN
      /\ lost \subseteq Records /\ accepted \subseteq Records /\ delivered \subseteq Records
  BY DEF Init
<1> QED BY <1>5, <1>6, <1>7, <1>8 DEF TypeOK

(* Every step keeps the types. *)
LEMMA TypeKept ==
  ASSUME IInv, [Next]_vars
  PROVE  TypeOK'
<1>1. TypeOK
  BY DEF IInv
<1>2. /\ MaxExports \in [Clients -> Nat] /\ MaxResets \in Nat
      /\ Cap \in Nat /\ Cap > 0 /\ MaxBatch \in Nat /\ MaxBatch > 0
  BY RelayAssumption
<1>3. ASSUME NEW c \in Clients, Post(c)
      PROVE  /\ rpc' \in [Clients -> {"idle", "posted", "sending"}]
             /\ exports' \in [Clients -> Nat] /\ \A d \in Clients : exports'[d] <= MaxExports[d]
             /\ UNCHANGED <<last, origin, seen, pending, lost, chan, accepted, stopping, pc, buf,
                            batch, ending, up, delivered>>
  <2>1. rpc' \in [Clients -> {"idle", "posted", "sending"}]
    BY <1>1, <1>3 DEF TypeOK, Post
  <2>2. exports' = [exports EXCEPT ![c] = exports[c] + 1] /\ exports[c] < MaxExports[c]
    BY <1>3 DEF Post
  <2>3. exports \in [Clients -> Nat] /\ \A d \in Clients : exports[d] <= MaxExports[d]
    BY <1>1 DEF TypeOK
  <2>4. exports' \in [Clients -> Nat] /\ \A d \in Clients : exports'[d] <= MaxExports[d]
    BY <1>2, <2>2, <2>3
  <2>5. UNCHANGED <<last, origin, seen, pending, lost, chan, accepted, stopping, pc, buf,
                    batch, ending, up, delivered>>
    BY <1>3 DEF Post, normVars, exporterVars
  <2> QED BY <2>1, <2>4, <2>5
<1>4. ASSUME NEW c \in Clients, ExportReading(c) PROVE TypeOK'
  <2>1. /\ total' \in [Clients -> Nat] /\ answered' \in [Clients -> BOOLEAN]
        /\ counter' \in [Clients -> Nat] /\ resets' \in 0 .. MaxResets
    <3>1. total' \in [Clients -> Nat] /\ answered' \in [Clients -> BOOLEAN]
      BY <1>1, <1>4 DEF TypeOK, ExportReading
    <3>2. resets' \in 0 .. MaxResets
      <4>1. resets \in 0 .. MaxResets
        BY <1>1 DEF TypeOK
      <4>2. resets' = resets \/ (resets < MaxResets /\ resets' = resets + 1)
        BY <1>4, Zenon DEF ExportReading
      <4> QED BY <1>2, <4>1, <4>2
    <3>3. counter' \in [Clients -> Nat]
      <4>1. counter \in [Clients -> Nat]
        BY <1>1 DEF TypeOK
      <4>2. counter' = [counter EXCEPT ![c] = @ + 1] \/ counter' = [counter EXCEPT ![c] = 1]
        BY <1>4 DEF ExportReading
      <4> QED BY <4>1, <4>2
    <3> QED BY <3>1, <3>2, <3>3
  <2> QED BY <1>1, <1>3, <1>4, <2>1 DEF TypeOK, ExportReading
<1>5. ASSUME NEW c \in Clients, ExportAgain(c) PROVE TypeOK'
  BY <1>1, <1>3, <1>5 DEF TypeOK, ExportAgain
<1>6. ASSUME NEW c \in Clients, Unanswered(c) PROVE TypeOK'
  <2>1. Range(pending[c]) \subseteq Records
    BY <1>1, SeqFacts DEF TypeOK
  <2>2. /\ rpc' \in [Clients -> {"idle", "posted", "sending"}]
        /\ pending' \in [Clients -> Seq(Records)] /\ lost' \subseteq Records
    BY <1>1, <1>6, <2>1 DEF TypeOK, Unanswered
  <2> QED BY <1>1, <1>6, <2>2 DEF TypeOK, Unanswered, clientVars, normVars, exporterVars
<1>7. ASSUME NEW c \in Clients, Decode(c) PROVE TypeOK'
  <2>1. /\ Decoded(c).last \in SUBSET Nat /\ Decoded(c).out \in Seq(Records)
        /\ Yields(c, Decoded(c).last, Range(Decoded(c).out))
    BY <1>7, DecodeIs
  <2>2. last[c] = {} \/ \E v \in Nat : last[c] = {v}
    BY DEF IInv, Baseline
  <2>3. Decoded(c).last = {} \/ \E v : Decoded(c).last = {v}
    BY <2>1, <2>2 DEF Yields
  <2>4. Cardinality(Decoded(c).last) <= 1
    <3>1. Cardinality({}) = 0 /\ \A v : Cardinality({v}) = 1
      BY FS_EmptySet, FS_Singleton
    <3>2. CASE Decoded(c).last = {}
      BY <3>1, <3>2
    <3>3. ASSUME NEW v, Decoded(c).last = {v} PROVE Cardinality(Decoded(c).last) <= 1
      <4>1. Cardinality({v}) = 1
        BY <3>1, Zenon
      <4>2. Cardinality(Decoded(c).last) = 1
        BY <3>3, <4>1
      <4> QED BY <4>2
    <3> QED BY <2>3, <3>2, <3>3
  <2> DEFINE l == Decoded(c).last
             o == Decoded(c).out
  <2>5. last' = [last EXCEPT ![c] = l] /\ pending' = [pending EXCEPT ![c] = o]
    BY <1>7 DEF Decode
  <2>6. l \in SUBSET Nat /\ o \in Seq(Records) /\ Cardinality(l) <= 1
    BY <2>1, <2>4
  <2> HIDE DEF l, o
  <2>7. /\ last' \in [Clients -> SUBSET Nat] /\ \A d \in Clients : Cardinality(last'[d]) <= 1
        /\ pending' \in [Clients -> Seq(Records)]
    BY <1>1, <2>5, <2>6 DEF TypeOK
  <2>8. /\ rpc' \in [Clients -> {"idle", "posted", "sending"}]
        /\ origin' \in [Clients -> Nat] /\ seen' \in [Clients -> Nat]
    BY <1>1, <1>7 DEF TypeOK, Decode
  <2>9. UNCHANGED <<counter, total, answered, exports, resets, lost, chan, accepted, stopping, pc,
                    buf, batch, ending, up, delivered>>
    BY <1>7 DEF Decode, clientVars, exporterVars
  <2> QED BY <1>1, <2>7, <2>8, <2>9 DEF TypeOK
<1>8. ASSUME NEW c \in Clients, Send(c) PROVE TypeOK'
  <2>1. pending[c] \in Seq(Records) /\ pending[c] # << >>
    BY <1>1, <1>8 DEF TypeOK, Send
  <2>2. Head(pending[c]) \in Records /\ Tail(pending[c]) \in Seq(Records)
    BY <2>1, SeqFacts
  <2>3. pending' \in [Clients -> Seq(Records)]
    BY <1>1, <1>8, <2>2 DEF TypeOK, Send
  <2>4. chan' \in Seq(Records) /\ Len(chan') <= Cap /\ accepted' \subseteq Records
    <3>1. /\ chan \in Seq(Records) /\ Len(chan) \in Nat /\ accepted \subseteq Records
      BY <1>1 DEF TypeOK
    <3>2. /\ Len(chan) < Cap /\ chan' = Append(chan, Head(pending[c]))
          /\ accepted' = accepted \cup {Head(pending[c])}
      BY <1>8 DEF Send
    <3>3. chan' \in Seq(Records) /\ Len(chan') = Len(chan) + 1
      BY <2>2, <3>1, <3>2
    <3> QED BY <1>2, <2>2, <3>1, <3>2, <3>3
  <2> QED BY <1>1, <1>8, <2>3, <2>4 DEF TypeOK, Send, clientVars, normVars, exporterVars
<1>9. ASSUME NEW c \in Clients, AnswerOk(c) PROVE TypeOK'
  BY <1>1, <1>9 DEF TypeOK, AnswerOk, normVars, exporterVars
<1>10. ASSUME Collect PROVE TypeOK'
  <2> DEFINE filled == Append(buf, Head(chan))
  <2>1. /\ chan \in Seq(Records) /\ buf \in Seq(Records) /\ Len(buf) \in Nat /\ Len(buf) < MaxBatch
        /\ Head(chan) \in Records /\ Tail(chan) \in Seq(Records) /\ Len(Tail(chan)) = Len(chan) - 1
        /\ Len(chan) \in Nat /\ Len(chan) <= Cap
    BY <1>1, <1>10, SeqFacts DEF TypeOK, Collect
  <2>2. filled \in Seq(Records) /\ Len(filled) = Len(buf) + 1 /\ filled # << >>
    BY <2>1
  <2>3. chan' \in Seq(Records) /\ Len(chan') <= Cap
    BY <1>2, <1>10, <2>1 DEF Collect
  <2>4. pc = "collecting" /\ batch = << >>
    BY <1>1, <1>10 DEF Collect, TypeOK
  <2> HIDE DEF filled
  <2>5. IF Len(filled) >= MaxBatch THEN Flush(filled) ELSE buf' = filled /\ UNCHANGED <<pc, batch>>
    BY <1>10 DEF Collect, filled
  <2>6. /\ pc' \in {"connecting", "collecting", "exporting", "done", "aborted"}
        /\ buf' \in Seq(Records) /\ Len(buf') < MaxBatch
        /\ batch' \in Seq(Records) /\ Len(batch') <= MaxBatch
        /\ (pc' = "exporting") = (batch' # << >>)
    <3>1. CASE Len(filled) >= MaxBatch
      BY <1>2, <2>1, <2>2, <2>5, <3>1 DEF Flush
    <3>2. CASE ~(Len(filled) >= MaxBatch)
      BY <1>2, <2>1, <2>2, <2>4, <2>5, <3>2
    <3> QED BY <3>1, <3>2
  <2> QED BY <1>1, <1>10, <2>3, <2>6 DEF TypeOK, Collect, clientVars, normVars
<1>11. ASSUME FlushTick \/ InputEnds PROVE TypeOK'
  <2>1. \/ buf # << >> /\ Flush(buf)
        \/ buf = << >> /\ pc' = "done" /\ UNCHANGED <<buf, batch>>
    BY <1>11 DEF FlushTick, InputEnds
  <2>2. /\ pc' \in {"connecting", "collecting", "exporting", "done", "aborted"}
        /\ buf' \in Seq(Records) /\ Len(buf') < MaxBatch
        /\ batch' \in Seq(Records) /\ Len(batch') <= MaxBatch
        /\ (pc' = "exporting") = (batch' # << >>)
    <3>1. /\ buf \in Seq(Records) /\ Len(buf) < MaxBatch /\ Len(buf) \in Nat
          /\ batch \in Seq(Records) /\ Len(batch) <= MaxBatch /\ batch = << >>
      BY <1>1, <1>11 DEF TypeOK, FlushTick, InputEnds
    <3>2. CASE buf # << >> /\ Flush(buf)
      <4>1. << >> \in Seq(Records) /\ Len(<< >>) = 0
        OBVIOUS
      <4> QED BY <1>2, <3>1, <3>2, <4>1 DEF Flush
    <3>3. CASE buf = << >> /\ pc' = "done" /\ UNCHANGED <<buf, batch>>
      BY <3>1, <3>3
    <3> QED BY <2>1, <3>2, <3>3
  <2>3. ending' \in BOOLEAN
    BY <1>1, <1>11 DEF TypeOK, FlushTick, InputEnds
  <2> QED BY <1>1, <1>11, <2>2, <2>3 DEF TypeOK, FlushTick, InputEnds, clientVars, normVars
<1>12. ASSUME ExportOk PROVE TypeOK'
  <2>1. Range(batch) \subseteq Records
    BY <1>1, SeqFacts DEF TypeOK
  <2>2. /\ batch' = << >> /\ batch' \in Seq(Records) /\ Len(batch') = 0
        /\ pc' \in {"done", "collecting"} /\ delivered' \subseteq Records
    BY <1>1, <1>12, <2>1 DEF TypeOK, ExportOk
  <2> QED BY <1>1, <1>2, <1>12, <2>2 DEF TypeOK, ExportOk, clientVars, normVars
<1>13. ASSUME ExportUncertain PROVE TypeOK'
  <2>1. Range(batch) \subseteq Records
    BY <1>1, SeqFacts DEF TypeOK
  <2>2. delivered' \subseteq Records
    BY <1>1, <1>13, <2>1 DEF TypeOK, ExportUncertain
  <2> QED BY <1>1, <1>13, <2>2 DEF TypeOK, ExportUncertain, clientVars, normVars, exporterVars
<1>14. ASSUME Abort PROVE TypeOK'
  <2>1. << >> \in Seq(Records) /\ Len(<< >>) = 0
    OBVIOUS
  <2> QED BY <1>1, <1>2, <1>14, <2>1 DEF TypeOK, Abort, clientVars, normVars
<1>15. ASSUME Connect PROVE TypeOK'
  BY <1>1, <1>15 DEF TypeOK, Connect, clientVars, normVars
<1>16. ASSUME Stop \/ Outage PROVE TypeOK'
  BY <1>1, <1>16 DEF TypeOK, Stop, Outage, clientVars, normVars, exporterVars
<1>17. CASE UNCHANGED vars
  BY <1>1, <1>17 DEF TypeOK, vars, clientVars, normVars, exporterVars
<1> QED BY <1>4, <1>5, <1>6, <1>7, <1>8, <1>9, <1>10, <1>11, <1>12, <1>13, <1>14, <1>15, <1>16, <1>17
        DEF Next, Client, Handler, Exporter, GiveUp, AnswerUnavailable

(* What the clients and the handlers change. *)
clientSide == <<rpc, counter, total, exports, resets, last, origin, seen, pending, lost, accepted>>

(* A step is one of a client and its handler, or of none of them. *)
LEMMA Steps ==
  ASSUME [Next]_vars
  PROVE  \/ UNCHANGED clientSide
         \/ \E c \in Clients : \/ ExportReading(c) \/ ExportAgain(c) \/ Decode(c)
                               \/ Send(c) \/ AnswerOk(c) \/ Unanswered(c)
<1>1. CASE Exporter \/ ExportUncertain \/ Stop \/ Abort \/ Outage
  BY <1>1 DEF Exporter, Connect, Collect, FlushTick, InputEnds, ExportOk, ExportUncertain, Stop,
     Abort, Outage, clientSide, clientVars, normVars
<1>2. CASE UNCHANGED vars
  BY <1>2 DEF vars, clientSide, clientVars, normVars
<1> QED BY <1>1, <1>2 DEF Next, Client, Handler, GiveUp, AnswerUnavailable

(* Records change hands; only decoding makes new ones. *)
LEMMA MadeStays ==
  ASSUME IInv, NEW c \in Clients,
         ExportReading(c) \/ ExportAgain(c) \/ Send(c) \/ AnswerOk(c) \/ Unanswered(c)
  PROVE  /\ \A d \in Clients : Made(d)' = Made(d)
         /\ accepted' \cup lost' \subseteq accepted \cup lost \cup Range(pending[c])
         /\ \A d \in Clients : Range(pending'[d]) \subseteq Range(pending[d])
         /\ \A d \in Clients : d # c => pending'[d] = pending[d]
         /\ UNCHANGED <<last, origin, seen>>
<1>1. pending \in [Clients -> Seq(Records)] /\ \A r \in Range(pending[c]) : r.client = c
  BY DEF IInv, TypeOK, FromRequests
<1>2. ASSUME ExportReading(c) \/ ExportAgain(c) \/ AnswerOk(c)
      PROVE  UNCHANGED <<pending, lost, accepted, last, origin, seen>>
  BY <1>2 DEF ExportReading, ExportAgain, AnswerOk, Post, normVars
<1>3. CASE ExportReading(c) \/ ExportAgain(c) \/ AnswerOk(c)
  BY <1>2, <1>3 DEF Made, Mine
<1>4. CASE Send(c)
  <2> DEFINE h == Head(pending[c])
             t == Tail(pending[c])
  <2>1. pending[c] \in Seq(Records) /\ pending[c] # << >>
    BY <1>1, <1>4 DEF Send
  <2>2. Range(pending[c]) = {h} \cup Range(t)
    BY <2>1, SeqFacts
  <2>3. pending' = [pending EXCEPT ![c] = t] /\ accepted' = accepted \cup {h}
    BY <1>4 DEF Send
  <2>4. UNCHANGED <<lost, last, origin, seen>>
    BY <1>4 DEF Send, normVars
  <2> HIDE DEF h, t
  <2>5. \A d \in Clients : pending'[d] = IF d = c THEN t ELSE pending[d]
    BY <1>1, <2>3
  <2>6. h.client = c
    BY <1>1, <2>2
  <2>7. ASSUME NEW d \in Clients PROVE Made(d)' = Made(d)
    <3>1. CASE d = c
      BY <2>2, <2>3, <2>4, <2>5, <3>1 DEF Made, Mine
    <3>2. CASE d # c
      <4>1. pending'[d] = pending[d]
        BY <2>5, <3>2
      <4> QED BY <2>3, <2>4, <2>6, <3>2, <4>1 DEF Made, Mine
    <3> QED BY <3>1, <3>2
  <2> QED BY <2>2, <2>3, <2>4, <2>5, <2>7
<1>5. CASE Unanswered(c)
  <2>1. lost' = lost \cup Range(pending[c]) /\ pending' = [pending EXCEPT ![c] = << >>]
    BY <1>5 DEF Unanswered
  <2>2. UNCHANGED <<accepted, last, origin, seen>>
    BY <1>5 DEF Unanswered, normVars
  <2>3. \A d \in Clients : pending'[d] = IF d = c THEN << >> ELSE pending[d]
    BY <1>1, <2>1
  <2>4. ASSUME NEW d \in Clients PROVE Made(d)' = Made(d)
    <3>1. CASE d = c
      BY <2>1, <2>2, <2>3, <3>1, RangeEmpty DEF Made, Mine
    <3>2. CASE d # c
      <4>1. pending'[d] = pending[d]
        BY <2>3, <3>2
      <4> QED BY <1>1, <2>1, <2>2, <3>2, <4>1 DEF Made, Mine
    <3> QED BY <3>1, <3>2
  <2> QED BY <2>1, <2>2, <2>3, <2>4, RangeEmpty
<1> QED BY <1>3, <1>4, <1>5

(* What decoding makes. *)
LEMMA DecodeMakes ==
  ASSUME IInv, NEW c \in Clients, Decode(c)
  PROVE  /\ Made(c)' = Made(c) \cup Range(Decoded(c).out)
         /\ \A d \in Clients : d # c => Made(d)' = Made(d)
         /\ \A d \in Clients : pending'[d] = IF d = c THEN Decoded(c).out ELSE pending[d]
         /\ UNCHANGED <<lost, accepted, counter, total, exports, resets>>
         /\ pending[c] = << >>
<1> DEFINE o == Decoded(c).out
<1>1. /\ pending' = [pending EXCEPT ![c] = o]
      /\ UNCHANGED <<lost, accepted, counter, total, exports, resets>>
  BY DEF Decode, clientVars
<1>2. pending[c] = << >>
  BY DEF IInv, FromRequests, Decode
<1>3. \A r \in Range(o) : r.client = c
  BY DecodeIs DEF Yields
<1> HIDE DEF o
<1>4. pending \in [Clients -> Seq(Records)]
  BY DEF IInv, TypeOK
<1>5. \A d \in Clients : pending'[d] = IF d = c THEN o ELSE pending[d]
  BY <1>1, <1>4
<1>6. Made(c)' = Made(c) \cup Range(o)
  BY <1>1, <1>2, <1>3, <1>5, RangeEmpty DEF Made, Mine
<1>7. ASSUME NEW d \in Clients, d # c PROVE Made(d)' = Made(d)
  BY <1>1, <1>5, <1>7 DEF Made, Mine
<1> QED BY <1>1, <1>2, <1>5, <1>6, <1>7 DEF o

(* Every step keeps what relates the records to the requests they are from. *)
LEMMA FromRequestsKept ==
  ASSUME IInv, [Next]_vars
  PROVE  FromRequests'
<1>1. /\ rpc \in [Clients -> {"idle", "posted", "sending"}] /\ exports \in [Clients -> Nat]
      /\ pending \in [Clients -> Seq(Records)] /\ accepted \subseteq Records /\ lost \subseteq Records
  BY DEF IInv, TypeOK
<1>2. \A r \in Records : r.n \in Nat
  <2>1. \A c \in Clients : MaxExports[c] \in Nat
    BY RelayAssumption
  <2> QED BY <2>1 DEF Records
<1>3. FromRequests
  BY DEF IInv
<1>4. CASE UNCHANGED clientSide
  BY <1>3, <1>4 DEF FromRequests, Made, Mine, clientSide
<1>5. ASSUME NEW c \in Clients, ExportReading(c) \/ ExportAgain(c) PROVE FromRequests'
  <2>1. /\ rpc[c] = "idle" /\ rpc' = [rpc EXCEPT ![c] = "posted"]
        /\ exports' = [exports EXCEPT ![c] = @ + 1]
        /\ UNCHANGED <<pending, lost, accepted>>
    BY <1>5 DEF ExportReading, ExportAgain, Post
  <2> SUFFICES ASSUME NEW d \in Clients
               PROVE  /\ rpc'[d] # "sending" => pending[d] = << >>
                      /\ rpc'[d] = "posted" => exports'[d] > 0
                      /\ \A r \in Range(pending[d]) : r.client = d /\ r.n <= exports'[d]
                      /\ \A r \in accepted \cup lost : r.client = d =>
                           r.n <= exports'[d] /\ (rpc'[d] = "posted" => r.n < exports'[d])
                      /\ IsFiniteSet(Made(d)')
    BY <2>1 DEF FromRequests
  <2>2. IsFiniteSet(Made(d)')
    BY <1>3, <1>5, MadeStays DEF FromRequests
  <2>3. CASE d = c
    <3>1. rpc'[d] = "posted" /\ exports'[d] = exports[d] + 1 /\ exports[d] \in Nat
      BY <1>1, <2>1, <2>3
    <3>2. pending[d] = << >>
      BY <1>3, <2>1, <2>3 DEF FromRequests
    <3>3. \A r \in accepted \cup lost : r.client = d => r.n <= exports[d] /\ r.n \in Nat
      BY <1>1, <1>2, <1>3 DEF FromRequests
    <3> QED BY <2>2, <3>1, <3>2, <3>3, RangeEmpty
  <2>4. CASE d # c
    <3>1. rpc'[d] = rpc[d] /\ exports'[d] = exports[d]
      BY <1>1, <2>1, <2>4
    <3> QED BY <1>3, <2>2, <3>1 DEF FromRequests
  <2> QED BY <2>3, <2>4
<1>6. ASSUME NEW c \in Clients, Send(c) \/ AnswerOk(c) \/ Unanswered(c) PROVE FromRequests'
  <2>1. UNCHANGED exports
    BY <1>6 DEF Send, AnswerOk, Unanswered, clientVars
  <2>2. \A d \in Clients : rpc'[d] # "sending" => pending'[d] = << >>
    BY <1>1, <1>3, <1>6 DEF Send, AnswerOk, Unanswered, FromRequests
  <2>3. \A d \in Clients : rpc'[d] = "posted" => rpc[d] = "posted" /\ d # c
    BY <1>1, <1>6 DEF Send, AnswerOk, Unanswered
  <2>4. /\ \A d \in Clients : Made(d)' = Made(d)
        /\ accepted' \cup lost' \subseteq accepted \cup lost \cup Range(pending[c])
        /\ \A d \in Clients : Range(pending'[d]) \subseteq Range(pending[d])
    BY <1>6, MadeStays
  <2> SUFFICES ASSUME NEW d \in Clients
               PROVE  /\ rpc'[d] # "sending" => pending'[d] = << >>
                      /\ rpc'[d] = "posted" => exports[d] > 0
                      /\ \A r \in Range(pending'[d]) : r.client = d /\ r.n <= exports[d]
                      /\ \A r \in accepted' \cup lost' : r.client = d =>
                           r.n <= exports[d] /\ (rpc'[d] = "posted" => r.n < exports[d])
                      /\ IsFiniteSet(Made(d)')
    BY <2>1 DEF FromRequests
  <2>5. IsFiniteSet(Made(d)') /\ (rpc'[d] # "sending" => pending'[d] = << >>)
    BY <1>3, <2>2, <2>4 DEF FromRequests
  <2>6. \A r \in Range(pending'[d]) : r.client = d /\ r.n <= exports[d]
    BY <1>3, <2>4 DEF FromRequests
  <2>7. ASSUME NEW r \in accepted' \cup lost', r.client = d
        PROVE  r.n <= exports[d] /\ (rpc'[d] = "posted" => r.n < exports[d])
    <3>1. CASE r \in accepted \cup lost
      BY <1>3, <2>3, <2>7, <3>1 DEF FromRequests
    <3>2. CASE r \in Range(pending[c])
      <4>1. d = c /\ r.n <= exports[d]
        BY <1>3, <2>7, <3>2 DEF FromRequests
      <4> QED BY <2>3, <4>1
    <3> QED BY <2>4, <3>1, <3>2
  <2>8. rpc'[d] = "posted" => exports[d] > 0
    BY <1>3, <2>3 DEF FromRequests
  <2> QED BY <2>5, <2>6, <2>7, <2>8
<1>7. ASSUME NEW c \in Clients, Decode(c) PROVE FromRequests'
  <2> DEFINE o == Decoded(c).out
  <2>1. /\ Made(c)' = Made(c) \cup Range(o)
        /\ \A d \in Clients : d # c => Made(d)' = Made(d)
        /\ \A d \in Clients : pending'[d] = IF d = c THEN o ELSE pending[d]
        /\ UNCHANGED <<lost, accepted, exports>>
    BY <1>7, DecodeMakes
  <2>2. /\ o \in Seq(Records)
        /\ \A r \in Range(o) : r.client = c /\ r.n = exports[c]
    BY <1>7, DecodeIs DEF Yields
  <2>3. rpc' = [rpc EXCEPT ![c] = "sending"]
    BY <1>7 DEF Decode
  <2> HIDE DEF o
  <2>4. IsFiniteSet(Range(o))
    BY <2>2, SeqFacts
  <2> SUFFICES ASSUME NEW d \in Clients
               PROVE  /\ rpc'[d] # "sending" => pending'[d] = << >>
                      /\ rpc'[d] = "posted" => exports[d] > 0
                      /\ \A r \in Range(pending'[d]) : r.client = d /\ r.n <= exports[d]
                      /\ \A r \in accepted \cup lost : r.client = d =>
                           r.n <= exports[d] /\ (rpc'[d] = "posted" => r.n < exports[d])
                      /\ IsFiniteSet(Made(d)')
    BY <2>1 DEF FromRequests
  <2>5. CASE d = c
    <3>1. rpc'[d] = "sending" /\ pending'[d] = o /\ exports[d] \in Nat
      BY <1>1, <2>1, <2>3, <2>5
    <3>2. IsFiniteSet(Made(d)')
      <4>1. IsFiniteSet(Made(c))
        BY <1>3 DEF FromRequests
      <4>2. IsFiniteSet(Made(c) \cup Range(o))
        BY <2>4, <4>1, FS_Union
      <4> QED BY <2>1, <2>5, <4>2
    <3>3. \A r \in accepted \cup lost : r.client = d => r.n <= exports[d]
      BY <1>3 DEF FromRequests
    <3>4. \A r \in Range(o) : r.client = d /\ r.n <= exports[d]
      BY <1>1, <2>2, <2>5, <3>1
    <3> QED BY <3>1, <3>2, <3>3, <3>4
  <2>6. CASE d # c
    <3>1. rpc'[d] = rpc[d] /\ pending'[d] = pending[d] /\ Made(d)' = Made(d)
      BY <1>1, <2>1, <2>3, <2>6
    <3> QED BY <1>3, <3>1 DEF FromRequests
  <2> QED BY <2>5, <2>6
<1> QED BY <1>4, <1>5, <1>6, <1>7, Steps

(* Every step keeps what relates the baselines to the requests decoded. *)
LEMMA BaselineKept ==
  ASSUME IInv, [Next]_vars
  PROVE  Baseline'
<1>1. /\ counter \in [Clients -> Nat] /\ total \in [Clients -> Nat] /\ exports \in [Clients -> Nat]
      /\ resets \in Nat /\ last \in [Clients -> SUBSET Nat]
      /\ origin \in [Clients -> Nat] /\ seen \in [Clients -> Nat]
  BY RelayAssumption DEF IInv, TypeOK
<1>2. Baseline
  BY DEF IInv
<1>3. ASSUME UNCHANGED <<counter, total, exports, resets, last, origin, seen>> PROVE Baseline'
  BY <1>2, <1>3 DEF Baseline
<1>4. CASE UNCHANGED clientSide
  BY <1>3, <1>4 DEF clientSide
<1>5. ASSUME NEW c \in Clients, Send(c) \/ AnswerOk(c) \/ Unanswered(c) PROVE Baseline'
  BY <1>3, <1>5 DEF Send, AnswerOk, Unanswered, clientVars, normVars
<1>6. ASSUME NEW c \in Clients, ExportReading(c) PROVE Baseline'
  <2>1. /\ UNCHANGED <<last, origin, seen>>
        /\ exports' = [exports EXCEPT ![c] = @ + 1] /\ total' = [total EXCEPT ![c] = @ + 1]
    BY <1>6 DEF ExportReading, Post, normVars
  <2>2. \/ counter' = [counter EXCEPT ![c] = @ + 1] /\ resets' = resets
        \/ counter' = [counter EXCEPT ![c] = 1] /\ resets' = resets + 1
    BY <1>6 DEF ExportReading
  <2> SUFFICES ASSUME NEW d \in Clients
               PROVE  /\ seen[d] <= total'[d] /\ total'[d] <= exports'[d]
                      /\ \A v \in last[d] :
                           \/ counter'[d] - v = total'[d] - seen[d]
                           \/ resets' > 0 /\ counter'[d] <= total'[d] - seen[d]
    BY <1>2, <2>1 DEF Baseline
  <2>3. /\ seen[d] <= total[d] /\ total[d] <= exports[d]
        /\ \A v \in last[d] :
             \/ counter[d] - v = total[d] - seen[d]
             \/ resets > 0 /\ counter[d] <= total[d] - seen[d]
    BY <1>2 DEF Baseline
  <2>4. /\ counter[d] \in Nat /\ total[d] \in Nat /\ exports[d] \in Nat /\ seen[d] \in Nat
        /\ last[d] \subseteq Nat
    BY <1>1
  <2>5. CASE d = c
    <3>1. exports'[d] = exports[d] + 1 /\ total'[d] = total[d] + 1
      BY <1>1, <2>1, <2>5
    <3>2. \/ counter'[d] = counter[d] + 1 /\ resets' = resets
          \/ counter'[d] = 1 /\ resets' = resets + 1
      BY <1>1, <2>2, <2>5
    <3>3. seen[d] <= total'[d] /\ total'[d] <= exports'[d]
      BY <2>3, <2>4, <3>1
    <3>4. ASSUME NEW v \in last[d]
          PROVE  \/ counter'[d] - v = total'[d] - seen[d]
                 \/ resets' > 0 /\ counter'[d] <= total'[d] - seen[d]
      BY <1>1, <2>3, <2>4, <3>1, <3>2
    <3> QED BY <3>3, <3>4
  <2>6. CASE d # c
    <3>1. exports'[d] = exports[d] /\ total'[d] = total[d] /\ counter'[d] = counter[d]
      BY <1>1, <2>1, <2>2, <2>6
    <3>2. resets > 0 => resets' > 0
      BY <1>1, <2>2
    <3> QED BY <2>3, <3>1, <3>2
  <2> QED BY <2>5, <2>6
<1>7. ASSUME NEW c \in Clients, ExportAgain(c) PROVE Baseline'
  <2>1. /\ UNCHANGED <<last, origin, seen, counter, total, resets>>
        /\ exports' = [exports EXCEPT ![c] = @ + 1]
    BY <1>7 DEF ExportAgain, Post, normVars
  <2>2. \A d \in Clients : total[d] <= exports'[d]
    <3> SUFFICES ASSUME NEW d \in Clients PROVE total[d] <= exports'[d]
      OBVIOUS
    <3>1. total[d] <= exports[d] /\ total[d] \in Nat /\ exports[d] \in Nat
      BY <1>1, <1>2 DEF Baseline
    <3>2. exports'[d] \in {exports[d], exports[d] + 1}
      BY <1>1, <2>1
    <3> QED BY <3>1, <3>2
  <2> QED BY <1>2, <2>1, <2>2 DEF Baseline
<1>8. ASSUME NEW c \in Clients, Decode(c) PROVE Baseline'
  <2> DEFINE l == Decoded(c).last
  <2>1. /\ last' = [last EXCEPT ![c] = l]
        /\ origin' = IF last[c] = {} THEN [origin EXCEPT ![c] = total[c]] ELSE origin
        /\ seen' = [seen EXCEPT ![c] = total[c]]
        /\ UNCHANGED <<counter, total, exports, resets>>
    BY <1>8 DEF Decode, clientVars
  <2>2. /\ Yields(c, l, Range(Decoded(c).out))
        /\ (\E i \in DOMAIN Shape[c] : Shape[c][i] = "sum") => l = {counter[c]}
    BY <1>8, DecodeIs
  <2> HIDE DEF l
  <2>3. /\ l = {} \/ l = {counter[c]}
        /\ l # {} => \E i \in DOMAIN Shape[c] : Shape[c][i] = "sum"
        /\ last[c] # {} => l # {}
    BY <1>2, <2>2 DEF Baseline, Yields
  <2> SUFFICES ASSUME NEW d \in Clients
               PROVE  /\ seen'[d] <= total[d] /\ total[d] <= exports[d]
                      /\ origin'[d] <= seen'[d]
                      /\ last'[d] = {} \/ \E v \in Nat : last'[d] = {v}
                      /\ last'[d] = {} => origin'[d] = seen'[d]
                      /\ last'[d] # {} => \E i \in DOMAIN Shape[d] : Shape[d][i] = "sum"
                      /\ \A v \in last'[d] :
                           \/ counter[d] - v = total[d] - seen'[d]
                           \/ resets > 0 /\ counter[d] <= total[d] - seen'[d]
    BY <2>1 DEF Baseline
  <2>4. CASE d = c
    <3>1. /\ last'[d] = l /\ seen'[d] = total[d]
          /\ origin'[d] = IF last[d] = {} THEN total[d] ELSE origin[d]
      BY <1>1, <2>1, <2>4
    <3>2. /\ counter[d] \in Nat /\ total[d] \in Nat /\ exports[d] \in Nat /\ seen[d] \in Nat
          /\ origin[d] \in Nat
      BY <1>1
    <3>3. seen[d] <= total[d] /\ total[d] <= exports[d] /\ origin[d] <= seen[d]
      BY <1>2 DEF Baseline
    <3>4. seen'[d] <= total[d] /\ origin'[d] <= seen'[d] /\ (last[d] = {} => origin'[d] = seen'[d])
      BY <3>1, <3>2, <3>3
    <3>5. \A v \in l : v = counter[d] /\ counter[d] - v = total[d] - seen'[d]
      BY <2>3, <2>4, <3>1, <3>2
    <3> QED BY <2>3, <2>4, <3>1, <3>2, <3>3, <3>4, <3>5
  <2>5. CASE d # c
    <3>1. last'[d] = last[d] /\ seen'[d] = seen[d] /\ origin'[d] = origin[d]
      BY <1>1, <2>1, <2>5
    <3> QED BY <1>2, <3>1 DEF Baseline
  <2> QED BY <2>4, <2>5
<1> QED BY <1>4, <1>5, <1>6, <1>7, <1>8, Steps

-----------------------------------------------------------------------------
(* The deltas. *)

(* The count of a client in a set of records is the total of its own. *)
LEMMA CountedIs ==
  ASSUME NEW c, NEW records
  PROVE  Counted(c, records) = Total(Mine(c, records))
BY DEF Counted, Total, Mine

(* What a client's records count, against what the receiver has seen. *)
Balanced(c) ==
  /\ Total(Made(c)) <= seen[c] - origin[c]
  /\ resets = 0 => Total(Made(c)) = seen[c] - origin[c]

(* The conservation of deltas is one balance per client. *)
LEMMA DeltasAre == DeltasConserved <=> \A c \in Clients : Balanced(c)
BY CountedIs DEF DeltasConserved, Balanced, Made

(* Every step keeps the balance of every client. *)
LEMMA BalancedKept ==
  ASSUME IInv, [Next]_vars, NEW d \in Clients
  PROVE  Balanced(d)'
<1>1. Balanced(d) /\ resets \in Nat
  BY DeltasAre DEF IInv, TypeOK
<1>2. ASSUME Made(d)' = Made(d), UNCHANGED <<origin[d], seen[d]>>, resets' \in {resets, resets + 1}
      PROVE  Balanced(d)'
  BY <1>1, <1>2 DEF Balanced
<1>3. CASE UNCHANGED clientSide
  BY <1>2, <1>3 DEF clientSide, Made, Mine
<1>4. ASSUME NEW c \in Clients,
             ExportReading(c) \/ ExportAgain(c) \/ Send(c) \/ AnswerOk(c) \/ Unanswered(c)
      PROVE  Balanced(d)'
  <2>1. Made(d)' = Made(d) /\ UNCHANGED <<origin, seen>>
    BY <1>4, MadeStays
  <2>2. resets' \in {resets, resets + 1}
    BY <1>4 DEF ExportReading, ExportAgain, Send, AnswerOk, Unanswered, clientVars
  <2> QED BY <1>2, <2>1, <2>2
<1>5. ASSUME NEW c \in Clients, Decode(c) PROVE Balanced(d)'
  <2> DEFINE o == Range(Decoded(c).out)
             l == Decoded(c).last
             M == Made(c)
  <2>1. /\ Made(c)' = M \cup o /\ UNCHANGED resets
        /\ \A e \in Clients : e # c => Made(e)' = Made(e)
        /\ pending[c] = << >>
    BY <1>5, DecodeMakes
  <2>2. /\ Decoded(c).out \in Seq(Records)
        /\ Yields(c, l, o)
        /\ (\E i \in DOMAIN Shape[c] : Shape[c][i] = "sum") => l = {counter[c]}
    BY <1>5, DecodeIs
  <2>3. /\ origin' = IF last[c] = {} THEN [origin EXCEPT ![c] = total[c]] ELSE origin
        /\ seen' = [seen EXCEPT ![c] = total[c]]
        /\ rpc[c] = "posted"
    BY <1>5 DEF Decode
  <2>4. /\ origin \in [Clients -> Nat] /\ seen \in [Clients -> Nat] /\ total[c] \in Nat
        /\ seen[c] \in Nat /\ origin[c] \in Nat /\ counter[c] \in Nat
        /\ pending \in [Clients -> Seq(Records)] /\ accepted \subseteq Records /\ lost \subseteq Records
    BY DEF IInv, TypeOK
  <2>5. CASE d # c
    <3>1. Made(d)' = Made(d) /\ origin'[d] = origin[d] /\ seen'[d] = seen[d]
      BY <2>1, <2>3, <2>4, <2>5
    <3> QED BY <1>2, <2>1, <3>1
  <2>6. CASE d = c
    <3>1. /\ seen'[c] = total[c]
          /\ origin'[c] = IF last[c] = {} THEN total[c] ELSE origin[c]
      BY <2>3, <2>4
    <3>2. o \subseteq Records /\ IsFiniteSet(o)
      BY <2>2, SeqFacts
    <3>3. M \subseteq Records /\ IsFiniteSet(M)
      <4>1. Range(pending[c]) \subseteq Records
        BY <2>1, RangeEmpty
      <4>2. IsFiniteSet(Made(c))
        BY DEF IInv, FromRequests
      <4> QED BY <2>4, <4>1, <4>2 DEF Made, Mine
    <3>4. \A r \in Records : r.delta \in Nat
      <4>1. \A e \in Clients : MaxExports[e] \in Nat
        BY RelayAssumption
      <4> QED BY <4>1 DEF Records
    <3>5. /\ seen[c] <= total[c] /\ origin[c] <= seen[c]
          /\ last[c] = {} => origin[c] = seen[c]
          /\ last[c] # {} => \E i \in DOMAIN Shape[c] : Shape[c][i] = "sum"
      BY DEF IInv, Baseline
    <3>6. /\ Gain(c) \in 0 .. total[c] - seen[c]
          /\ last[c] # {} /\ resets = 0 => Gain(c) = total[c] - seen[c]
      BY GainIs
    <3>7. \A r \in M : r.n < exports[c]
      BY <2>1, <2>3, RangeEmpty DEF IInv, FromRequests, Made, Mine
    <3>8. \A r \in o : r.n = exports[c]
      BY <2>2 DEF Yields
    <3>9. \A r \in o : r \notin M
      <4>1. exports[c] \in Nat
        BY DEF IInv, TypeOK
      <4> QED BY <3>7, <3>8, <4>1
    <3>10. Total(M) \in Nat /\ Total(M) <= seen[c] - origin[c]
           /\ (resets = 0 => Total(M) = seen[c] - origin[c])
      <4>1. Balanced(c)
        BY <1>1, <2>6
      <4> QED BY <3>3, <3>4, <4>1, TotalStep DEF Balanced
    <3> HIDE DEF o, l, M
    <3> SUFFICES /\ Total(M \cup o) <= seen'[c] - origin'[c]
                 /\ resets = 0 => Total(M \cup o) = seen'[c] - origin'[c]
      BY <2>1, <2>6 DEF Balanced
    <3>11. CASE last[c] = {}
      <4>1. \A r \in o : r.delta = 0
        BY <2>2, <3>11 DEF Yields
      <4>2. Total(M \cup o) = Total(M)
        BY <3>2, <3>3, <3>4, <4>1, TotalZeros
      <4> QED BY <2>4, <3>1, <3>5, <3>10, <3>11, <4>2
    <3>12. ASSUME last[c] # {}, Total(M \cup o) = Total(M) + Gain(c)
           PROVE  /\ Total(M \cup o) <= seen'[c] - origin'[c]
                  /\ resets = 0 => Total(M \cup o) = seen'[c] - origin'[c]
      <4>1. \A t, s, o1, m, g \in Nat :
              /\ m <= s - o1 /\ g <= t - s => m + g <= t - o1
              /\ m = s - o1 /\ g = t - s => m + g = t - o1
        OBVIOUS
      <4>2. Gain(c) \in Nat /\ Gain(c) <= total[c] - seen[c]
        BY <2>4, <3>6
      <4>3. seen'[c] = total[c] /\ origin'[c] = origin[c]
        BY <3>1, <3>12
      <4> DEFINE t == total[c]
                 s == seen[c]
                 o1 == origin[c]
                 m == Total(M)
                 g == Gain(c)
                 both == Total(M \cup o)
      <4>4. /\ t \in Nat /\ s \in Nat /\ o1 \in Nat /\ m \in Nat /\ g \in Nat
            /\ m <= s - o1 /\ g <= t - s /\ both = m + g
            /\ resets = 0 => m = s - o1 /\ g = t - s
        BY <2>4, <3>6, <3>10, <3>12, <4>2, Zenon
      <4>5. SUFFICES both <= t - o1 /\ (resets = 0 => both = t - o1)
        BY <4>3, Zenon
      <4> HIDE DEF t, s, o1, m, g, both
      <4> QED BY <4>1, <4>4
    <3>13. CASE last[c] # {}
      <4>1. CASE \A r \in o : r.delta = 0
        <5>1. Gain(c) = 0
          <6>1. (l = last[c] /\ l = {counter[c]}) \/ \E gained \in o : gained.delta = Gain(c)
            BY <2>2, <3>5, <3>13 DEF Yields
          <6>2. ASSUME last[c] = {counter[c]} PROVE Gain(c) = 0
            BY <2>4, <6>2, ChooseOne DEF Gain, Delta
          <6> QED BY <4>1, <6>1, <6>2
        <5>2. Total(M \cup o) = Total(M)
          BY <3>2, <3>3, <3>4, <4>1, TotalZeros
        <5>3. Total(M \cup o) = Total(M) + Gain(c)
          BY <3>10, <5>1, <5>2
        <5> QED BY <3>12, <3>13, <5>3
      <4>2. CASE ~ \A r \in o : r.delta = 0
        <5>1. PICK gained \in o :
                gained.delta = Gain(c) /\ \A r \in o : r = gained \/ r.delta = 0
          BY <2>2, <4>2 DEF Yields
        <5> DEFINE Z == o \ {gained}
                   N == M \cup {gained}
        <5>2. Total(N) = Total(M) + gained.delta
          BY <3>2, <3>3, <3>4, <3>9, <5>1, TotalAdd
        <5>3. IsFiniteSet(Z) /\ IsFiniteSet(N) /\ (\A r \in Z : r.delta = 0) /\ M \cup o = N \cup Z
              /\ \A r \in N : r.delta \in Nat
          <6>1. IsFiniteSet(Z)
            BY <3>2, FS_Subset
          <6>2. IsFiniteSet(N)
            BY <3>3, FS_AddElement
          <6> QED BY <3>2, <3>3, <3>4, <5>1, <6>1, <6>2
        <5> HIDE DEF Z, N
        <5>4. Total(N \cup Z) = Total(N)
          BY <5>3, TotalZeros
        <5> QED BY <3>12, <3>13, <5>1, <5>2, <5>3, <5>4
      <4> QED BY <4>1, <4>2
    <3> QED BY <3>11, <3>13
  <2> QED BY <2>5, <2>6
<1> QED BY <1>3, <1>4, <1>5, Steps

-----------------------------------------------------------------------------
(* The channel and the exporter. *)

(* What the relay holds: a step either is a send, settles what it exports, *)
(* gives everything up, or leaves what is held as it is.                   *)
LEMMA HeldSteps ==
  ASSUME TypeOK, [Next]_vars
  PROVE  \/ \E c \in Clients :
              Send(c) /\ Held' = Held \cup {Head(pending[c])} /\ UNCHANGED <<pc, delivered>>
         \/ /\ Held' \subseteq Held /\ Held \ Held' \subseteq delivered'
            /\ delivered \subseteq delivered' /\ delivered' \ delivered \subseteq Held
            /\ UNCHANGED accepted
            /\ pc = "aborted" => pc' = "aborted"
         \/ pc' = "aborted" /\ UNCHANGED <<accepted, delivered>>
<1>1. ASSUME NEW c \in Clients, Send(c)
      PROVE  Held' = Held \cup {Head(pending[c])} /\ UNCHANGED <<pc, delivered>>
  <2>1. chan' = Append(chan, Head(pending[c])) /\ UNCHANGED <<buf, batch, pc, delivered>>
    BY <1>1 DEF Send, exporterVars
  <2>2. chan \in Seq(Records)
    BY DEF TypeOK
  <2>3. Range(chan') = Range(chan) \cup {Head(pending[c])}
    BY <2>1, <2>2, RangeAppend
  <2> QED BY <2>1, <2>3 DEF Held
<1>2. ASSUME UNCHANGED <<chan, buf, batch, accepted, delivered, pc>>
      PROVE  /\ Held' \subseteq Held /\ Held \ Held' \subseteq delivered'
             /\ delivered \subseteq delivered' /\ delivered' \ delivered \subseteq Held
             /\ UNCHANGED accepted
             /\ pc = "aborted" => pc' = "aborted"
  BY <1>2 DEF Held
<1>3. CASE \E c \in Clients : \/ ExportReading(c) \/ ExportAgain(c) \/ Decode(c)
                              \/ AnswerOk(c) \/ Unanswered(c)
  BY <1>2, <1>3 DEF ExportReading, ExportAgain, Post, Decode, AnswerOk, Unanswered, exporterVars
<1>4. CASE Stop \/ Outage \/ UNCHANGED vars
  BY <1>2, <1>4 DEF Stop, Outage, vars, exporterVars
<1>5. CASE Connect
  BY <1>5 DEF Connect, Held
<1>6. CASE Collect
  <2> DEFINE h == Head(chan)
             filled == Append(buf, h)
  <2>1. chan \in Seq(Records) /\ chan # << >> /\ buf \in Seq(Records)
        /\ (pc = "exporting") = (batch # << >>) /\ pc = "collecting"
    BY <1>6 DEF TypeOK, Collect
  <2>2. Range(chan) = {h} \cup Range(Tail(chan)) /\ Range(filled) = Range(buf) \cup {h}
    BY <2>1, SeqFacts, RangeAppend
  <2>3. chan' = Tail(chan) /\ UNCHANGED <<accepted, delivered>>
    BY <1>6 DEF Collect
  <2>4. \/ batch' = filled /\ buf' = << >> /\ pc' = "exporting"
        \/ buf' = filled /\ UNCHANGED <<pc, batch>>
    BY <1>6 DEF Collect, Flush
  <2> HIDE DEF h, filled
  <2>5. Range(batch) = {}
    BY <2>1, RangeEmpty
  <2>6. Held' = Held
    BY <2>2, <2>3, <2>4, <2>5, RangeEmpty DEF Held
  <2> QED BY <2>1, <2>3, <2>6
<1>7. CASE FlushTick \/ InputEnds
  <2>1. pc = "collecting" /\ batch = << >> /\ UNCHANGED <<chan, accepted, delivered>>
    BY <1>7 DEF TypeOK, FlushTick, InputEnds
  <2>2. \/ batch' = buf /\ buf' = << >>
        \/ UNCHANGED <<buf, batch>>
    BY <1>7 DEF FlushTick, InputEnds, Flush
  <2>3. Held' = Held
    BY <2>1, <2>2, RangeEmpty DEF Held
  <2> QED BY <2>1, <2>3
<1>8. CASE ExportOk
  BY <1>8, RangeEmpty DEF ExportOk, Held
<1>9. CASE ExportUncertain
  BY <1>9 DEF ExportUncertain, Held, exporterVars
<1>10. CASE Abort
  BY <1>10 DEF Abort
<1> QED BY <1>1, <1>3, <1>4, <1>5, <1>6, <1>7, <1>8, <1>9, <1>10
        DEF Next, Client, Handler, Exporter, GiveUp, AnswerUnavailable

(* Every step keeps what was taken from the channel with the exporter. *)
LEMMA KeptKept ==
  ASSUME IInv, [Next]_vars
  PROVE  Kept'
<1>1. TypeOK /\ Kept
  BY DEF IInv
<1>2. ASSUME NEW c \in Clients, Send(c), Held' = Held \cup {Head(pending[c])},
             UNCHANGED <<pc, delivered>>
      PROVE  Kept'
  <2>1. accepted' = accepted \cup {Head(pending[c])}
    BY <1>2 DEF Send
  <2> QED BY <1>1, <1>2, <2>1 DEF Kept
<1>3. ASSUME Held \ Held' \subseteq delivered', delivered \subseteq delivered', UNCHANGED accepted,
             pc = "aborted" => pc' = "aborted"
      PROVE  Kept'
  BY <1>1, <1>3 DEF Kept
<1>4. ASSUME pc' = "aborted" PROVE Kept'
  BY <1>4 DEF Kept
<1> QED BY <1>1, <1>2, <1>3, <1>4, HeldSteps

(* Every step keeps what is known of the exporter once it has ended. *)
LEMMA LastExportKept ==
  ASSUME IInv, [Next]_vars
  PROVE  LastExport'
<1>1. LastExport /\ TypeOK
  BY DEF IInv
<1>2. ASSUME NEW c \in Clients, ExportReading(c) \/ ExportAgain(c) \/ Decode(c) \/ Send(c) \/ AnswerOk(c)
                                  \/ Unanswered(c)
      PROVE  LastExport'
  <2>1. /\ UNCHANGED <<stopping, pc, buf, ending>>
    BY <1>2 DEF ExportReading, ExportAgain, Post, Decode, Send, AnswerOk, Unanswered, exporterVars
  <2>2. CASE ~ending
    BY <1>1, <2>1, <2>2 DEF LastExport
  <2>3. CASE ending
    <3>1. stopping /\ rpc[c] = "idle"
      BY <1>1, <2>3 DEF LastExport
    <3>2. Unanswered(c)
      BY <1>2, <3>1 DEF ExportReading, ExportAgain, Post, Decode, Send, AnswerOk
    <3>3. rpc' = [rpc EXCEPT ![c] = "idle"] /\ UNCHANGED chan
      BY <3>2 DEF Unanswered
    <3> QED BY <1>1, <2>1, <2>3, <3>3 DEF LastExport, TypeOK
  <2> QED BY <1>1, <2>2, <2>3 DEF TypeOK
<1>3. CASE Collect \/ FlushTick
  <2>1. pc = "collecting" /\ ~ending
    <3>1. Collect => chan # << >>
      BY DEF Collect
    <3>2. FlushTick => buf # << >>
      BY DEF FlushTick
    <3> QED BY <1>1, <1>3, <3>1, <3>2 DEF LastExport, Collect, FlushTick, TypeOK
  <2>2. ending' = ending /\ pc' # "done"
    BY <1>3, <2>1 DEF Collect, FlushTick, Flush
  <2> QED BY <2>1, <2>2 DEF LastExport
<1>4. CASE InputEnds
  BY <1>4 DEF InputEnds, InputClosed, Flush, LastExport
<1>5. CASE ExportOk \/ ExportUncertain
  BY <1>1, <1>5 DEF ExportOk, ExportUncertain, LastExport, exporterVars
<1>6. CASE Connect \/ Abort \/ Outage \/ Stop
  BY <1>1, <1>6 DEF Connect, Abort, Outage, Stop, LastExport, exporterVars
<1>7. CASE UNCHANGED vars
  BY <1>1, <1>7 DEF vars, LastExport, exporterVars
<1> QED BY <1>2, <1>3, <1>4, <1>5, <1>6, <1>7
        DEF Next, Client, Handler, Exporter, GiveUp, AnswerUnavailable

-----------------------------------------------------------------------------

(* The inductive invariant holds in every state. *)
LEMMA Invariant == Spec => []IInv
<1>1. Init => IInv
  <2> SUFFICES ASSUME Init PROVE IInv
    OBVIOUS
  <2>1. TypeOK
    BY TypeInit
  <2>2. \A c \in Clients : Made(c) = {}
    BY RangeEmpty DEF Init, Made, Mine
  <2>3. FromRequests
    BY <2>2, RangeEmpty, FS_EmptySet DEF Init, FromRequests
  <2>4. Baseline
    BY DEF Init, Baseline
  <2>5. DeltasConserved
    <3>1. Total({}) = 0
      BY FS_EmptySet, TotalStep
    <3>2. \A c \in Clients : Total(Made(c)) = 0
      BY <2>2, <3>1, Zenon
    <3>3. \A c \in Clients : seen[c] = 0 /\ origin[c] = 0
      BY DEF Init
    <3>4. \A c \in Clients : Balanced(c)
      BY <3>2, <3>3 DEF Balanced
    <3> QED BY <3>4, DeltasAre
  <2>6. Kept /\ LastExport
    BY DEF Init, Kept, LastExport
  <2> QED BY <2>1, <2>3, <2>4, <2>5, <2>6 DEF IInv
<1>2. IInv /\ [Next]_vars => IInv'
  <2> SUFFICES ASSUME IInv, [Next]_vars PROVE IInv'
    OBVIOUS
  <2>1. DeltasConserved'
    <3>1. \A c \in Clients : Balanced(c)'
      BY BalancedKept
    <3>2. DeltasConserved' <=> \A c \in Clients : Balanced(c)'
      BY CountedIs DEF DeltasConserved, Balanced, Made
    <3> QED BY <3>1, <3>2
  <2> QED BY <2>1, TypeKept, FromRequestsKept, BaselineKept, KeptKept, LastExportKept DEF IInv
<1> QED BY <1>1, <1>2, PTL DEF Spec

(* Nothing but well-typed state, in particular: the channel holds at most   *)
(* Cap records, and the buffer is flushed before it would be a batch.      *)
THEOREM TypeCorrect == Spec => []TypeOK
BY Invariant, PTL DEF IInv

(* Every increment a request was decoded for is in one record, accepted, to *)
(* be sent, or lost with its request, whatever requests were repeated,     *)
(* given up or interleaved; a restart hides increments and invents none.   *)
THEOREM IncrementsConserved == Spec => []DeltasConserved
BY Invariant, PTL DEF IInv

(* An exporter that ends by itself has delivered all that the channel       *)
(* accepted: nothing is left in the channel, the buffer or a batch.        *)
THEOREM EndsDelivered == Spec => []DoneMeansDelivered
<1>1. IInv => DoneMeansDelivered
  <2> SUFFICES ASSUME IInv, pc = "done" PROVE accepted \subseteq delivered
    BY DEF DoneMeansDelivered
  <2>1. chan = << >> /\ buf = << >> /\ batch = << >>
    BY DEF IInv, LastExport, TypeOK
  <2>2. accepted \subseteq Held \cup delivered
    BY DEF IInv, Kept
  <2> QED BY <2>1, <2>2, RangeEmpty DEF Held
<1> QED BY <1>1, Invariant, PTL

(* Up to an abort, every step of the relay is one of AtLeastOnce: a record  *)
(* the channel accepts is queued, and leaves it delivered.                 *)
THEOREM ExportsImplementAtLeastOnce == Spec => ExportsAtLeastOnce
<1>1. Init => Egress!Init
  BY RangeEmpty DEF Init, Egress!Init
<1>2. IInv /\ [Next]_vars => [Egress!Next \/ pc' = "aborted"]_(Egress!vars)
  <2> SUFFICES ASSUME IInv, [Next]_vars PROVE Egress!Next \/ pc' = "aborted"
    OBVIOUS
  <2>1. TypeOK
    BY DEF IInv
  <2>2. ASSUME NEW c \in Clients, Send(c), Held' = Held \cup {Head(pending[c])},
               UNCHANGED <<pc, delivered>>
        PROVE  Egress!Next
    <3>1. pending[c] \in Seq(Records) /\ pending[c] # << >>
      BY <2>1, <2>2 DEF TypeOK, Send
    <3>2. Head(pending[c]) \in Records
      BY <3>1, SeqFacts
    <3>3. accepted' = accepted \cup {Head(pending[c])}
      BY <2>2 DEF Send
    <3>4. Egress!Store(Head(pending[c]))
      BY <2>2, <3>3 DEF Egress!Store, Held
    <3> QED BY <3>2, <3>4 DEF Egress!Next
  <2>3. ASSUME Held' \subseteq Held, Held \ Held' \subseteq delivered', delivered \subseteq delivered',
               delivered' \ delivered \subseteq Held, UNCHANGED accepted
        PROVE  Egress!Next
    BY <2>3 DEF Egress!Next, Egress!Consume, Held
  <2> QED BY <2>1, <2>2, <2>3, HeldSteps
<1> QED BY <1>1, <1>2, Invariant, PTL DEF Spec, ExportsAtLeastOnce

=============================================================================
