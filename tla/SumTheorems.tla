----------------------------- MODULE SumTheorems ----------------------------
(***************************************************************************)
(* What SumFunction adds up. The community modules define the sum of a     *)
(* function's values by recursion over the subsets of its domain, taking   *)
(* out an element that CHOOSE gives; these lemmas say that, over a finite  *)
(* domain, it is the sum, in whatever order it is taken. The induction is  *)
(* by a smallest counterexample: a set of naturals that is not empty has a *)
(* least element.                                                          *)
(***************************************************************************)
EXTENDS Integers, FiniteSets, Functions, FiniteSetTheorems,
        WellFoundedInduction, TLAPS

Choice(s) == CHOOSE x \in s : TRUE

(* The equation of the recursion, at the set s                             *)
Step(f, g, s) == IF s = {} THEN 0 ELSE f[Choice(s)] + g[s \ {Choice(s)}]

(* g solves the recursion for the subsets of S.                            *)
Solves(g, f, S) ==
  /\ g \in [SUBSET S -> Int]
  /\ \A s \in SUBSET S : g[s] = Step(f, g, s)

(* The subsets of S of at most n elements                                  *)
UpTo(S, n) == {s \in SUBSET S : Cardinality(s) <= n}

LEMMA SmallestNat ==
  ASSUME NEW T \in SUBSET Nat, T # {}
  PROVE  \E n \in T : \A m \in T : n <= m
<1>1. PICK n \in T : \A m \in T : ~ <<m, n>> \in OpToRel(<, Nat)
  BY NatLessThanWellFounded, WFMin
<1>2. \A m \in T : ~ (m < n)
  BY <1>1 DEF OpToRel
<1> QED BY <1>2

LEMMA ChoiceIn ==
  ASSUME NEW s, s # {}
  PROVE  Choice(s) \in s
BY DEF Choice

LEMMA SmallestSet ==
  ASSUME NEW S, IsFiniteSet(S), NEW B \in SUBSET SUBSET S, B # {}
  PROVE  \E s \in B : \A x \in s : s \ {x} \notin B
<1> DEFINE Sizes == {Cardinality(s) : s \in B}
<1>1. \A s \in B : IsFiniteSet(s) /\ Cardinality(s) \in Nat
  BY FS_Subset, FS_CardinalityType
<1>2. PICK n \in Sizes : \A m \in Sizes : n <= m
  <2>1. Sizes \in SUBSET Nat /\ Sizes # {}
    BY <1>1
  <2> QED BY <2>1, SmallestNat
<1>3. PICK s \in B : n = Cardinality(s)
  BY <1>2
<1>4. ASSUME NEW x \in s, s \ {x} \in B PROVE FALSE
  <2>1. Cardinality(s \ {x}) = Cardinality(s) - 1
    BY <1>1, FS_RemoveElement
  <2>2. n <= Cardinality(s \ {x})
    BY <1>2, <1>4
  <2> QED BY <1>1, <1>3, <2>1, <2>2
<1> QED BY <1>3, <1>4

(* The recursion has a solution.                                           *)
LEMMA SolutionExists ==
  ASSUME NEW S, IsFiniteSet(S), NEW f, \A x \in S : f[x] \in Int
  PROVE  \E g : Solves(g, f, S)
<1> DEFINE Solved(n) == \E g \in [UpTo(S, n) -> Int] :
                           \A s \in UpTo(S, n) : g[s] = Step(f, g, s)
           Unsolved == {n \in Nat : ~Solved(n)}
<1>1. \A s \in SUBSET S : IsFiniteSet(s) /\ Cardinality(s) \in Nat
  BY FS_Subset, FS_CardinalityType
<1>2. Solved(0)
  <2>1. UpTo(S, 0) = {{}}
    BY <1>1, FS_EmptySet DEF UpTo
  <2> DEFINE g == [s \in UpTo(S, 0) |-> 0]
  <2>2. g \in [UpTo(S, 0) -> Int] /\ \A s \in UpTo(S, 0) : g[s] = Step(f, g, s)
    BY <2>1 DEF Step
  <2> QED BY <2>2
<1>3. ASSUME NEW n \in Nat, Solved(n) PROVE Solved(n + 1)
  <2>1. PICK g \in [UpTo(S, n) -> Int] :
               \A s \in UpTo(S, n) : g[s] = Step(f, g, s)
    BY <1>3
  <2> DEFINE h == [s \in UpTo(S, n + 1) |-> Step(f, g, s)]
  <2>2. \A s \in UpTo(S, n) : s \in UpTo(S, n + 1) /\ h[s] = g[s]
    BY <1>1, <2>1 DEF UpTo
  <2>3. ASSUME NEW s \in UpTo(S, n + 1), s # {}
        PROVE  Choice(s) \in S /\ s \ {Choice(s)} \in UpTo(S, n)
    <3>1. Choice(s) \in s /\ s \in SUBSET S
      BY <2>3, ChoiceIn DEF UpTo
    <3>2. Cardinality(s \ {Choice(s)}) = Cardinality(s) - 1
      BY <1>1, <3>1, FS_RemoveElement
    <3> QED BY <1>1, <3>1, <3>2 DEF UpTo
  <2>4. ASSUME NEW s \in UpTo(S, n + 1)
        PROVE  h[s] \in Int /\ h[s] = Step(f, h, s)
    <3>1. h[s] = Step(f, g, s)
      OBVIOUS
    <3>2. CASE s = {}
      BY <3>1, <3>2 DEF Step
    <3>3. CASE s # {}
      <4> DEFINE t == s \ {Choice(s)}
      <4>1. f[Choice(s)] \in Int /\ t \in UpTo(S, n)
        BY <2>3, <3>3
      <4>2. g[t] \in Int /\ h[t] = g[t]
        BY <2>2, <4>1
      <4> HIDE DEF h
      <4> QED BY <3>1, <3>3, <4>1, <4>2 DEF Step
    <3> QED BY <3>2, <3>3
  <2>5. h \in [UpTo(S, n + 1) -> Int]
    BY <2>4
  <2> QED BY <2>4, <2>5
<1>4. Unsolved = {}
  <2> SUFFICES ASSUME Unsolved # {} PROVE FALSE
    OBVIOUS
  <2>1. PICK n \in Unsolved : \A m \in Unsolved : n <= m
    <3> HIDE DEF Solved
    <3>1. Unsolved \in SUBSET Nat
      OBVIOUS
    <3> QED BY <3>1, SmallestNat
  <2>2. n # 0 /\ n \in Nat
    BY <1>2
  <2>3. n - 1 \in Nat /\ Solved(n - 1)
    BY <2>1, <2>2
  <2>4. Solved((n - 1) + 1)
    <3> HIDE DEF Solved
    <3> QED BY <1>3, <2>3
  <2>5. (n - 1) + 1 = n
    BY <2>2
  <2> QED BY <2>4, <2>5
<1>5. UpTo(S, Cardinality(S)) = SUBSET S /\ Cardinality(S) \in Nat
  BY FS_Subset, FS_CardinalityType DEF UpTo
<1>6. Solved(Cardinality(S))
  BY <1>4, <1>5
<1> QED BY <1>5, <1>6 DEF Solves

(* The sum is that of a solution.                                          *)
LEMMA SumIsSolution ==
  ASSUME NEW S, IsFiniteSet(S), NEW f, \A x \in S : f[x] \in Int
  PROVE  \E g : Solves(g, f, S) /\ SumFunctionOnSet(f, S) = g[S]
<1> DEFINE Chosen(g) == g = [s \in SUBSET S |-> Step(f, g, s)]
           it == CHOOSE g : Chosen(g)
<1>1. SumFunctionOnSet(f, S) = it[S]
  BY DEF SumFunctionOnSet, FoldFunctionOnSet, MapThenFoldSet, Choice, Step
<1>2. PICK h : Solves(h, f, S)
  BY SolutionExists
<1>3. Chosen(h)
  BY <1>2 DEF Solves
<1>4. Chosen(it)
  <2> HIDE DEF Chosen
  <2> QED BY <1>3
<1>5. \A s \in SUBSET S : it[s] = Step(f, it, s)
  BY <1>4
<1>6. \A s \in SUBSET S : it[s] \in Int
  <2> DEFINE Bad == {s \in SUBSET S : it[s] \notin Int}
  <2> HIDE DEF it
  <2> SUFFICES ASSUME Bad # {} PROVE FALSE
    OBVIOUS
  <2>1. PICK s \in Bad : \A x \in s : s \ {x} \notin Bad
    BY SmallestSet
  <2>2. it[s] = Step(f, it, s) /\ it[s] \notin Int
    BY <1>5
  <2>3. s # {}
    BY <2>2 DEF Step
  <2>4. Choice(s) \in s
    BY <2>3, ChoiceIn
  <2>5. it[s \ {Choice(s)}] \in Int /\ f[Choice(s)] \in Int
    BY <2>1, <2>4
  <2> QED BY <2>2, <2>3, <2>5 DEF Step
<1>7. it \in [SUBSET S -> Int]
  <2> HIDE DEF it
  <2>1. it = [s \in SUBSET S |-> Step(f, it, s)]
    BY <1>4
  <2> HIDE DEF Chosen
  <2> QED BY <1>5, <1>6, <2>1
<1> QED
  <2> HIDE DEF it, Chosen
  <2> QED BY <1>1, <1>5, <1>7 DEF Solves

(* Any element may be taken out first.                                     *)
LEMMA AnyFirst ==
  ASSUME NEW S, IsFiniteSet(S), NEW f, \A x \in S : f[x] \in Int,
         NEW g, Solves(g, f, S)
  PROVE  \A y \in S : g[S] = f[y] + g[S \ {y}]
<1> DEFINE Fails == {s \in SUBSET S : \E x \in s : g[s] # f[x] + g[s \ {x}]}
<1> USE DEF Solves
<1> SUFFICES ASSUME Fails # {} PROVE FALSE
  OBVIOUS
<1>1. PICK s \in Fails : \A x \in s : s \ {x} \notin Fails
  BY SmallestSet
<1>2. PICK x \in s : g[s] # f[x] + g[s \ {x}]
  BY <1>1
<1> DEFINE c == Choice(s)
<1>3. c \in s
  BY <1>2, ChoiceIn
<1> HIDE DEF c
<1>4. g[s] = f[c] + g[s \ {c}]
  BY <1>2 DEF Step, c
<1>5. c # x
  BY <1>2, <1>4
<1> DEFINE r == g[(s \ {c}) \ {x}]
<1>6. g[s \ {c}] = f[x] + r
  BY <1>1, <1>3, <1>5
<1>7. g[s \ {x}] = f[c] + r
  <2>1. g[s \ {x}] = f[c] + g[(s \ {x}) \ {c}]
    BY <1>1, <1>3, <1>5
  <2>2. (s \ {x}) \ {c} = (s \ {c}) \ {x}
    OBVIOUS
  <2> QED BY <2>1, <2>2
<1>8. f[c] \in Int /\ f[x] \in Int /\ r \in Int
  BY <1>3
<1>9. f[c] + (f[x] + r) = f[x] + (f[c] + r)
  <2> HIDE DEF r
  <2> QED BY <1>8
<1> QED
  <2> HIDE DEF r
  <2> QED BY <1>2, <1>4, <1>6, <1>7, <1>9

(* Two solutions agree where they are both defined.                        *)
LEMMA SolutionsAgree ==
  ASSUME NEW S, IsFiniteSet(S), NEW f, NEW h, \A x \in S : f[x] = h[x],
         NEW g, \A s \in SUBSET S : g[s] = Step(f, g, s),
         NEW k, \A s \in SUBSET S : k[s] = Step(h, k, s)
  PROVE  g[S] = k[S]
<1> DEFINE Apart == {s \in SUBSET S : g[s] # k[s]}
<1> SUFFICES ASSUME Apart # {} PROVE FALSE
  OBVIOUS
<1>1. PICK s \in Apart : \A x \in s : s \ {x} \notin Apart
  BY SmallestSet
<1>2. s # {}
  BY DEF Step
<1>3. Choice(s) \in s
  BY <1>2, ChoiceIn
<1>4. g[s \ {Choice(s)}] = k[s \ {Choice(s)}] /\ f[Choice(s)] = h[Choice(s)]
  BY <1>1, <1>3
<1> QED BY <1>2, <1>4 DEF Step

(* The sum over a part of a set is that of the solution for the set.       *)
LEMMA SumOfPart ==
  ASSUME NEW S, IsFiniteSet(S), NEW f, \A x \in S : f[x] \in Int,
         NEW g, Solves(g, f, S), NEW T \in SUBSET S
  PROVE  SumFunctionOnSet(f, T) = g[T]
<1>1. IsFiniteSet(T) /\ \A x \in T : f[x] \in Int
  BY FS_Subset
<1>2. PICK k : Solves(k, f, T) /\ SumFunctionOnSet(f, T) = k[T]
  BY <1>1, SumIsSolution
<1>3. /\ \A s \in SUBSET T : g[s] = Step(f, g, s)
      /\ \A s \in SUBSET T : k[s] = Step(f, k, s)
  BY <1>2 DEF Solves
<1> QED BY <1>1, <1>2, <1>3, SolutionsAgree

-----------------------------------------------------------------------------
(* The sum over no element is 0.                                           *)
LEMMA SumEmpty ==
  ASSUME NEW f
  PROVE  SumFunctionOnSet(f, {}) = 0
<1>1. IsFiniteSet({})
  BY FS_EmptySet
<1>2. PICK g : Solves(g, f, {}) /\ SumFunctionOnSet(f, {}) = g[{}]
  BY <1>1, SumIsSolution
<1> QED BY <1>2 DEF Solves, Step

(* The sum of integers is an integer.                                      *)
LEMMA SumType ==
  ASSUME NEW S, IsFiniteSet(S), NEW f, \A x \in S : f[x] \in Int
  PROVE  SumFunctionOnSet(f, S) \in Int
<1>1. PICK g : Solves(g, f, S) /\ SumFunctionOnSet(f, S) = g[S]
  BY SumIsSolution
<1> QED BY <1>1 DEF Solves

(* The sum takes nothing but the values on its set.                        *)
LEMMA SumSame ==
  ASSUME NEW S, IsFiniteSet(S), NEW f, \A x \in S : f[x] \in Int,
         NEW h, \A x \in S : f[x] = h[x]
  PROVE  SumFunctionOnSet(f, S) = SumFunctionOnSet(h, S)
<1>1. \A x \in S : h[x] \in Int
  OBVIOUS
<1>2. PICK g : Solves(g, f, S) /\ SumFunctionOnSet(f, S) = g[S]
  BY SumIsSolution
<1>3. PICK k : Solves(k, h, S) /\ SumFunctionOnSet(h, S) = k[S]
  BY <1>1, SumIsSolution
<1>4. /\ \A s \in SUBSET S : g[s] = Step(f, g, s)
      /\ \A s \in SUBSET S : k[s] = Step(h, k, s)
  BY <1>2, <1>3 DEF Solves
<1> QED BY <1>2, <1>3, <1>4, SolutionsAgree

(* One element more adds its value.                                        *)
LEMMA SumAdd ==
  ASSUME NEW S, IsFiniteSet(S), NEW y, y \notin S,
         NEW f, \A x \in S \cup {y} : f[x] \in Int
  PROVE  SumFunctionOnSet(f, S \cup {y}) = SumFunctionOnSet(f, S) + f[y]
<1>1. PICK T : T = S \cup {y}
  OBVIOUS
<1>2. IsFiniteSet(T) /\ \A x \in T : f[x] \in Int
  BY <1>1, FS_AddElement
<1>3. PICK g : Solves(g, f, T) /\ SumFunctionOnSet(f, T) = g[T]
  BY <1>2, SumIsSolution
<1>4. \A x \in T : g[T] = f[x] + g[T \ {x}]
  BY <1>2, <1>3, AnyFirst
<1>5. y \in T /\ T \ {y} = S
  BY <1>1
<1>6. SumFunctionOnSet(f, S) = g[S]
  BY <1>2, <1>3, <1>5, SumOfPart
<1>7. g[S] \in Int /\ f[y] \in Int
  BY <1>2, <1>3, <1>5 DEF Solves
<1>8. SumFunctionOnSet(f, T) = f[y] + g[S]
  BY <1>3, <1>4, <1>5
<1> QED BY <1>1, <1>6, <1>7, <1>8

(* The sum of naturals is a natural.                                       *)
LEMMA SumNat ==
  ASSUME NEW S, IsFiniteSet(S), NEW f, \A x \in S : f[x] \in Nat
  PROVE  SumFunctionOnSet(f, S) \in Nat
<1> DEFINE Below == {s \in SUBSET S : SumFunctionOnSet(f, s) \notin Nat}
<1> SUFFICES ASSUME Below # {} PROVE FALSE
  OBVIOUS
<1>1. PICK s \in Below : \A x \in s : s \ {x} \notin Below
  BY SmallestSet
<1>2. PICK x \in s : TRUE
  BY <1>1, SumEmpty
<1>3. PICK t : t = s \ {x}
  OBVIOUS
<1>4. SumFunctionOnSet(f, t) \in Nat /\ IsFiniteSet(t) /\ x \notin t
  BY <1>1, <1>2, <1>3, FS_Subset
<1>5. t \cup {x} = s /\ f[x] \in Nat /\ \A z \in t \cup {x} : f[z] \in Int
  BY <1>2, <1>3
<1>6. SumFunctionOnSet(f, t \cup {x}) = SumFunctionOnSet(f, t) + f[x]
  BY <1>4, <1>5, SumAdd
<1>7. SumFunctionOnSet(f, s) = SumFunctionOnSet(f, t) + f[x]
  BY <1>5, <1>6, Zenon
<1> QED BY <1>4, <1>5, <1>7

-----------------------------------------------------------------------------
(* The same of SumFunction, the sum over the whole domain of a function.   *)
LEMMA SumOfNone ==
  ASSUME NEW f, DOMAIN f = {}
  PROVE  SumFunction(f) = 0
BY SumEmpty DEF SumFunction

LEMMA SumOfNats ==
  ASSUME NEW f, IsFiniteSet(DOMAIN f), \A x \in DOMAIN f : f[x] \in Nat
  PROVE  SumFunction(f) \in Nat
BY SumNat DEF SumFunction

LEMMA SumOfInts ==
  ASSUME NEW f, IsFiniteSet(DOMAIN f), \A x \in DOMAIN f : f[x] \in Int
  PROVE  SumFunction(f) \in Int
BY SumType DEF SumFunction

(* Functions that have the same values have the same sum.                  *)
LEMMA SumOfEqual ==
  ASSUME NEW f, NEW h, DOMAIN h = DOMAIN f, IsFiniteSet(DOMAIN f),
         \A x \in DOMAIN f : f[x] \in Int /\ h[x] = f[x]
  PROVE  SumFunction(h) = SumFunction(f)
<1>1. SumFunctionOnSet(f, DOMAIN f) = SumFunctionOnSet(h, DOMAIN f)
  BY SumSame
<1> QED BY <1>1 DEF SumFunction

(* h is f and a value at y.                                                *)
LEMMA SumOfMore ==
  ASSUME NEW f, NEW h, NEW y, IsFiniteSet(DOMAIN f), y \notin DOMAIN f,
         DOMAIN h = DOMAIN f \cup {y}, h[y] \in Int,
         \A x \in DOMAIN f : f[x] \in Int /\ h[x] = f[x]
  PROVE  SumFunction(h) = SumFunction(f) + h[y]
<1>1. \A x \in DOMAIN f \cup {y} : h[x] \in Int
  OBVIOUS
<1>2. SumFunctionOnSet(h, DOMAIN f \cup {y})
        = SumFunctionOnSet(h, DOMAIN f) + h[y]
  BY <1>1, SumAdd
<1>3. SumFunctionOnSet(h, DOMAIN f) = SumFunctionOnSet(f, DOMAIN f)
  BY SumSame
<1>4. SumFunctionOnSet(h, DOMAIN h) = SumFunctionOnSet(h, DOMAIN f \cup {y})
  BY Zenon
<1> QED BY <1>2, <1>3, <1>4 DEF SumFunction

(* h is f with another value at y.                                         *)
LEMMA SumOfChanged ==
  ASSUME NEW f, NEW h, NEW y, IsFiniteSet(DOMAIN f), y \in DOMAIN f,
         DOMAIN h = DOMAIN f, h[y] \in Int, f[y] \in Int,
         \A x \in DOMAIN f : f[x] \in Int /\ (x # y => h[x] = f[x])
  PROVE  SumFunction(h) = SumFunction(f) - f[y] + h[y]
<1> DEFINE rest == [x \in DOMAIN f \ {y} |-> f[x]]
<1>1. /\ IsFiniteSet(DOMAIN rest) /\ y \notin DOMAIN rest
      /\ \A x \in DOMAIN rest : rest[x] \in Int
                                /\ f[x] = rest[x] /\ h[x] = rest[x]
      /\ DOMAIN f = DOMAIN rest \cup {y} /\ DOMAIN h = DOMAIN rest \cup {y}
  BY FS_Subset
<1> HIDE DEF rest
<1>2. SumFunction(f) = SumFunction(rest) + f[y]
  BY <1>1, SumOfMore
<1>3. SumFunction(h) = SumFunction(rest) + h[y]
  BY <1>1, SumOfMore
<1>4. SumFunction(rest) \in Int
  BY <1>1, SumOfInts
<1> QED BY <1>2, <1>3, <1>4

(* A sum is at most another if each of its values is, and no value of its  *)
(* own but a zero is missing there.                                        *)
LEMMA SumAtMost ==
  ASSUME NEW f, IsFiniteSet(DOMAIN f), \A x \in DOMAIN f : f[x] \in Nat,
         NEW h, IsFiniteSet(DOMAIN h), \A x \in DOMAIN h : h[x] \in Nat,
         \A x \in DOMAIN f : IF x \in DOMAIN h THEN f[x] <= h[x] ELSE f[x] = 0
  PROVE  SumFunction(f) <= SumFunction(h)
<1>1. PICK A : A = DOMAIN f
  OBVIOUS
<1>2. PICK B : B = DOMAIN h
  OBVIOUS
<1> DEFINE S == A \cup B
           F(s) == SumFunctionOnSet(f, s \cap A)
           H(s) == SumFunctionOnSet(h, s \cap B)
           Above == {s \in SUBSET S : ~(F(s) <= H(s))}
<1>3. IsFiniteSet(S)
  BY <1>1, <1>2, FS_Union
<1>4. \A s : /\ IsFiniteSet(s \cap A) /\ \A x \in s \cap A : f[x] \in Int
             /\ IsFiniteSet(s \cap B) /\ \A x \in s \cap B : h[x] \in Int
  BY <1>1, <1>2, FS_Subset
<1>5. \A s : F(s) \in Int /\ H(s) \in Int
  BY <1>4, SumType
<1>6. \A s \in SUBSET S : \A x \in s :
        /\ F(s) = F(s \ {x}) + (IF x \in A THEN f[x] ELSE 0)
        /\ H(s) = H(s \ {x}) + (IF x \in B THEN h[x] ELSE 0)
  <2> SUFFICES ASSUME NEW s \in SUBSET S, NEW x \in s
               PROVE  /\ F(s) = F(s \ {x}) + (IF x \in A THEN f[x] ELSE 0)
                      /\ H(s) = H(s \ {x}) + (IF x \in B THEN h[x] ELSE 0)
    OBVIOUS
  <2>1. PICK t : t = s \ {x}
    OBVIOUS
  <2>2. F(s) = F(t) + (IF x \in A THEN f[x] ELSE 0)
    <3>1. CASE x \in A
      <4>1. PICK u : u = t \cap A
        OBVIOUS
      <4>2. x \notin u /\ s \cap A = u \cup {x} /\ IsFiniteSet(u)
        BY <1>4, <2>1, <3>1, <4>1
      <4>3. \A z \in u \cup {x} : f[z] \in Int
        BY <1>4, <4>2
      <4>4. SumFunctionOnSet(f, u \cup {x}) = SumFunctionOnSet(f, u) + f[x]
        BY <4>2, <4>3, SumAdd
      <4>5. F(s) = SumFunctionOnSet(f, u \cup {x}) /\ F(t) = SumFunctionOnSet(f, u)
        BY <4>1, <4>2, Zenon
      <4> HIDE DEF F
      <4> QED BY <3>1, <4>4, <4>5
    <3>2. CASE x \notin A
      <4>1. s \cap A = t \cap A
        BY <2>1, <3>2
      <4>2. F(s) = F(t)
        BY <4>1, Zenon
      <4>3. F(t) \in Int
        BY <1>5
      <4> HIDE DEF F
      <4> QED BY <3>2, <4>2, <4>3
    <3> QED BY <3>1, <3>2
  <2>3. H(s) = H(t) + (IF x \in B THEN h[x] ELSE 0)
    <3>1. CASE x \in B
      <4>1. PICK u : u = t \cap B
        OBVIOUS
      <4>2. x \notin u /\ s \cap B = u \cup {x} /\ IsFiniteSet(u)
        BY <1>4, <2>1, <3>1, <4>1
      <4>3. \A z \in u \cup {x} : h[z] \in Int
        BY <1>4, <4>2
      <4>4. SumFunctionOnSet(h, u \cup {x}) = SumFunctionOnSet(h, u) + h[x]
        BY <4>2, <4>3, SumAdd
      <4>5. H(s) = SumFunctionOnSet(h, u \cup {x}) /\ H(t) = SumFunctionOnSet(h, u)
        BY <4>1, <4>2, Zenon
      <4> HIDE DEF H
      <4> QED BY <3>1, <4>4, <4>5
    <3>2. CASE x \notin B
      <4>1. s \cap B = t \cap B
        BY <2>1, <3>2
      <4>2. H(s) = H(t)
        BY <4>1, Zenon
      <4>3. H(t) \in Int
        BY <1>5
      <4> HIDE DEF H
      <4> QED BY <3>2, <4>2, <4>3
    <3> QED BY <3>1, <3>2
  <2> HIDE DEF F, H
  <2> QED BY <2>1, <2>2, <2>3
<1>7. F({}) = 0 /\ H({}) = 0
  <2>1. {} \cap A = {} /\ {} \cap B = {}
    OBVIOUS
  <2> QED BY <2>1, SumEmpty
<1>8. \A x \in S : (IF x \in A THEN f[x] ELSE 0) <= (IF x \in B THEN h[x] ELSE 0)
                   /\ (x \in A => f[x] \in Int) /\ (x \in B => h[x] \in Int)
  BY <1>1, <1>2
<1>9. Above = {}
  <2> SUFFICES ASSUME Above # {} PROVE FALSE
    OBVIOUS
  <2>1. PICK s \in Above : \A x \in s : s \ {x} \notin Above
    BY <1>3, SmallestSet
  <2> HIDE DEF F, H
  <2>2. PICK x \in s : TRUE
    BY <1>7, <2>1
  <2>3. PICK t : t = s \ {x}
    OBVIOUS
  <2>4. F(t) <= H(t)
    BY <2>1, <2>2, <2>3
  <2>5. /\ F(s) = F(t) + (IF x \in A THEN f[x] ELSE 0)
        /\ H(s) = H(t) + (IF x \in B THEN h[x] ELSE 0)
    BY <1>6, <2>1, <2>2, <2>3
  <2>6. x \in S
    BY <2>1, <2>2
  <2>7. F(t) \in Int /\ H(t) \in Int
    BY <1>5
  <2>8. F(s) <= H(s)
    BY <1>8, <2>4, <2>5, <2>6, <2>7
  <2> QED BY <2>1, <2>8
<1>10. S \cap A = A /\ S \cap B = B
  OBVIOUS
<1>11. F(S) = SumFunctionOnSet(f, A) /\ H(S) = SumFunctionOnSet(h, B)
  BY <1>10, Zenon
<1>12. F(S) <= H(S)
  BY <1>9
<1>13. SumFunction(f) = F(S) /\ SumFunction(h) = H(S)
  BY <1>1, <1>2, <1>11, Zenon DEF SumFunction
<1> HIDE DEF F, H
<1> QED BY <1>12, <1>13

(* A linear inequality between the values of functions holds of their sums.*)
LEMMA SumsKeepInequality ==
  ASSUME NEW S, IsFiniteSet(S),
         NEW a \in Int, NEW b \in Int, NEW m \in Int, NEW n \in Int,
         NEW f, NEW g, NEW u, NEW v,
         \A x \in S : /\ f[x] \in Int /\ g[x] \in Int
                      /\ u[x] \in Int /\ v[x] \in Int
                      /\ a * f[x] <= b * g[x] + m * u[x] + n * v[x]
  PROVE  a * SumFunctionOnSet(f, S)
           <= b * SumFunctionOnSet(g, S)
                + m * SumFunctionOnSet(u, S) + n * SumFunctionOnSet(v, S)
<1> DEFINE F(s) == SumFunctionOnSet(f, s)
           G(s) == SumFunctionOnSet(g, s)
           U(s) == SumFunctionOnSet(u, s)
           V(s) == SumFunctionOnSet(v, s)
           Fails == {s \in SUBSET S :
                       ~(a * F(s) <= b * G(s) + m * U(s) + n * V(s))}
<1> SUFFICES ASSUME Fails # {} PROVE FALSE
  OBVIOUS
<1>1. PICK s \in Fails : \A x \in s : s \ {x} \notin Fails
  BY SmallestSet
<1>2. F({}) = 0 /\ G({}) = 0 /\ U({}) = 0 /\ V({}) = 0
  BY SumEmpty
<1>3. s # {}
  <2> HIDE DEF F, G, U, V
  <2>1. a * 0 <= b * 0 + m * 0 + n * 0
    OBVIOUS
  <2> QED BY <1>1, <1>2, <2>1
<1>4. PICK x \in s : TRUE
  BY <1>3
<1>5. PICK t : t = s \ {x}
  OBVIOUS
<1>6. /\ IsFiniteSet(t) /\ x \notin t /\ t \cup {x} = s /\ t \in SUBSET S
      /\ x \in S
  BY <1>1, <1>4, <1>5, FS_Subset
<1>7. F(t) \in Int /\ G(t) \in Int /\ U(t) \in Int /\ V(t) \in Int
  BY <1>6, SumType
<1>8. F(t \cup {x}) = F(t) + f[x]
  BY <1>6, SumAdd
<1>9. G(t \cup {x}) = G(t) + g[x]
  BY <1>6, SumAdd
<1>10. U(t \cup {x}) = U(t) + u[x]
  BY <1>6, SumAdd
<1>11. V(t \cup {x}) = V(t) + v[x]
  BY <1>6, SumAdd
<1> HIDE DEF F, G, U, V
<1>12. a * F(t) <= b * G(t) + m * U(t) + n * V(t)
  BY <1>1, <1>4, <1>5, <1>6
<1>13. /\ F(s) = F(t) + f[x] /\ G(s) = G(t) + g[x]
       /\ U(s) = U(t) + u[x] /\ V(s) = V(t) + v[x]
  BY <1>6, <1>8, <1>9, <1>10, <1>11
<1>14. /\ f[x] \in Int /\ g[x] \in Int /\ u[x] \in Int /\ v[x] \in Int
       /\ a * f[x] <= b * g[x] + m * u[x] + n * v[x]
  BY <1>6
<1>15. a * (F(t) + f[x])
         <= b * (G(t) + g[x]) + m * (U(t) + u[x]) + n * (V(t) + v[x])
  <2>1. /\ a * (F(t) + f[x]) = a * F(t) + a * f[x]
        /\ b * (G(t) + g[x]) = b * G(t) + b * g[x]
        /\ m * (U(t) + u[x]) = m * U(t) + m * u[x]
        /\ n * (V(t) + v[x]) = n * V(t) + n * v[x]
    BY <1>7, <1>14
  <2>2. /\ a * F(t) \in Int /\ a * f[x] \in Int
        /\ b * G(t) \in Int /\ b * g[x] \in Int
        /\ m * U(t) \in Int /\ m * u[x] \in Int
        /\ n * V(t) \in Int /\ n * v[x] \in Int
    BY <1>7, <1>14
  <2> QED BY <1>12, <1>14, <2>1, <2>2
<1> QED BY <1>1, <1>13, <1>15

(* A sum of ones and zeros counts the ones.                                *)
LEMMA SumOfOnes ==
  ASSUME NEW S, IsFiniteSet(S), NEW f, \A x \in S : f[x] \in {0, 1}
  PROVE  SumFunctionOnSet(f, S) = Cardinality({x \in S : f[x] = 1})
<1> DEFINE C(s) == Cardinality({x \in s : f[x] = 1})
           Fails == {s \in SUBSET S : SumFunctionOnSet(f, s) # C(s)}
<1> SUFFICES ASSUME Fails # {} PROVE FALSE
  OBVIOUS
<1>1. PICK s \in Fails : \A x \in s : s \ {x} \notin Fails
  BY SmallestSet
<1>2. s # {}
  <2>1. {x \in {} : f[x] = 1} = {}
    OBVIOUS
  <2>2. Cardinality({}) = 0 /\ SumFunctionOnSet(f, {}) = 0
    BY FS_EmptySet, SumEmpty
  <2>3. C({}) = 0
    BY <2>1, <2>2, Zenon
  <2> HIDE DEF C
  <2> QED BY <1>1, <2>2, <2>3
<1>3. PICK x \in s : TRUE
  BY <1>2
<1>4. PICK t : t = s \ {x}
  OBVIOUS
<1>5. /\ IsFiniteSet(t) /\ x \notin t /\ t \cup {x} = s /\ t \in SUBSET S
      /\ x \in S /\ t \notin Fails
  BY <1>1, <1>3, <1>4, FS_Subset
<1>6. SumFunctionOnSet(f, t \cup {x}) = SumFunctionOnSet(f, t) + f[x]
  <2>1. \A y \in t \cup {x} : f[y] \in Int
    BY <1>5
  <2> QED BY <1>5, <2>1, SumAdd
<1>7. PICK T : T = {y \in t : f[y] = 1}
  OBVIOUS
<1>8. IsFiniteSet(T) /\ x \notin T
  BY <1>5, <1>7, FS_Subset
<1>9. Cardinality(T \cup {x}) = Cardinality(T) + 1 /\ Cardinality(T) \in Nat
  BY <1>8, FS_AddElement, FS_CardinalityType
<1>10. C(t) = Cardinality(T)
  BY <1>7, Zenon
<1>11. SumFunctionOnSet(f, t) = C(t)
  BY <1>5
<1>12. SumFunctionOnSet(f, s) = SumFunctionOnSet(f, t) + f[x]
  BY <1>5, <1>6, Zenon
<1>13. CASE f[x] = 1
  <2>1. {y \in s : f[y] = 1} = T \cup {x}
    BY <1>5, <1>7, <1>13
  <2>2. C(s) = Cardinality(T \cup {x})
    BY <2>1, Zenon
  <2> HIDE DEF C
  <2> QED BY <1>1, <1>9, <1>10, <1>11, <1>12, <1>13, <2>2
<1>14. CASE f[x] = 0
  <2>1. {y \in s : f[y] = 1} = T
    BY <1>5, <1>7, <1>14
  <2>2. C(s) = Cardinality(T)
    BY <2>1, Zenon
  <2> HIDE DEF C
  <2> QED BY <1>1, <1>9, <1>10, <1>11, <1>12, <1>14, <2>2
<1> QED BY <1>5, <1>13, <1>14

(* Zeros add nothing.                                                      *)
LEMMA SumOfNonZero ==
  ASSUME NEW f, IsFiniteSet(DOMAIN f), \A x \in DOMAIN f : f[x] \in Nat,
         NEW h, IsFiniteSet(DOMAIN h), \A x \in DOMAIN h : h[x] \in Nat,
         DOMAIN f \subseteq DOMAIN h,
         \A x \in DOMAIN h : h[x] = IF x \in DOMAIN f THEN f[x] ELSE 0
  PROVE  SumFunction(h) = SumFunction(f)
<1>1. SumFunction(f) <= SumFunction(h)
  <2>1. \A x \in DOMAIN f : IF x \in DOMAIN h THEN f[x] <= h[x] ELSE f[x] = 0
    OBVIOUS
  <2> QED BY <2>1, SumAtMost
<1>2. SumFunction(h) <= SumFunction(f)
  <2>1. \A x \in DOMAIN h : IF x \in DOMAIN f THEN h[x] <= f[x] ELSE h[x] = 0
    OBVIOUS
  <2> QED BY <2>1, SumAtMost
<1>3. SumFunction(f) \in Nat /\ SumFunction(h) \in Nat
  BY SumOfNats
<1> QED BY <1>1, <1>2, <1>3

(* No natural is more than a sum it is in.                                 *)
LEMMA SumBoundsValue ==
  ASSUME NEW f, IsFiniteSet(DOMAIN f), \A x \in DOMAIN f : f[x] \in Nat,
         NEW y \in DOMAIN f
  PROVE  f[y] <= SumFunction(f)
<1> DEFINE none == [x \in {} |-> 0]
           one == [x \in {y} |-> f[y]]
<1>1. SumFunction(one) = SumFunction(none) + one[y]
  <2>1. /\ DOMAIN none = {} /\ y \notin DOMAIN none /\ DOMAIN one = DOMAIN none \cup {y}
        /\ one[y] \in Int /\ \A x \in DOMAIN none : none[x] \in Int /\ one[x] = none[x]
    OBVIOUS
  <2>2. IsFiniteSet(DOMAIN none)
    BY <2>1, FS_EmptySet
  <2> HIDE DEF none, one
  <2> QED BY <2>1, <2>2, SumOfMore
<1>2. SumFunction(none) = 0
  BY SumOfNone
<1>3. SumFunction(one) <= SumFunction(f)
  <2>1. /\ DOMAIN one = {y} /\ \A x \in DOMAIN one : one[x] \in Nat
        /\ \A x \in DOMAIN one : IF x \in DOMAIN f THEN one[x] <= f[x] ELSE one[x] = 0
    OBVIOUS
  <2>2. IsFiniteSet(DOMAIN one)
    BY <2>1, FS_Singleton
  <2> HIDE DEF one
  <2> QED BY <2>1, <2>2, SumAtMost
<1>4. one[y] = f[y] /\ f[y] \in Nat
  OBVIOUS
<1> HIDE DEF one, none
<1> QED BY <1>1, <1>2, <1>3, <1>4
=============================================================================
