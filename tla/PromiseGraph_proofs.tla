------------------------- MODULE PromiseGraph_proofs -------------------------
(***************************************************************************)
(* Theorems about the engine's operators, for any orders, ingredients,     *)
(* claims and deliveries.                                                  *)
(***************************************************************************)
EXTENDS PromiseGraph, FiniteSetTheorems, WellFoundedInduction, TLAPS

-----------------------------------------------------------------------------
(* Sums.  A total takes its elements in an order of its own; a sum is one  *)
(* that does not depend on it.                                             *)

\* g gives every part of S its sum of f: taking any element away takes its amount away.
Sums(g, f, S) ==
    /\ g \in [SUBSET S -> Int]
    /\ g[{}] = 0
    /\ \A s \in SUBSET S : \A x \in s : g[s] = g[s \ {x}] + f[x]

LEMMA SmallestPart ==
  ASSUME NEW S, IsFiniteSet(S), NEW T, T \subseteq SUBSET S, T # {}
  PROVE  \E s \in T : \A u \in T : u \subseteq s => u = s
  <1>1. IsWellFoundedOn(StrictSubsetOrdering(S), SUBSET S)
    BY FS_StrictSubsetOrderingWellFounded, FS_FiniteSubsetsOfFinite
  <1>2. PICK s \in T : \A u \in T : <<u, s>> \notin StrictSubsetOrdering(S)
    BY <1>1, WFMin
  <1> QED BY <1>2 DEF StrictSubsetOrdering

LEMMA SumsExist ==
  ASSUME NEW S, IsFiniteSet(S), NEW f, \A x \in S : f[x] \in Int
  PROVE  \E g : Sums(g, f, S)
  <1> DEFINE Without == {s \in SUBSET S : ~ \E g : Sums(g, f, s)}
  <1>1. SUFFICES ASSUME Without # {} PROVE FALSE
    <2>1. S \in SUBSET S
      OBVIOUS
    <2> QED BY <2>1, Zenon
  <1>2. PICK s \in Without : \A u \in Without : u \subseteq s => u = s
    <2>1. Without \subseteq SUBSET S
      OBVIOUS
    <2> HIDE DEF Without
    <2> QED BY <1>1, <2>1, SmallestPart
  <1>3. s # {}
    <2> DEFINE none == [x \in {{}} |-> 0]
    <2>1. Sums(none, f, {})
      BY DEF Sums
    <2> QED BY <2>1, <1>2
  <1>4. PICK a \in s : TRUE
    BY <1>3
  <1>5. PICK g : Sums(g, f, s \ {a})
    BY <1>2, <1>4
  <1> DEFINE h == [u \in SUBSET s |-> IF a \in u THEN g[u \ {a}] + f[a] ELSE g[u]]
  <1>6. s \in SUBSET S /\ f[a] \in Int
    BY <1>4
  <1>7. /\ \A u \in SUBSET s : a \notin u => h[u] = g[u] /\ g[u] \in Int
        /\ \A u \in SUBSET s : a \in u => h[u] = g[u \ {a}] + f[a] /\ g[u \ {a}] \in Int
    <2>1. \A u \in SUBSET s : a \notin u => u \in SUBSET (s \ {a})
      OBVIOUS
    <2>2. \A u \in SUBSET s : u \ {a} \in SUBSET (s \ {a})
      OBVIOUS
    <2> QED BY <1>5, <2>1, <2>2 DEF Sums
  <1>8. h \in [SUBSET s -> Int] /\ h[{}] = 0
    BY <1>5, <1>6, <1>7 DEF Sums
  <1> HIDE DEF h
  <1>9. ASSUME NEW u \in SUBSET s, NEW x \in u
        PROVE  h[u] = h[u \ {x}] + f[x]
    <2>1. CASE a \notin u
      <3>1. u \in SUBSET (s \ {a})
        BY <2>1
      <3>2. g[u] = g[u \ {x}] + f[x]
        BY <1>5, <3>1 DEF Sums
      <3> QED BY <1>7, <2>1, <3>2
    <2>2. CASE x = a
      BY <1>7, <2>2
    <2>3. CASE a \in u /\ x # a
      <3>1. /\ u \ {a} \in SUBSET (s \ {a}) /\ x \in u \ {a}
            /\ (u \ {a}) \ {x} = (u \ {x}) \ {a}
        BY <2>3
      <3>2. g[u \ {a}] = g[(u \ {x}) \ {a}] + f[x]
        <4>1. \A w \in SUBSET (s \ {a}) : \A y \in w : g[w] = g[w \ {y}] + f[y]
          BY <1>5 DEF Sums
        <4>2. g[u \ {a}] = g[(u \ {a}) \ {x}] + f[x]
          BY <3>1, <4>1
        <4> QED BY <3>1, <4>2
      <3>3. /\ h[u] = g[u \ {a}] + f[a]
            /\ h[u \ {x}] = g[(u \ {x}) \ {a}] + f[a]
            /\ g[(u \ {x}) \ {a}] \in Int
        <4>1. u \in SUBSET s /\ u \ {x} \in SUBSET s /\ a \in u /\ a \in u \ {x}
          BY <2>3
        <4>2. (u \ {x}) \ {a} \in SUBSET (s \ {a})
          OBVIOUS
        <4> QED BY <1>5, <1>7, <4>1, <4>2 DEF Sums
      <3>4. f[x] \in Int
        BY <1>6
      <3> QED BY <1>6, <3>2, <3>3, <3>4
    <2> QED BY <2>1, <2>2, <2>3
  <1>10. Sums(h, f, s)
    BY <1>8, <1>9 DEF Sums
  <1> QED BY <1>2, <1>10

\* Whatever order the total takes the elements in, it ends at the sum.
LEMMA TotalIsSum ==
  ASSUME NEW S, IsFiniteSet(S), NEW f, \A x \in S : f[x] \in Int, NEW g, Sums(g, f, S)
  PROVE  Total(f, S) = g[S]
  <1> DEFINE F(h) == [s \in SUBSET S |->
                        IF s = {} THEN 0
                        ELSE f[CHOOSE x \in s : TRUE] + h[s \ {CHOOSE x \in s : TRUE}]]
             iter == CHOOSE h : h = F(h)
  <1>1. g = F(g)
    <2>1. ASSUME NEW s \in SUBSET S, s # {}
          PROVE  g[s] = f[CHOOSE x \in s : TRUE] + g[s \ {CHOOSE x \in s : TRUE}]
      <3>1. (CHOOSE x \in s : TRUE) \in s
        BY <2>1
      <3>2. PICK x \in s : x = CHOOSE y \in s : TRUE
        BY <3>1
      <3>3. g[s] = g[s \ {x}] + f[x] /\ g[s \ {x}] \in Int /\ f[x] \in Int
        BY DEF Sums
      <3> QED BY <3>2, <3>3
    <2> QED BY <2>1 DEF Sums
  <1>2. iter = F(iter)
    BY <1>1
  <1> DEFINE Apart == {s \in SUBSET S : iter[s] # g[s]}
  <1> HIDE DEF iter
  <1>3. Apart = {}
    <2>1. SUFFICES ASSUME Apart # {} PROVE FALSE
      OBVIOUS
    <2>2. PICK s \in Apart : \A u \in Apart : u \subseteq s => u = s
      <3>1. Apart \subseteq SUBSET S
        OBVIOUS
      <3> HIDE DEF Apart
      <3> QED BY <2>1, <3>1, SmallestPart
    <2>3. s # {}
      BY <1>1, <1>2, <2>2
    <2>4. PICK x : x = (CHOOSE y \in s : TRUE) /\ x \in s
      BY <2>3
    <2>5. iter[s \ {x}] = g[s \ {x}]
      BY <2>2, <2>4
    <2>6. g[s] = f[x] + g[s \ {x}]
      <3> HIDE DEF Sums
      <3>1. g[s] = F(g)[s]
        BY <1>1, Zenon
      <3> QED BY <2>2, <2>3, <2>4, <3>1
    <2>7. iter[s] = f[x] + iter[s \ {x}]
      <3>1. iter[s] = F(iter)[s]
        BY <1>2, Zenon
      <3> QED BY <2>2, <2>3, <2>4, <3>1
    <2> QED BY <2>2, <2>5, <2>6, <2>7
  <1>4. iter[S] = g[S]
    BY <1>3
  <1> QED BY <1>4 DEF Total, MapThenSumSet, MapThenFoldSet, iter

\* What a total is made of.
LEMMA TotalOf ==
  ASSUME NEW S, IsFiniteSet(S), NEW f, \A x \in S : f[x] \in Int
  PROVE  /\ Total(f, {}) = 0
         /\ \A s \in SUBSET S : /\ Total(f, s) \in Int
                                /\ \A x \in s : Total(f, s) = Total(f, s \ {x}) + f[x]
  <1>1. PICK g : Sums(g, f, S)
    BY SumsExist
  <1>2. ASSUME NEW s \in SUBSET S PROVE Total(f, s) = g[s]
    <2>1. Sums([u \in SUBSET s |-> g[u]], f, s)
      <3>1. \A u \in SUBSET s : g[u] \in Int /\ \A x \in u : g[u] = g[u \ {x}] + f[x]
        BY <1>1 DEF Sums
      <3>2. g[{}] = 0
        BY <1>1 DEF Sums
      <3>3. \A u \in SUBSET s : \A x \in u : u \ {x} \in SUBSET s
        OBVIOUS
      <3> QED BY <3>1, <3>2, <3>3 DEF Sums
    <2>2. IsFiniteSet(s) /\ \A x \in s : f[x] \in Int
      BY FS_Subset
    <2>3. Total(f, s) = [u \in SUBSET s |-> g[u]][s]
      BY <2>1, <2>2, TotalIsSum
    <2> QED BY <2>3
  <1>3. /\ g[{}] = 0
        /\ \A s \in SUBSET S : g[s] \in Int /\ \A x \in s : g[s] = g[s \ {x}] + f[x]
    BY <1>1 DEF Sums
  <1>4. {} \in SUBSET S /\ \A s \in SUBSET S : \A x \in s : s \ {x} \in SUBSET S
    OBVIOUS
  <1> QED BY <1>2, <1>3, <1>4

LEMMA TotalSame ==
  ASSUME NEW S, IsFiniteSet(S), NEW f, NEW h, \A x \in S : f[x] \in Int /\ f[x] = h[x]
  PROVE  Total(f, S) = Total(h, S)
  <1> DEFINE Apart == {s \in SUBSET S : Total(f, s) # Total(h, s)}
  <1>1. /\ Total(f, {}) = 0 /\ Total(h, {}) = 0
        /\ \A s \in SUBSET S : \A x \in s : /\ Total(f, s) = Total(f, s \ {x}) + f[x]
                                            /\ Total(h, s) = Total(h, s \ {x}) + f[x]
    BY TotalOf
  <1>2. SUFFICES ASSUME Apart # {} PROVE FALSE
    <2>1. S \in SUBSET S
      OBVIOUS
    <2> QED BY <2>1
  <1>3. PICK s \in Apart : \A u \in Apart : u \subseteq s => u = s
    <2>1. Apart \subseteq SUBSET S
      OBVIOUS
    <2> HIDE DEF Apart
    <2> QED BY <1>2, <2>1, SmallestPart
  <1>4. PICK x \in s : TRUE
    BY <1>1, <1>3
  <1>5. Total(f, s \ {x}) = Total(h, s \ {x})
    BY <1>3, <1>4
  <1> QED BY <1>1, <1>3, <1>4, <1>5

\* A part of what is not negative is not negative and no more than the whole.
LEMMA TotalGrows ==
  ASSUME NEW S, IsFiniteSet(S), NEW f, \A x \in S : f[x] \in Nat, NEW T \in SUBSET S
  PROVE  0 <= Total(f, T) /\ Total(f, T) <= Total(f, S)
  <1>0. \A x \in S : f[x] \in Int
    OBVIOUS
  <1>1. ASSUME NEW P \in SUBSET S, NEW W \in SUBSET S, P \subseteq W
        PROVE  Total(f, P) <= Total(f, W)
    <2> DEFINE Less == {s \in SUBSET W : P \subseteq s /\ ~(Total(f, P) <= Total(f, s))}
    <2>1. \A s \in SUBSET W : /\ Total(f, s) \in Int
                              /\ \A x \in s : Total(f, s) = Total(f, s \ {x}) + f[x]
      BY <1>0, TotalOf
    <2>2. SUFFICES ASSUME Less # {} PROVE FALSE
      <3>1. W \in SUBSET W
        OBVIOUS
      <3> QED BY <1>1, <3>1
    <2>3. PICK s \in Less : \A u \in Less : u \subseteq s => u = s
      <3>1. Less \subseteq SUBSET W /\ IsFiniteSet(W)
        BY FS_Subset
      <3> HIDE DEF Less
      <3> QED BY <2>2, <3>1, SmallestPart
    <2>4. s # P
      BY <2>1, <2>3
    <2>5. PICK x \in s : x \notin P
      BY <2>3, <2>4
    <2>6. Total(f, P) <= Total(f, s \ {x})
      BY <2>3, <2>5
    <2>7. /\ Total(f, s) = Total(f, s \ {x}) + f[x]
          /\ Total(f, s \ {x}) \in Int /\ Total(f, P) \in Int /\ f[x] \in Nat
      <3>1. s \in SUBSET W /\ s \ {x} \in SUBSET W /\ P \in SUBSET W
        BY <1>1, <2>3
      <3> QED BY <2>1, <3>1
    <2> QED BY <2>3, <2>6, <2>7
  <1>2. Total(f, {}) <= Total(f, T) /\ Total(f, {}) = 0
    <2>1. {} \in SUBSET S
      OBVIOUS
    <2> QED BY <1>0, <1>1, <2>1, TotalOf
  <1>3. Total(f, T) <= Total(f, S)
    <2>1. S \in SUBSET S
      OBVIOUS
    <2> QED BY <1>1, <2>1
  <1> QED BY <1>2, <1>3

-----------------------------------------------------------------------------
(* Finite sets in an order, and what is defined along it.                  *)

InOrder(R, S) ==
    /\ \A x \in S : <<x, x>> \notin R
    /\ \A x, y, z \in S : <<x, y>> \in R /\ <<y, z>> \in R => <<x, z>> \in R

Below(R, S, x) == {y \in S : <<y, x>> \in R}

LEMMA FirstExists ==
  ASSUME NEW R, NEW S, IsFiniteSet(S), InOrder(R, S), NEW T, T \subseteq S, T # {}
  PROVE  \E x \in T : \A y \in T : <<y, x>> \notin R
  <1> DEFINE Belows == {Below(R, T, x) : x \in T}
  <1>1. PICK b \in Belows : \A u \in Belows : u \subseteq b => u = b
    <2>1. Belows \subseteq SUBSET S /\ Belows # {}
      BY DEF Below
    <2> HIDE DEF Belows
    <2> QED BY <2>1, SmallestPart
  <1>2. PICK x \in T : b = Below(R, T, x)
    BY <1>1
  <1>3. ASSUME NEW y \in T, <<y, x>> \in R PROVE FALSE
    <2>1. Below(R, T, y) \subseteq b /\ y \in b /\ y \notin Below(R, T, y)
      BY <1>2, <1>3 DEF InOrder, Below
    <2>2. Below(R, T, y) \in Belows
      OBVIOUS
    <2> QED BY <1>1, <2>1, <2>2
  <1> QED BY <1>3

LEMMA LastExists ==
  ASSUME NEW R, NEW S, IsFiniteSet(S), InOrder(R, S), NEW T, T \subseteq S, T # {}
  PROVE  \E x \in T : \A y \in T : <<x, y>> \notin R
  <1> DEFINE Q == {p \in S \X S : <<p[2], p[1]>> \in R}
  <1>1. \A x, y \in S : <<x, y>> \in Q <=> <<y, x>> \in R
    OBVIOUS
  <1> HIDE DEF Q
  <1>2. InOrder(Q, S)
    BY <1>1 DEF InOrder
  <1>3. PICK x \in T : \A y \in T : <<y, x>> \notin Q
    BY <1>2, FirstExists
  <1> QED BY <1>1, <1>3

\* A definition that looks only below defines a function.  G takes an element and what is
\* defined below it.
Follows(f, G, R, S) == \A x \in S : f[x] = G[x][[y \in Below(R, S, x) |-> f[y]]]

LEMMA DefinedAlong ==
  ASSUME NEW R, NEW S, IsFiniteSet(S), InOrder(R, S), NEW V, NEW G,
         \A x \in S : \A h \in [Below(R, S, x) -> V] : G[x][h] \in V
  PROVE  \E f \in [S -> V] : Follows(f, G, R, S)
  <1> DEFINE Closed(D) == \A x \in D : Below(R, S, x) \subseteq D
             Defined(D) == \E f \in [D -> V] :
                              \A x \in D : f[x] = G[x][[y \in Below(R, S, x) |-> f[y]]]
             Without == {D \in SUBSET S : Closed(D) /\ ~Defined(D)}
  <1>1. SUFFICES ASSUME Without # {} PROVE FALSE
    <2>1. S \in SUBSET S /\ Closed(S)
      BY DEF Below
    <2> HIDE DEF Closed
    <2>2. Defined(S)
      BY <2>1
    <2> QED BY <2>2 DEF Follows
  <1>2. PICK D \in Without : \A u \in Without : u \subseteq D => u = D
    <2>1. Without \subseteq SUBSET S
      OBVIOUS
    <2> HIDE DEF Without
    <2> QED BY <1>1, <2>1, SmallestPart
  <1>3. D \in SUBSET S /\ Closed(D) /\ ~Defined(D)
    <2> HIDE DEF Closed, Defined
    <2> QED BY <1>2
  <1>4. D # {}
    <2>1. Defined({})
      <3> DEFINE none == [x \in {} |-> x]
      <3>1. none \in [{} -> V]
        OBVIOUS
      <3> QED BY <3>1
    <2> HIDE DEF Defined
    <2> QED BY <1>3, <2>1
  <1>5. PICK e \in D : \A y \in D : <<e, y>> \notin R
    BY <1>3, <1>4, LastExists
  <1>6. Closed(D \ {e})
    BY <1>3, <1>5 DEF Below
  <1>7. Defined(D \ {e})
    <2>1. D \ {e} \in SUBSET S /\ D \ {e} \subseteq D /\ D \ {e} # D
      BY <1>3, <1>5
    <2> HIDE DEF Closed, Defined
    <2> QED BY <1>2, <1>6, <2>1
  <1>8. PICK f \in [D \ {e} -> V] :
          \A x \in D \ {e} : f[x] = G[x][[y \in Below(R, S, x) |-> f[y]]]
    BY <1>7
  <1> DEFINE last == G[e][[y \in Below(R, S, e) |-> f[y]]]
             h == [x \in D |-> IF x = e THEN last ELSE f[x]]
  <1>9. \A x \in D : Below(R, S, x) \subseteq D \ {e}
    BY <1>3, <1>5 DEF Below
  <1>10. last \in V
    <2>1. [y \in Below(R, S, e) |-> f[y]] \in [Below(R, S, e) -> V]
      BY <1>5, <1>9
    <2> QED BY <1>3, <1>5, <2>1
  <1>11. h \in [D -> V]
    <2> HIDE DEF last
    <2> QED BY <1>8, <1>10
  <1>12. ASSUME NEW x \in D
         PROVE  h[x] = G[x][[y \in Below(R, S, x) |-> h[y]]]
    <2>1. [y \in Below(R, S, x) |-> h[y]] = [y \in Below(R, S, x) |-> f[y]]
      <3>1. \A y \in Below(R, S, x) : h[y] = f[y]
        BY <1>9
      <3> HIDE DEF h
      <3> QED BY <3>1
    <2>2. h[x] = G[x][[y \in Below(R, S, x) |-> f[y]]]
      BY <1>8
    <2> HIDE DEF h
    <2> QED BY <2>1, <2>2
  <1>13. Defined(D)
    <2> HIDE DEF h
    <2> QED BY <1>11, <1>12
  <1> QED BY <1>3, <1>13

-----------------------------------------------------------------------------
(* Allocation.  The engine looks at finitely many claims whose starts are  *)
(* known, and supplies that are numbers.                                   *)

ClaimKinds == {"candidate", "committed", "reserved", "recovered", "revalidate"}
Claims == [order : Orders, need : Nat, kind : ClaimKinds]

Scheduled(claims) ==
    /\ claims \in SUBSET Claims
    /\ IsFiniteSet(claims)
    /\ \A c \in claims : Start[c.order] # Unknown

\* No two of them have one place in the order.
Distinct(claims) == \A c, d \in claims : c.order = d.order /\ c.kind = d.kind => c = d

Ahead(claims, c) == {d \in claims : Before(d, c)}

Earlier(claims) == {p \in claims \X claims : Before(p[1], p[2])}

LEMMA RankIsOneToOne ==
  /\ \A k \in ClaimKinds : Rank[k] \in Nat
  /\ \A j, k \in ClaimKinds : Rank[j] = Rank[k] => j = k
  BY DEF ClaimKinds, Rank

LEMMA ClaimsAreOrdered ==
  ASSUME NEW claims, Scheduled(claims)
  PROVE  /\ InOrder(Earlier(claims), claims)
         /\ \A c \in claims : /\ Below(Earlier(claims), claims, c) = Ahead(claims, c)
                              /\ Ahead(claims, c) \in SUBSET claims
                              /\ IsFiniteSet(Ahead(claims, c))
                              /\ c \notin Ahead(claims, c)
         /\ \A c, d \in claims : c \in Ahead(claims, d) => Start[c.order] <= Start[d.order]
         /\ \A b, c, d \in claims :
              b \in Ahead(claims, c) /\ c \in Ahead(claims, d) => b \in Ahead(claims, d)
         /\ Distinct(claims) =>
              \A c, d \in claims : c = d \/ c \in Ahead(claims, d) \/ d \in Ahead(claims, c)
  <1>1. \A c \in claims : /\ Start[c.order] \in Nat /\ c.order \in Nat
                          /\ c.kind \in ClaimKinds /\ Rank[c.kind] \in Nat
    <2> SUFFICES ASSUME NEW c \in claims
                 PROVE  /\ Start[c.order] \in Nat /\ c.order \in Nat
                        /\ c.kind \in ClaimKinds /\ Rank[c.kind] \in Nat
      OBVIOUS
    <2>1. c \in Claims /\ Start[c.order] # Unknown
      BY DEF Scheduled
    <2>2. c.order \in Orders /\ c.kind \in ClaimKinds
      BY <2>1 DEF Claims
    <2> QED BY <2>1, <2>2, GraphAssumption, RankIsOneToOne
  <1>2. \A c \in claims : ~Before(c, c)
    BY <1>1 DEF Before
  <1>3. \A b, c, d \in claims : Before(b, c) /\ Before(c, d) => Before(b, d)
    <2> SUFFICES ASSUME NEW b \in claims, NEW c \in claims, NEW d \in claims,
                        Before(b, c), Before(c, d)
                 PROVE  Before(b, d)
      OBVIOUS
    <2> QED BY <1>1 DEF Before
  <1>4. \A c, d \in claims : Before(c, d) => Start[c.order] <= Start[d.order]
    BY <1>1 DEF Before
  <1>5. ASSUME Distinct(claims), NEW c \in claims, NEW d \in claims, c # d
        PROVE  Before(c, d) \/ Before(d, c)
    <2>1. c.order # d.order \/ Rank[c.kind] # Rank[d.kind]
      BY <1>1, <1>5, RankIsOneToOne DEF Distinct
    <2> QED BY <1>1, <2>1 DEF Before
  <1>6. InOrder(Earlier(claims), claims)
    BY <1>2, <1>3 DEF InOrder, Earlier
  <1>7. \A c \in claims : /\ Below(Earlier(claims), claims, c) = Ahead(claims, c)
                          /\ Ahead(claims, c) \in SUBSET claims
                          /\ c \notin Ahead(claims, c)
    BY <1>2 DEF Below, Earlier, Ahead
  <1>8. \A c \in claims : IsFiniteSet(Ahead(claims, c))
    BY <1>7, FS_Subset DEF Scheduled
  <1> HIDE DEF Scheduled
  <1>9. \A c, d \in claims : c \in Ahead(claims, d) <=> Before(c, d)
    BY DEF Ahead
  <1> QED BY <1>3, <1>4, <1>5, <1>6, <1>7, <1>8, <1>9

LEMMA MinOfTwo ==
  \A a, b \in Int : Min({a, b}) = IF a <= b THEN a ELSE b
  <1> SUFFICES ASSUME NEW a \in Int, NEW b \in Int
               PROVE  Min({a, b}) = IF a <= b THEN a ELSE b
    OBVIOUS
  <1> DEFINE m == IF a <= b THEN a ELSE b
  <1>1. m \in {a, b} /\ \A y \in {a, b} : m <= y
    OBVIOUS
  <1>2. \A x \in {a, b} : (\A y \in {a, b} : x <= y) => x = m
    OBVIOUS
  <1> QED BY <1>1, <1>2 DEF Min

\* What is left for a claim when its turn comes.
Left(g, r, claims, c) ==
    Supply(g, r, Start[c.order]) - Total(Allocate(g, r, claims), Ahead(claims, c))

Supplied(g, r) == \A at \in Nat : Supply(g, r, at) \in Int

\* Each claim takes what it needs of what the earlier ones left, or all of it, or nothing.
LEMMA AllocateTakes ==
  ASSUME NEW g, NEW r, NEW claims, Scheduled(claims), Supplied(g, r)
  PROVE  LET take == Allocate(g, r, claims)
         IN  /\ take \in [claims -> Nat]
             /\ \A c \in claims :
                  /\ Left(g, r, claims, c) \in Int
                  /\ take[c] = IF Left(g, r, claims, c) > 0
                               THEN Min({c.need, Left(g, r, claims, c)}) ELSE 0
  <1> DEFINE left(h, c) == Supply(g, r, Start[c.order]) - Total(h, Ahead(claims, c))
             part(h, c) == IF left(h, c) > 0 THEN Min({c.need, left(h, c)}) ELSE 0
             F(h) == [c \in claims |-> part(h, c)]
             take == Allocate(g, r, claims)
             R == Earlier(claims)
  <1>1. /\ IsFiniteSet(claims) /\ InOrder(R, claims)
        /\ \A c \in claims : /\ Below(R, claims, c) = Ahead(claims, c)
                             /\ Ahead(claims, c) \in SUBSET claims
                             /\ IsFiniteSet(Ahead(claims, c))
    BY ClaimsAreOrdered DEF Scheduled
  <1>2. \A c \in claims : c.need \in Nat /\ Supply(g, r, Start[c.order]) \in Int
    <2> SUFFICES ASSUME NEW c \in claims
                 PROVE  c.need \in Nat /\ Supply(g, r, Start[c.order]) \in Int
      OBVIOUS
    <2>1. c \in Claims /\ Start[c.order] # Unknown
      BY DEF Scheduled
    <2>2. c.need \in Nat /\ c.order \in Orders
      BY <2>1 DEF Claims
    <2> QED BY <2>1, <2>2, GraphAssumption DEF Supplied
  <1> HIDE DEF R
  <1>3. ASSUME NEW c \in claims, NEW h, \A d \in Ahead(claims, c) : h[d] \in Nat
        PROVE  left(h, c) \in Int /\ part(h, c) \in Nat
    <2>1. Total(h, Ahead(claims, c)) \in Int
      <3>1. Ahead(claims, c) \in SUBSET Ahead(claims, c) /\ \A d \in Ahead(claims, c) : h[d] \in Int
        BY <1>3
      <3> QED BY <1>1, <3>1, TotalOf
    <2>2. left(h, c) \in Int
      BY <1>2, <2>1
    <2>3. Min({c.need, left(h, c)}) = IF c.need <= left(h, c) THEN c.need ELSE left(h, c)
      <3> HIDE DEF left
      <3> QED BY <1>2, <2>2, MinOfTwo
    <2> HIDE DEF left
    <2> QED BY <1>2, <2>2, <2>3
  <1> DEFINE G == [c \in claims |-> [h \in [Ahead(claims, c) -> Nat] |-> part(h, c)]]
  <1>4. PICK f \in [claims -> Nat] : Follows(f, G, R, claims)
    <2>1. \A c \in claims : \A h \in [Below(R, claims, c) -> Nat] : G[c][h] \in Nat
      <3> HIDE DEF part
      <3> QED BY <1>1, <1>3
    <2> HIDE DEF G
    <2> QED BY <1>1, <2>1, DefinedAlong
  <1>5. f = F(f)
    <2> SUFFICES ASSUME NEW c \in claims PROVE f[c] = part(f, c)
      BY <1>4
    <2> DEFINE h == [d \in Ahead(claims, c) |-> f[d]]
    <2>1. f[c] = G[c][h]
      BY <1>1, <1>4 DEF Follows
    <2>2. h \in [Ahead(claims, c) -> Nat]
      BY <1>1, <1>4
    <2>3. f[c] = part(h, c)
      <3> HIDE DEF h, part
      <3> QED BY <2>1, <2>2
    <2>4. Total(h, Ahead(claims, c)) = Total(f, Ahead(claims, c))
      <3>1. \A d \in Ahead(claims, c) : h[d] \in Int /\ h[d] = f[d]
        BY <1>1, <1>4
      <3> HIDE DEF h
      <3> QED BY <1>1, <3>1, TotalSame
    <2> QED BY <2>3, <2>4
  <1>6. take = CHOOSE h : h = F(h)
    BY DEF Allocate, Ahead
  <1>7. take = F(take)
    <2> HIDE DEF F, take
    <2> QED BY <1>5, <1>6
  <1>8. \A c \in claims : take[c] = part(take, c) /\ DOMAIN take = claims
    <2> HIDE DEF part, take
    <2> QED BY <1>7
  <1> HIDE DEF take, part
  <1>9. \A c \in claims : take[c] \in Nat
    <2> DEFINE Bad == {c \in claims : take[c] \notin Nat}
    <2>1. SUFFICES ASSUME Bad # {} PROVE FALSE
      OBVIOUS
    <2>2. PICK c \in Bad : \A d \in Bad : <<d, c>> \notin R
      <3>1. Bad \subseteq claims
        OBVIOUS
      <3> HIDE DEF Bad
      <3> QED BY <1>1, <2>1, <3>1, FirstExists
    <2>3. \A d \in Ahead(claims, c) : take[d] \in Nat
      BY <1>1, <2>2 DEF Below
    <2> QED BY <1>3, <1>8, <2>2, <2>3
  <1>10. take \in [claims -> Nat]
    <2>1. take = [c \in claims |-> take[c]]
      BY <1>7 
    <2> QED BY <1>9, <2>1
  <1>11. \A c \in claims : left(take, c) \in Int
    BY <1>1, <1>3, <1>9
  <1> QED BY <1>8, <1>10, <1>11 DEF take, part, Left

LEMMA SupplyGrows ==
  ASSUME NEW g, NEW r, g.hand[r] \in Int, \A l \in OpenLines(g, r) : Quantity[l] # Unknown
  PROVE  /\ Supplied(g, r)
         /\ \A s, t \in Nat : s <= t => Supply(g, r, s) <= Supply(g, r, t)
  <1> DEFINE due(t) == {l \in OpenLines(g, r) : Due[l] <= t}
  <1>1. /\ \A l \in OpenLines(g, r) : Quantity[l] \in Nat /\ Due[l] \in Nat
        /\ IsFiniteSet(OpenLines(g, r))
    <2>1. OpenLines(g, r) \in SUBSET Lines
      BY DEF OpenLines
    <2> QED BY <2>1, GraphAssumption, FS_Subset
  <1>2. \A t \in Nat : IsFiniteSet(due(t)) /\ due(t) \in SUBSET OpenLines(g, r)
    BY <1>1, FS_Subset
  <1>3. \A t \in Nat : Total(Quantity, due(t)) \in Int
    <2>1. \A l \in OpenLines(g, r) : Quantity[l] \in Int
      BY <1>1
    <2> HIDE DEF due
    <2> QED BY <1>1, <1>2, <2>1, TotalOf
  <1>4. ASSUME NEW s \in Nat, NEW t \in Nat, s <= t
        PROVE  Total(Quantity, due(s)) <= Total(Quantity, due(t))
    <2>1. due(s) \in SUBSET due(t)
      BY <1>1, <1>4
    <2>2. \A l \in due(t) : Quantity[l] \in Nat
      BY <1>1
    <2> HIDE DEF due
    <2> QED BY <1>2, <2>1, <2>2, TotalGrows
  <1>5. \A t : Supply(g, r, t) = g.hand[r] + Total(Quantity, due(t))
    BY DEF Supply
  <1> HIDE DEF due
  <1> QED BY <1>3, <1>4, <1>5 DEF Supplied

\* A beginning of the schedule is the last claim of it and those ahead of that one.
LEMMA Beginnings ==
  ASSUME NEW claims, Scheduled(claims), Distinct(claims), NEW T \in SUBSET claims, T # {},
         \A c \in T : Ahead(claims, c) \subseteq T
  PROVE  \E e \in T : T = Ahead(claims, e) \cup {e}
  <1>1. PICK e \in T : \A d \in T : <<e, d>> \notin Earlier(claims)
    <2>1. IsFiniteSet(claims) /\ InOrder(Earlier(claims), claims)
      BY ClaimsAreOrdered DEF Scheduled
    <2> QED BY <2>1, LastExists
  <1>2. ASSUME NEW d \in T, d # e PROVE d \in Ahead(claims, e)
    <2>1. d \in Ahead(claims, e) \/ e \in Ahead(claims, d)
      BY <1>2, ClaimsAreOrdered
    <2>2. e \notin Ahead(claims, d)
      BY <1>1 DEF Earlier, Ahead
    <2> QED BY <2>1, <2>2
  <1> QED BY <1>2

\* What an allocation comes to when a claim has had its turn.
LEMMA TurnsAdd ==
  ASSUME NEW claims, Scheduled(claims), NEW f, \A d \in claims : f[d] \in Nat, NEW c \in claims
  PROVE  /\ Total(f, Ahead(claims, c)) \in Nat
         /\ Total(f, Ahead(claims, c) \cup {c}) = Total(f, Ahead(claims, c)) + f[c]
  <1> DEFINE done == Ahead(claims, c) \cup {c}
  <1>1. done \in SUBSET claims /\ c \in done /\ done \ {c} = Ahead(claims, c)
        /\ IsFiniteSet(claims) /\ Ahead(claims, c) \in SUBSET claims
    BY ClaimsAreOrdered DEF Scheduled
  <1>2. \A d \in claims : f[d] \in Int
    OBVIOUS
  <1>3. Total(f, done) = Total(f, Ahead(claims, c)) + f[c] /\ Total(f, Ahead(claims, c)) \in Int
    <2> HIDE DEF done
    <2> QED BY <1>1, <1>2, TotalOf
  <1>4. 0 <= Total(f, Ahead(claims, c))
    BY <1>1, TotalGrows
  <1> QED BY <1>3, <1>4

Within(amount, there) == amount <= 0 \/ amount <= there

Used(way, claims, slot) == Total(way, {d \in claims : Start[d.order] <= slot})

\* "A delivery due tomorrow can never satisfy a task starting today" (availability.allocate):
\* at no slot has the engine handed out more than was there and delivered by then.
THEOREM NothingIsServedTwice ==
  ASSUME NEW g, NEW r, g.hand[r] \in Int, NEW claims, Known(g, r, claims),
         Scheduled(claims), Distinct(claims)
  PROVE  \A slot \in Nat : Within(Used(Allocate(g, r, claims), claims, slot), Supply(g, r, slot))
  <1> DEFINE take == Allocate(g, r, claims)
             upTo(c) == Total(take, Ahead(claims, c) \cup {c})
             there(c) == Supply(g, r, Start[c.order])
  <1>1. /\ Supplied(g, r)
        /\ \A s, t \in Nat : s <= t => Supply(g, r, s) <= Supply(g, r, t)
    BY SupplyGrows DEF Known
  <1>2. \A c \in claims : Start[c.order] \in Nat /\ there(c) \in Int /\ c.need \in Nat
    <2> SUFFICES ASSUME NEW c \in claims
                 PROVE  Start[c.order] \in Nat /\ there(c) \in Int /\ c.need \in Nat
      OBVIOUS
    <2>1. c \in Claims /\ Start[c.order] # Unknown
      BY DEF Scheduled
    <2>2. c.order \in Orders /\ c.need \in Nat
      BY <2>1 DEF Claims
    <2> QED BY <1>1, <2>1, <2>2, GraphAssumption DEF Supplied
  <1>3. /\ take \in [claims -> Nat]
        /\ \A c \in claims :
             /\ Left(g, r, claims, c) \in Int
             /\ Left(g, r, claims, c) = there(c) - Total(take, Ahead(claims, c))
             /\ take[c] = IF Left(g, r, claims, c) > 0
                          THEN Min({c.need, Left(g, r, claims, c)}) ELSE 0
    BY <1>1, AllocateTakes DEF Left
  <1> HIDE DEF take
  <1>4. \A c \in claims : /\ Total(take, Ahead(claims, c)) \in Nat
                          /\ upTo(c) = Total(take, Ahead(claims, c)) + take[c]
    BY <1>3, TurnsAdd
  <1> HIDE DEF there, upTo
  <1>5. \A c \in claims : Within(upTo(c), there(c))
    <2> DEFINE Over == {c \in claims : ~Within(upTo(c), there(c))}
    <2>1. SUFFICES ASSUME Over # {} PROVE FALSE
      OBVIOUS
    <2>2. PICK c \in Over : \A d \in Over : <<d, c>> \notin Earlier(claims)
      <3>1. Over \subseteq claims /\ IsFiniteSet(claims) /\ InOrder(Earlier(claims), claims)
        BY ClaimsAreOrdered DEF Scheduled
      <3> HIDE DEF Over
      <3> QED BY <2>1, <3>1, FirstExists
    <2>c. c \in claims /\ ~Within(upTo(c), there(c))
      BY <2>2
    <2>n. /\ c.need \in Nat /\ there(c) \in Int /\ Left(g, r, claims, c) \in Int
          /\ Total(take, Ahead(claims, c)) \in Nat /\ take[c] \in Nat
          /\ Left(g, r, claims, c) = there(c) - Total(take, Ahead(claims, c))
          /\ upTo(c) = Total(take, Ahead(claims, c)) + take[c]
          /\ take[c] = IF Left(g, r, claims, c) > 0
                       THEN Min({c.need, Left(g, r, claims, c)}) ELSE 0
      BY <1>2, <1>3, <1>4, <2>c
    <2>3. ~(Left(g, r, claims, c) > 0)
      <3> SUFFICES ASSUME Left(g, r, claims, c) > 0 PROVE FALSE
        OBVIOUS
      <3>1. take[c] <= Left(g, r, claims, c)
        BY <2>n, MinOfTwo
      <3> HIDE DEF Over
      <3> QED BY <2>c, <2>n, <3>1 DEF Within
    <2>4. upTo(c) = Total(take, Ahead(claims, c))
      BY <2>n, <2>3
    <2>5. Ahead(claims, c) # {}
      <3>1. Total(take, {}) = 0
        <4>1. \A d \in {} : take[d] \in Int
          OBVIOUS
        <4> QED BY <4>1, TotalOf, FS_EmptySet
      <3> QED BY <2>2, <2>4, <3>1 DEF Within
    <2>6. PICK e \in Ahead(claims, c) : Ahead(claims, c) = Ahead(claims, e) \cup {e}
      <3>1. /\ Ahead(claims, c) \in SUBSET claims
            /\ \A d \in Ahead(claims, c) : Ahead(claims, d) \subseteq Ahead(claims, c)
        BY <2>2, ClaimsAreOrdered
      <3> QED BY <2>5, <3>1, Beginnings
    <2>7. e \in claims /\ Start[e.order] <= Start[c.order]
      BY <2>2, <2>6, ClaimsAreOrdered
    <2>8. Within(upTo(e), there(e))
      BY <2>2, <2>6, <2>7 DEF Earlier, Ahead
    <2>9. upTo(e) = upTo(c)
      BY <2>4, <2>6 DEF upTo
    <2>10. there(e) <= there(c)
      BY <1>1, <1>2, <2>2, <2>7 DEF there
    <2> QED BY <1>2, <1>3, <1>4, <2>2, <2>7, <2>8, <2>9, <2>10 DEF Within
  <1>6. ASSUME NEW slot \in Nat PROVE Within(Used(take, claims, slot), Supply(g, r, slot))
    <2> DEFINE T == {d \in claims : Start[d.order] <= slot}
    <2>1. CASE T = {}
      <3>1. Total(take, {}) = 0
        <4>1. \A d \in {} : take[d] \in Int
          OBVIOUS
        <4> QED BY <4>1, TotalOf, FS_EmptySet
      <3>2. Used(take, claims, slot) = 0
        BY <2>1, <3>1 DEF Used
      <3> QED BY <3>2 DEF Within
    <2>2. CASE T # {}
      <3>1. PICK e \in T : T = Ahead(claims, e) \cup {e}
        <4>1. \A c \in T : Ahead(claims, c) \subseteq T
          <5> SUFFICES ASSUME NEW c \in T, NEW d \in Ahead(claims, c) PROVE d \in T
            OBVIOUS
          <5>1. d \in claims /\ Start[d.order] <= Start[c.order]
            BY ClaimsAreOrdered
          <5> QED BY <1>2, <5>1
        <4>2. T \in SUBSET claims
          OBVIOUS
        <4> HIDE DEF T
        <4> QED BY <2>2, <4>1, <4>2, Beginnings
      <3>2. Used(take, claims, slot) = upTo(e)
        BY <3>1 DEF Used, upTo
      <3>3. e \in claims /\ Start[e.order] <= slot
        OBVIOUS
      <3>4. there(e) <= Supply(g, r, slot) /\ Supply(g, r, slot) \in Int
        BY <1>1, <1>2, <3>3 DEF there, Supplied
      <3>5. upTo(e) \in Int
        BY <1>3, <1>4, <3>3
      <3> HIDE DEF T
      <3> QED BY <1>2, <1>5, <3>2, <3>3, <3>4, <3>5 DEF Within
    <2> QED BY <2>1, <2>2
  <1> QED BY <1>6 DEF take

\* Of all the ways to serve the claims that use nothing twice, the engine's serves the first
\* claim most, then the next: any other gives less to the first claim it treats differently.
THEOREM TheFirstAreServedFirst ==
  ASSUME NEW g, NEW r, g.hand[r] \in Int, NEW claims, Known(g, r, claims),
         Scheduled(claims), Distinct(claims),
         NEW way \in [claims -> Nat], way # Allocate(g, r, claims),
         \A c \in claims : /\ way[c] <= c.need
                           /\ Within(Used(way, claims, Start[c.order]),
                                     Supply(g, r, Start[c.order]))
  PROVE  \E c \in claims : /\ way[c] < Allocate(g, r, claims)[c]
                           /\ \A d \in Ahead(claims, c) : way[d] = Allocate(g, r, claims)[d]
  <1> DEFINE take == Allocate(g, r, claims)
             Other == {c \in claims : way[c] # take[c]}
  <1>1. Supplied(g, r)
    BY SupplyGrows DEF Known
  <1>3. /\ take \in [claims -> Nat]
        /\ \A c \in claims :
             /\ Left(g, r, claims, c) \in Int
             /\ take[c] = IF Left(g, r, claims, c) > 0
                          THEN Min({c.need, Left(g, r, claims, c)}) ELSE 0
    BY <1>1, AllocateTakes
  <1>n. way # take
    OBVIOUS
  <1>l. \A c : Left(g, r, claims, c) = Supply(g, r, Start[c.order]) - Total(take, Ahead(claims, c))
    BY DEF Left
  <1> HIDE DEF take
  <1>4. PICK c \in Other : \A d \in Other : <<d, c>> \notin Earlier(claims)
    <2>1. Other # {}
      BY <1>3, <1>n
    <2>2. Other \subseteq claims /\ IsFiniteSet(claims) /\ InOrder(Earlier(claims), claims)
      BY ClaimsAreOrdered DEF Scheduled
    <2> HIDE DEF Other
    <2> QED BY <2>1, <2>2, FirstExists
  <1>5. \A d \in Ahead(claims, c) : way[d] = take[d]
    BY <1>4 DEF Earlier, Ahead
  <1>6. /\ Start[c.order] \in Nat /\ c.need \in Nat /\ Supply(g, r, Start[c.order]) \in Int
    <2>1. c \in Claims /\ Start[c.order] # Unknown
      BY <1>4 DEF Scheduled
    <2>2. c.order \in Orders /\ c.need \in Nat
      BY <2>1 DEF Claims
    <2> QED BY <1>1, <2>1, <2>2, GraphAssumption DEF Supplied
  <1> DEFINE before == Total(take, Ahead(claims, c))
             there == Supply(g, r, Start[c.order])
  <1>7. Total(way, Ahead(claims, c)) = before
    <2>1. \A d \in Ahead(claims, c) : way[d] \in Int /\ way[d] = take[d]
      BY <1>4, <1>5, ClaimsAreOrdered
    <2>2. IsFiniteSet(Ahead(claims, c))
      BY <1>4, ClaimsAreOrdered
    <2> QED BY <2>1, <2>2, TotalSame
  <1>8. /\ before \in Nat
        /\ Total(way, Ahead(claims, c) \cup {c}) = before + way[c]
    BY <1>4, <1>7, TurnsAdd
  <1>9. /\ before + way[c] <= Used(way, claims, Start[c.order])
        /\ Used(way, claims, Start[c.order]) \in Int
    <2> DEFINE T == {d \in claims : Start[d.order] <= Start[c.order]}
    <2>1. Ahead(claims, c) \cup {c} \in SUBSET T
      BY <1>4, <1>6, ClaimsAreOrdered
    <2>2. IsFiniteSet(T) /\ \A d \in T : way[d] \in Nat /\ way[d] \in Int
      BY FS_Subset DEF Scheduled
    <2>3. Used(way, claims, Start[c.order]) = Total(way, T) /\ T \in SUBSET T
      BY DEF Used
    <2> HIDE DEF T
    <2> QED BY <1>8, <2>1, <2>2, <2>3, TotalGrows, TotalOf
  <1>10. /\ way[c] <= c.need
         /\ Within(Used(way, claims, Start[c.order]), there)
    BY <1>4
  <1>11. way[c] < take[c]
    <2> SUFFICES ASSUME ~(way[c] < take[c]) PROVE FALSE
      OBVIOUS
    <2>1. take[c] < way[c] /\ way[c] \in Nat /\ take[c] \in Nat
      BY <1>3, <1>4
    <2>2. Left(g, r, claims, c) = there - before
      BY <1>l
    <2> HIDE DEF before, there, Other
    <2>3. take[c] = IF there - before > 0 THEN Min({c.need, there - before}) ELSE 0
      BY <1>3, <1>4, <2>2 DEF Other
    <2>4. take[c] + before >= there
      <3>1. CASE there - before > 0
        <4>1. take[c] = IF c.need <= there - before THEN c.need ELSE there - before
          BY <1>6, <1>8, <2>3, <3>1, MinOfTwo DEF there
        <4> QED BY <1>6, <1>8, <1>10, <2>1, <4>1 DEF there
      <3>2. CASE ~(there - before > 0)
        BY <1>6, <1>8, <2>1, <3>2 DEF there
      <3> QED BY <3>1, <3>2
    <2> QED BY <1>6, <1>8, <1>9, <1>10, <2>1, <2>4 DEF Within, there
  <1>12. c \in claims
    BY <1>4
  <1> HIDE DEF Other
  <1> QED BY <1>5, <1>11, <1>12 DEF take

\* D is a beginning of the claims X, and m finds each claim of it among the claims Y, with the
\* same need and start and whatever is ahead of it.
FoundIn(m, D, X, Y) ==
    /\ D \in SUBSET X
    /\ \A d \in D : Ahead(X, d) \subseteq D
    /\ m \in [D -> Y]
    /\ \A d \in D : m[d].need = d.need /\ Start[m[d].order] = Start[d.order]
    /\ \A d, e \in D : d \in Ahead(X, e) => m[d] \in Ahead(Y, m[e])

SameSupply(g, h, r) == \A t : Supply(h, r, t) = Supply(g, r, t)

\* A claim that has no more ahead of it finds no less.
LEMMA FewerAheadTakeLess ==
  ASSUME NEW g, NEW h, NEW r, Supplied(g, r), SameSupply(g, h, r),
         NEW X, Scheduled(X), Distinct(X), NEW Y, Scheduled(Y), Distinct(Y),
         NEW D, NEW m, FoundIn(m, D, X, Y), NEW d \in D
  PROVE  /\ Total(Allocate(h, r, X), Ahead(X, d)) <= Total(Allocate(g, r, Y), Ahead(Y, m[d]))
         /\ Allocate(g, r, Y)[m[d]] = d.need => Allocate(h, r, X)[d] = d.need
  <1> DEFINE x == Allocate(h, r, X)
             y == Allocate(g, r, Y)
             mine(e) == Total(x, Ahead(X, e))
             theirs(e) == Total(y, Ahead(Y, m[e]))
             there(e) == Supply(g, r, Start[e.order])
  <1>m. /\ D \in SUBSET X
        /\ \A e \in D : Ahead(X, e) \subseteq D
        /\ m \in [D -> Y]
        /\ \A e \in D : m[e].need = e.need /\ Start[m[e].order] = Start[e.order]
        /\ \A b, e \in D : b \in Ahead(X, e) => m[b] \in Ahead(Y, m[e])
    BY DEF FoundIn
  <1>1. Supplied(h, r)
    BY DEF Supplied, SameSupply
  <1>2. /\ x \in [X -> Nat] /\ y \in [Y -> Nat]
        /\ \A e \in D :
             /\ Left(h, r, X, e) = there(e) - mine(e)
             /\ Left(g, r, Y, m[e]) = there(e) - theirs(e)
             /\ x[e] = IF Left(h, r, X, e) > 0
                       THEN Min({e.need, Left(h, r, X, e)}) ELSE 0
             /\ y[m[e]] = IF Left(g, r, Y, m[e]) > 0
                          THEN Min({e.need, Left(g, r, Y, m[e])}) ELSE 0
    <2>1. /\ x \in [X -> Nat]
          /\ \A e \in X : x[e] = IF Left(h, r, X, e) > 0
                                 THEN Min({e.need, Left(h, r, X, e)}) ELSE 0
      BY <1>1, AllocateTakes
    <2>2. /\ y \in [Y -> Nat]
          /\ \A e \in Y : y[e] = IF Left(g, r, Y, e) > 0
                                 THEN Min({e.need, Left(g, r, Y, e)}) ELSE 0
      BY AllocateTakes
    <2>3. \A e \in D : /\ Left(h, r, X, e) = there(e) - mine(e)
                       /\ Left(g, r, Y, m[e]) = there(e) - theirs(e)
      BY <1>m DEF Left, SameSupply
    <2> HIDE DEF x, y, mine, theirs, there
    <2> QED BY <1>m, <2>1, <2>2, <2>3
  <1>3. \A e \in D : e.need \in Nat /\ there(e) \in Int
    <2> SUFFICES ASSUME NEW e \in D PROVE e.need \in Nat /\ there(e) \in Int
      OBVIOUS
    <2>1. e \in Claims /\ Start[e.order] # Unknown
      BY <1>m DEF Scheduled
    <2>2. e.order \in Orders /\ e.need \in Nat
      BY <2>1 DEF Claims
    <2> QED BY <2>1, <2>2, GraphAssumption DEF Supplied
  <1> HIDE DEF x, y
  <1>4. \A e \in D : /\ mine(e) \in Nat /\ theirs(e) \in Nat
                     /\ Total(x, Ahead(X, e) \cup {e}) = mine(e) + x[e]
                     /\ Total(y, Ahead(Y, m[e]) \cup {m[e]}) = theirs(e) + y[m[e]]
    BY <1>m, <1>2, TurnsAdd
  <1> HIDE DEF there, mine, theirs
  <1>5. \A e \in D : mine(e) <= theirs(e)
    <2> DEFINE More == {e \in D : ~(mine(e) <= theirs(e))}
    <2>1. SUFFICES ASSUME More # {} PROVE FALSE
      OBVIOUS
    <2>2. PICK c \in More : \A e \in More : <<e, c>> \notin Earlier(X)
      <3>1. More \subseteq X /\ IsFiniteSet(X) /\ InOrder(Earlier(X), X)
        BY <1>m, ClaimsAreOrdered DEF Scheduled
      <3> HIDE DEF More
      <3> QED BY <2>1, <3>1, FirstExists
    <2>3. c \in D /\ c \in X /\ ~(mine(c) <= theirs(c)) /\ mine(c) \in Nat /\ theirs(c) \in Nat
      BY <1>m, <1>4, <2>2
    <2>4. Ahead(X, c) # {}
      <3> SUFFICES ASSUME Ahead(X, c) = {} PROVE FALSE
        OBVIOUS
      <3>1. \A e \in {} : x[e] \in Int
        OBVIOUS
      <3>2. mine(c) = 0
        BY <3>1, TotalOf, FS_EmptySet DEF mine
      <3> QED BY <2>3, <3>2
    <2>5. PICK e \in Ahead(X, c) : Ahead(X, c) = Ahead(X, e) \cup {e}
      <3>1. /\ Ahead(X, c) \in SUBSET X
            /\ \A b \in Ahead(X, c) : Ahead(X, b) \subseteq Ahead(X, c)
        BY <2>3, ClaimsAreOrdered
      <3> QED BY <2>4, <3>1, Beginnings
    <2>6. e \in D /\ m[e] \in Ahead(Y, m[c])
      BY <1>m, <2>3
    <2>7. mine(e) <= theirs(e)
      <3>1. <<e, c>> \in Earlier(X)
        BY <2>3, <2>5 DEF Earlier, Ahead
      <3> QED BY <2>2, <2>6, <3>1
    <2>8. mine(c) = mine(e) + x[e]
      BY <1>4, <2>5, <2>6 DEF mine
    <2>9. theirs(e) + y[m[e]] <= theirs(c)
      <3>1. Ahead(Y, m[e]) \cup {m[e]} \in SUBSET Ahead(Y, m[c])
        BY <1>m, <2>3, <2>6, ClaimsAreOrdered
      <3>2. IsFiniteSet(Ahead(Y, m[c])) /\ \A b \in Ahead(Y, m[c]) : y[b] \in Nat
        BY <1>m, <1>2, <2>3, ClaimsAreOrdered
      <3> QED BY <1>4, <2>6, <3>1, <3>2, TotalGrows DEF theirs
    <2>10. mine(e) + x[e] <= theirs(e) + y[m[e]]
      <3>1. /\ e.need \in Nat /\ there(e) \in Int /\ mine(e) \in Nat /\ theirs(e) \in Nat
            /\ Left(h, r, X, e) = there(e) - mine(e)
            /\ Left(g, r, Y, m[e]) = there(e) - theirs(e)
        BY <1>2, <1>3, <1>4, <2>6
      <3>m. /\ Min({e.need, there(e) - mine(e)})
                 = IF e.need <= there(e) - mine(e) THEN e.need ELSE there(e) - mine(e)
            /\ Min({e.need, there(e) - theirs(e)})
                 = IF e.need <= there(e) - theirs(e) THEN e.need ELSE there(e) - theirs(e)
        BY <3>1, MinOfTwo
      <3>2. /\ x[e] = IF there(e) - mine(e) > 0
                      THEN IF e.need <= there(e) - mine(e) THEN e.need ELSE there(e) - mine(e)
                      ELSE 0
            /\ y[m[e]] = IF there(e) - theirs(e) > 0
                         THEN IF e.need <= there(e) - theirs(e)
                              THEN e.need ELSE there(e) - theirs(e)
                         ELSE 0
        BY <1>2, <2>6, <3>1, <3>m
      <3> QED BY <2>7, <3>1, <3>2
    <2>11. x[e] \in Nat /\ y[m[e]] \in Nat /\ mine(e) \in Nat /\ theirs(e) \in Nat
      BY <1>m, <1>2, <1>4, <2>6
    <2> QED BY <2>3, <2>8, <2>9, <2>10, <2>11
  <1>6. y[m[d]] = d.need => x[d] = d.need
    <2>1. /\ d.need \in Nat /\ there(d) \in Int /\ mine(d) \in Nat /\ theirs(d) \in Nat
          /\ Left(h, r, X, d) = there(d) - mine(d)
          /\ Left(g, r, Y, m[d]) = there(d) - theirs(d)
          /\ mine(d) <= theirs(d)
      BY <1>2, <1>3, <1>4, <1>5
    <2>m. /\ Min({d.need, there(d) - mine(d)})
               = IF d.need <= there(d) - mine(d) THEN d.need ELSE there(d) - mine(d)
          /\ Min({d.need, there(d) - theirs(d)})
               = IF d.need <= there(d) - theirs(d) THEN d.need ELSE there(d) - theirs(d)
      BY <2>1, MinOfTwo
    <2>2. /\ x[d] = IF there(d) - mine(d) > 0
                    THEN IF d.need <= there(d) - mine(d) THEN d.need ELSE there(d) - mine(d)
                    ELSE 0
          /\ y[m[d]] = IF there(d) - theirs(d) > 0
                       THEN IF d.need <= there(d) - theirs(d)
                            THEN d.need ELSE there(d) - theirs(d)
                       ELSE 0
      BY <1>2, <2>1, <2>m
    <2> QED BY <2>1, <2>2
  <1> QED BY <1>5, <1>6 DEF x, y, mine, theirs

LEMMA ServedWithFewerAhead ==
  ASSUME NEW g, NEW h, NEW r, Supplied(g, r), SameSupply(g, h, r),
         NEW X, Scheduled(X), Distinct(X), NEW Y, Scheduled(Y), Distinct(Y),
         NEW D, NEW m, FoundIn(m, D, X, Y), NEW d \in D,
         Known(h, r, X), Served(g, r, Y, m[d])
  PROVE  Served(h, r, X, d)
  <1>1. Allocate(g, r, Y)[m[d]] = d.need
    BY DEF Served, FoundIn
  <1>2. Allocate(h, r, X)[d] = d.need
    BY <1>1, FewerAheadTakeLess
  <1> QED BY <1>2 DEF Served

-----------------------------------------------------------------------------
(* What a snapshot's claims are.                                           *)

Snapshots ==
    [hand     : [Ingredients -> Int \cup {Unknown}],
     posted   : [Ingredients -> Nat],
     line     : [Lines -> {"EXPECTED", "RECEIVED", "SHORT", "NOT_RECEIVED"}],
     pin      : [Orders -> Ingredients],
     quantity : [Orders -> Nat],
     version  : [Orders -> Nat]]

ClaimsOf(g, kind) == {Claim(o, g.quantity[o], kind) : o \in Orders}

Claimed(g) == ClaimsOf(g, "reserved") \cup ClaimsOf(g, "committed") \cup ClaimsOf(g, "candidate")

\* An order has one claim of each kind, of what it is of.
LEMMA ClaimedAreClaims ==
  ASSUME NEW g \in Snapshots, NEW claims \in SUBSET Claimed(g)
  PROVE  /\ claims \in SUBSET Claims /\ IsFiniteSet(claims) /\ Distinct(claims)
         /\ (\A c \in claims : Start[c.order] # Unknown) => Scheduled(claims)
  <1>0. \A o \in Orders : g.quantity[o] \in Nat
    BY DEF Snapshots
  <1>1. ASSUME NEW kind \in ClaimKinds
        PROVE  IsFiniteSet(ClaimsOf(g, kind))
    <2> DEFINE f == [o \in Orders |-> Claim(o, g.quantity[o], kind)]
    <2>1. f \in Surjection(Orders, ClaimsOf(g, kind))
      BY DEF Surjection, ClaimsOf
    <2> QED BY <2>1, GraphAssumption, FS_Surjection
  <1>2. IsFiniteSet(Claimed(g))
    <2>1. {"reserved", "committed", "candidate"} \subseteq ClaimKinds
      BY DEF ClaimKinds
    <2> QED BY <1>1, <2>1, FS_Union DEF Claimed
  <1>3. IsFiniteSet(claims)
    BY <1>2, FS_Subset
  <1>4. \A c \in claims : /\ c.order \in Orders /\ c.need = g.quantity[c.order]
                          /\ c = Claim(c.order, c.need, c.kind)
                          /\ c.kind \in ClaimKinds
    BY DEF Claimed, ClaimsOf, Claim, ClaimKinds
  <1>5. claims \in SUBSET Claims
    BY <1>0, <1>4 DEF Claims, Claim
  <1>6. Distinct(claims)
    BY <1>4 DEF Distinct
  <1> QED BY <1>3, <1>5, <1>6 DEF Scheduled

LEMMA ReservationsAreClaimed ==
  ASSUME NEW g \in Snapshots, NEW r
  PROVE  /\ Reservations(g, r) = {Claim(o, g.quantity[o], "reserved") :
                                    o \in {p \in Orders : g.pin[p] = r}}
         /\ Reservations(g, r) \in SUBSET Claimed(g)
  BY DEF Reservations, Reservation, Claimed, ClaimsOf

-----------------------------------------------------------------------------
(* Classification and the analysis.                                        *)

VerdictClasses == {"UNAFFECTED", "AUTO_RECOVERABLE", "APPROVAL_REQUIRED", "BLOCKED"}
Recoverable == {"AUTO_RECOVERABLE", "APPROVAL_REQUIRED"}
Rules == {"R_UNREACH", "R_COVERED", "R_UNKNOWN", "R_CONFLICT", "R_NOSUB", "R_EXCLUDED",
          "R_SUBSTOCK", "NO_CONSTRAINT_SNAPSHOT", "NO_PREAUTHORED_VARIANT", "R_PREAPPROVED",
          "R_INVISIBLE_NOASK", "R_VISIBLE_ASK", "R_NOT_PREAPPROVED"}
Verdicts == [class : VerdictClasses, rule : Rules, option : Ingredients \cup {None}]

\* What a candidate is looked at among.
Rivals(g, o, committed) ==
    Reservations(g, Substitute[g.pin[o]]) \cup committed \cup {Claim(o, g.quantity[o], "candidate")}

\* A promise is called recoverable just when it has an option: the substitute of what it
\* needs, of which there is enough for it among its rivals.
LEMMA ClassifyOffers ==
  ASSUME NEW g \in Snapshots, NEW entry, NEW o \in Orders, NEW committed
  PROVE  LET v == Classify(g, entry, o, committed)
             s == Substitute[g.pin[o]]
         IN  /\ v \in Verdicts
             /\ v.class \in Recoverable <=> v.option # None
             /\ v.option # None =>
                  /\ v.option = s /\ o \in Affected(g, entry)
                  /\ Served(g, s, Rivals(g, o, committed),
                            Claim(o, g.quantity[o], "candidate"))
  <1>1. g.pin[o] \in Ingredients /\ Substitute[g.pin[o]] \in Ingredients \cup {None}
    BY GraphAssumption DEF Snapshots
  <1> DEFINE v == Classify(g, entry, o, committed)
             s == Substitute[g.pin[o]]
             served == Served(g, s, Rivals(g, o, committed),
                              Claim(o, g.quantity[o], "candidate"))
             unaffected == {Verdict("UNAFFECTED", rule, None) : rule \in {"R_UNREACH", "R_COVERED"}}
             blocked == {Verdict("BLOCKED", rule, None) :
                           rule \in {"R_UNKNOWN", "R_CONFLICT", "R_NOSUB", "R_EXCLUDED", "R_SUBSTOCK",
                                     "NO_CONSTRAINT_SNAPSHOT", "NO_PREAUTHORED_VARIANT"}}
             recoverable == {Verdict("AUTO_RECOVERABLE", rule, s) :
                               rule \in {"R_PREAPPROVED", "R_INVISIBLE_NOASK"}}
                            \cup {Verdict("APPROVAL_REQUIRED", rule, s) :
                                    rule \in {"R_VISIBLE_ASK", "R_NOT_PREAPPROVED"}}
  <1>2. \/ v \in unaffected \cup blocked
        \/ v \in recoverable /\ s # None /\ o \in Affected(g, entry) /\ served
    BY DEF Classify, Rivals
  <1> HIDE DEF v, s, served
  <1>3. CASE v \in unaffected \cup blocked
    <2>1. v \in Verdicts /\ v.class \notin Recoverable /\ v.option = None
      <3>1. PICK class \in {"UNAFFECTED", "BLOCKED"}, rule \in Rules : v = Verdict(class, rule, None)
        BY <1>3 DEF Rules
      <3>2. rule \in Rules /\ class \in VerdictClasses /\ class \notin Recoverable
        BY DEF VerdictClasses, Recoverable
      <3> QED BY <3>1, <3>2 DEF Verdict, Verdicts
    <2> QED BY <2>1 DEF v
  <1>4. CASE v \in recoverable /\ s # None /\ o \in Affected(g, entry) /\ served
    <2>1. s \in Ingredients \cup {None}
      BY <1>1 DEF s
    <2>2. v \in Verdicts /\ v.class \in Recoverable /\ v.option = s /\ s # None
      <3>1. PICK class \in Recoverable, rule \in Rules : v = Verdict(class, rule, s)
        BY <1>4 DEF Rules, Recoverable
      <3>2. rule \in Rules /\ class \in VerdictClasses
        BY DEF VerdictClasses, Recoverable
      <3> QED BY <1>4, <2>1, <3>1, <3>2 DEF Verdict, Verdicts
    <2> QED BY <1>4, <2>2 DEF v, s, served
  <1> QED BY <1>2, <1>3, <1>4

Above(g, entry, o) == {p \in Affected(g, entry) : Outranks(p, o)}

OutranksIn == {p \in Orders \X Orders : Outranks(p[1], p[2])}

LEMMA OrdersAreRanked ==
  /\ IsFiniteSet(Orders) /\ InOrder(OutranksIn, Orders)
  /\ \A g, entry : \A o \in Orders : Above(g, entry, o) \subseteq Below(OutranksIn, Orders, o)
  <1>1. \A o \in Orders : o \in Nat /\ Start[o] \in Nat \cup {Unknown}
    BY GraphAssumption
  <1>2. Unknown \notin Int
    BY GraphAssumption
  <1>3. \A o \in Orders : ~Outranks(o, o)
    BY <1>1, <1>2 DEF Outranks
  <1>4. ASSUME NEW o \in Orders, NEW p \in Orders, NEW q \in Orders,
               Outranks(o, p), Outranks(p, q)
        PROVE  Outranks(o, q)
    <2>1. Start[o] \in Nat \/ Start[o] = Unknown
      BY <1>1
    <2>2. Start[p] \in Nat \/ Start[p] = Unknown
      BY <1>1
    <2>3. Start[q] \in Nat \/ Start[q] = Unknown
      BY <1>1
    <2> QED BY <1>1, <1>2, <1>4, <2>1, <2>2, <2>3 DEF Outranks
  <1>5. InOrder(OutranksIn, Orders)
    BY <1>3, <1>4 DEF InOrder, OutranksIn
  <1>6. \A g, entry : Affected(g, entry) \subseteq Orders
    BY DEF Affected, Reached
  <1> QED BY <1>5, <1>6, GraphAssumption DEF Above, Below, OutranksIn

\* The analysis of a promise: those that outrank it have committed what they chose.
Looked(g, entry, o, verdict) ==
    IF o \notin Affected(g, entry) THEN Classify(g, entry, o, {})
    ELSE Classify(g, entry, o,
                  Committed(g, o, Above(g, entry, o), [p \in Above(g, entry, o) |-> verdict[p]]))

LEMMA AnalysisLooks ==
  ASSUME NEW g \in Snapshots, NEW entry
  PROVE  /\ Analysis(g, entry) \in [Orders -> Verdicts]
         /\ \A o \in Orders : Analysis(g, entry)[o] = Looked(g, entry, o, Analysis(g, entry))
  <1> DEFINE F(v) == [o \in Orders |-> Looked(g, entry, o, v)]
             R == OutranksIn
             below(o) == Below(R, Orders, o)
             G == [o \in Orders |-> [h \in [below(o) -> Verdicts] |-> Looked(g, entry, o, h)]]
             verdict == Analysis(g, entry)
  <1>1. \A v : \A o \in Orders : Looked(g, entry, o, v) \in Verdicts
    BY ClassifyOffers DEF Looked
  <1>2. PICK f \in [Orders -> Verdicts] : Follows(f, G, R, Orders)
    <2>1. \A o \in Orders : \A h \in [below(o) -> Verdicts] : G[o][h] \in Verdicts
      BY <1>1
    <2> HIDE DEF G
    <2> QED BY <2>1, OrdersAreRanked, DefinedAlong
  <1>3. f = F(f)
    <2> SUFFICES ASSUME NEW o \in Orders PROVE f[o] = Looked(g, entry, o, f)
      BY <1>2
    <2> DEFINE h == [p \in below(o) |-> f[p]]
    <2>1. f[o] = G[o][h]
      BY <1>2 DEF Follows
    <2>2. h \in [below(o) -> Verdicts]
      BY <1>2 DEF Below
    <2>3. f[o] = Looked(g, entry, o, h)
      <3> HIDE DEF h, below
      <3> QED BY <2>1, <2>2
    <2>4. [p \in Above(g, entry, o) |-> h[p]] = [p \in Above(g, entry, o) |-> f[p]]
      <3>1. \A p \in Above(g, entry, o) : h[p] = f[p]
        BY OrdersAreRanked
      <3> HIDE DEF h
      <3> QED BY <3>1
    <2> HIDE DEF h
    <2> QED BY <2>3, <2>4 DEF Looked
  <1>4. verdict = CHOOSE v : v = F(v)
    BY DEF Analysis, Looked, Above
  <1>5. verdict = F(verdict)
    <2> HIDE DEF F, verdict
    <2> QED BY <1>3, <1>4
  <1> HIDE DEF verdict
  <1>6. \A o \in Orders : verdict[o] = Looked(g, entry, o, verdict)
    BY <1>5
  <1>7. verdict \in [Orders -> Verdicts]
    BY <1>1, <1>5
  <1> QED BY <1>6, <1>7 DEF verdict

\* What the analysis offers a promise.
LEMMA AnalysisOffers ==
  ASSUME NEW g \in Snapshots, NEW entry, NEW o \in Orders
  PROVE  LET verdict == Analysis(g, entry)
             s == Substitute[g.pin[o]]
         IN  /\ verdict[o] \in Verdicts
             /\ verdict[o].class \in Recoverable <=> verdict[o].option # None
             /\ verdict[o].option # None =>
                  /\ verdict[o].option = s /\ o \in Affected(g, entry)
                  /\ Served(g, s,
                            Rivals(g, o, Committed(g, o, Above(g, entry, o),
                                                   [p \in Above(g, entry, o) |-> verdict[p]])),
                            Claim(o, g.quantity[o], "candidate"))
  <1>1. Analysis(g, entry)[o] = Looked(g, entry, o, Analysis(g, entry))
    BY AnalysisLooks
  <1>2. CASE o \in Affected(g, entry)
    BY <1>1, <1>2, ClassifyOffers DEF Looked
  <1>3. CASE o \notin Affected(g, entry)
    BY <1>1, <1>3, ClassifyOffers DEF Looked
  <1> QED BY <1>2, <1>3

-----------------------------------------------------------------------------
(* What the analysis offers can be had together.                           *)

\* The snapshot, once the chosen options are applied.
Applied(g, entry, chosen) ==
    [g EXCEPT !.pin = [o \in Orders |->
        IF o \in chosen THEN Analysis(g, entry)[o].option ELSE @[o]]]

LEMMA AppliedKeepsTheRest ==
  ASSUME NEW g \in Snapshots, NEW entry, NEW chosen \in SUBSET Orders,
         \A o \in chosen : Analysis(g, entry)[o].option # None
  PROVE  LET after == Applied(g, entry, chosen)
         IN  /\ after \in Snapshots
             /\ \A o \in Orders :
                  /\ after.quantity[o] = g.quantity[o]
                  /\ after.pin[o] = IF o \in chosen THEN Analysis(g, entry)[o].option ELSE g.pin[o]
             /\ \A r : /\ after.hand[r] = g.hand[r]
                       /\ OpenLines(after, r) = OpenLines(g, r)
                       /\ SameSupply(g, after, r)
  <1> DEFINE after == Applied(g, entry, chosen)
             pins == [o \in Orders |-> IF o \in chosen THEN Analysis(g, entry)[o].option
                                       ELSE g.pin[o]]
  <1>1. after = [g EXCEPT !.pin = pins]
    BY DEF Applied, Snapshots
  <1>2. pins \in [Orders -> Ingredients]
    <2>1. \A o \in chosen : Analysis(g, entry)[o].option \in Ingredients
      BY AnalysisOffers DEF Verdicts
    <2> QED BY <2>1 DEF Snapshots
  <1> HIDE DEF after, pins
  <1>3. /\ after \in Snapshots /\ after.hand = g.hand /\ after.line = g.line
        /\ after.quantity = g.quantity /\ after.pin = pins
    BY <1>1, <1>2 DEF Snapshots
  <1>4. \A r : OpenLines(after, r) = OpenLines(g, r)
    BY <1>3 DEF OpenLines
  <1>5. \A r : SameSupply(g, after, r)
    BY <1>3, <1>4 DEF SameSupply, Supply
  <1> QED BY <1>3, <1>4, <1>5 DEF after, pins

\* Greedy as it is, in priority order, the analysis promises nobody what another was counted
\* on: apply any of the options it chose, and each of them is served in full of what is there,
\* with every reservation that stands beside it (classification.analyze, claims_for_option).
THEOREM OptionsCanBeHadTogether ==
  ASSUME NEW g \in Snapshots, NEW entry, NEW chosen \in SUBSET Orders,
         \A p \in chosen : Analysis(g, entry)[p].option # None,
         NEW o \in chosen
  PROVE  LET after == Applied(g, entry, chosen)
             s == after.pin[o]
         IN  Served(after, s, Reservations(after, s), Reservation(after, o))
  <1> DEFINE verdict == Analysis(g, entry)
             after == Applied(g, entry, chosen)
             s == after.pin[o]
             X == Reservations(after, s)
             above(p) == Above(g, entry, p)
             committed(p) == Committed(g, p, above(p), [q \in above(p) |-> verdict[q]])
             candidate(p) == Claim(p, g.quantity[p], "candidate")
             reserved(p) == Claim(p, g.quantity[p], "reserved")
             Y(p) == Rivals(g, p, committed(p))
             D == {d \in X : d = reserved(o) \/ d \in Ahead(X, reserved(o))}
             m == [d \in D |-> IF d.order = o THEN candidate(o)
                               ELSE IF d.order \in chosen
                                    THEN Claim(d.order, g.quantity[d.order], "committed")
                                    ELSE d]
  <1>a. /\ after \in Snapshots
        /\ \A p \in Orders : /\ after.quantity[p] = g.quantity[p]
                             /\ after.pin[p] = IF p \in chosen THEN verdict[p].option ELSE g.pin[p]
        /\ after.hand[s] = g.hand[s] /\ OpenLines(after, s) = OpenLines(g, s)
        /\ SameSupply(g, after, s)
    BY AppliedKeepsTheRest
  <1>p. \A p \in chosen : /\ p \in Affected(g, entry)
                          /\ verdict[p].option = Substitute[g.pin[p]]
                          /\ Served(g, verdict[p].option, Y(p), candidate(p))
    BY AnalysisOffers
  <1> HIDE DEF after, verdict
  <1>s. s = verdict[o].option /\ s = Substitute[g.pin[o]] /\ s \in Ingredients
    BY <1>a, <1>p DEF Snapshots
  <1>x. X = {reserved(p) : p \in {q \in Orders : after.pin[q] = s}}
    BY <1>a, ReservationsAreClaimed
  <1>r. Reservation(after, o) = reserved(o) /\ reserved(o) \in X
    BY <1>a, <1>x DEF Reservation
  <1>y. \A p \in chosen : verdict[p].option = s =>
           /\ Y(p) = Reservations(g, s) \cup committed(p) \cup {candidate(p)}
           /\ Y(p) \in SUBSET Claimed(g) /\ Known(g, s, Y(p))
    <2> SUFFICES ASSUME NEW p \in chosen, verdict[p].option = s
                 PROVE  /\ Y(p) = Reservations(g, s) \cup committed(p) \cup {candidate(p)}
                        /\ Y(p) \in SUBSET Claimed(g) /\ Known(g, s, Y(p))
      OBVIOUS
    <2>1. Y(p) = Reservations(g, s) \cup committed(p) \cup {candidate(p)}
      BY <1>p DEF Rivals
    <2>2. committed(p) \in SUBSET Claimed(g)
      BY DEF Committed, Above, Affected, Reached, Claimed, ClaimsOf
    <2>3. candidate(p) \in Claimed(g)
      BY DEF Claimed, ClaimsOf
    <2>4. Known(g, s, Y(p))
      BY <1>p DEF Served
    <2> HIDE DEF committed, candidate, Y
    <2> QED BY <2>1, <2>2, <2>3, <2>4, ReservationsAreClaimed
  <1>k. /\ g.hand[s] \in Int /\ \A l \in OpenLines(g, s) : Quantity[l] # Unknown
        /\ Scheduled(Y(o)) /\ Distinct(Y(o))
    <2>1. Known(g, s, Y(o)) /\ Y(o) \in SUBSET Claimed(g)
      BY <1>s, <1>y
    <2>2. g.hand[s] \in Int
      BY <1>s, <2>1 DEF Known, Snapshots
    <2> HIDE DEF Y
    <2> QED BY <2>1, <2>2, ClaimedAreClaims DEF Known
  <1>1. \A c \in X : Start[c.order] # Unknown
    <2> SUFFICES ASSUME NEW p \in Orders, after.pin[p] = s PROVE Start[p] # Unknown
      BY <1>x DEF Claim
    <2>1. CASE p \in chosen
      <3>1. verdict[p].option = s
        BY <1>a, <2>1
      <3>2. Known(g, s, Y(p)) /\ candidate(p) \in Y(p)
        BY <1>y, <2>1, <3>1
      <3> QED BY <3>2 DEF Known, Claim
    <2>2. CASE p \notin chosen
      <3>1. g.pin[p] = s
        BY <1>a, <2>2
      <3>2. reserved(p) \in Reservations(g, s)
        BY <3>1, ReservationsAreClaimed
      <3>3. Known(g, s, Y(o)) /\ reserved(p) \in Y(o)
        BY <1>s, <1>y, <3>2
      <3> QED BY <3>3 DEF Known, Claim
    <2> QED BY <2>1, <2>2
  <1>2. Scheduled(X) /\ Distinct(X) /\ Known(after, s, X)
    <2>1. X \in SUBSET Claimed(after)
      BY <1>a, ReservationsAreClaimed
    <2>2. after.hand[s] # Unknown
      BY <1>a, <1>k, GraphAssumption
    <2> HIDE DEF X, s
    <2> QED BY <1>1, <1>a, <1>k, <2>1, <2>2, ClaimedAreClaims DEF Known
  <1>3. D \in SUBSET X /\ reserved(o) \in D /\ \A d \in D : Ahead(X, d) \subseteq D
    <2> HIDE DEF X
    <2> QED BY <1>2, <1>r, ClaimsAreOrdered
  <1>4. \A d \in D : d = reserved(d.order) /\ d.order \in Orders /\ after.pin[d.order] = s
    BY <1>x DEF Claim
  <1>5. ASSUME NEW d \in D
        PROVE  /\ m[d] \in Y(o)
               /\ m[d].need = d.need /\ m[d].order = d.order
    <2>0. d = reserved(d.order) /\ d.order \in Orders /\ after.pin[d.order] = s
      BY <1>4
    <2> DEFINE p == d.order
    <2> HIDE DEF D
    <2>1. CASE p = o
      <3>1. m[d] = candidate(o)
        BY <2>1
      <3>2. candidate(o) \in Y(o)
        BY DEF Rivals
      <3>3. d.need = g.quantity[o]
        BY <2>0, <2>1 DEF Claim
      <3>4. candidate(o).need = g.quantity[o] /\ candidate(o).order = o
        BY DEF Claim
      <3> HIDE DEF m, Y, candidate
      <3> QED BY <2>1, <3>1, <3>2, <3>3, <3>4
    <2>2. CASE p # o /\ p \in chosen
      <3>1. m[d] = Claim(p, g.quantity[p], "committed")
        BY <2>2
      <3>2. d \in Ahead(X, reserved(o))
        BY <2>0, <2>2 DEF D, Claim
      <3>3. Outranks(p, o)
        <4>1. Before(reserved(p), reserved(o))
          BY <2>0, <3>2 DEF Ahead
        <4>2. Start[p] # Unknown /\ Start[o] # Unknown /\ Start[p] \in Nat /\ Start[o] \in Nat
              /\ p \in Nat /\ o \in Nat
          <5>1. d \in X /\ reserved(o) \in X /\ reserved(o).order = o
            BY <1>3, <1>r DEF Claim
          <5>2. Start[p] # Unknown /\ Start[o] # Unknown
            BY <1>1, <5>1
          <5> QED BY <2>0, <5>2, GraphAssumption
        <4> QED BY <2>2, <4>1, <4>2 DEF Before, Outranks, Claim, Rank
      <3>4. p \in above(o) /\ verdict[p].option = Substitute[g.pin[o]] /\ verdict[p].option # None
        BY <1>a, <1>p, <1>s, <2>0, <2>2, <3>3, GraphAssumption DEF Above
      <3>5. Claim(p, g.quantity[p], "committed") \in committed(o)
        BY <3>4 DEF Committed
      <3>6. committed(o) \subseteq Y(o)
        BY DEF Rivals
      <3>7. m[d] \in Y(o)
        BY <3>1, <3>5, <3>6
      <3>8. m[d].need = d.need /\ m[d].order = d.order
        BY <2>0, <3>1 DEF Claim
      <3> QED BY <3>7, <3>8
    <2>3. CASE p # o /\ p \notin chosen
      <3>1. m[d] = d
        BY <2>3
      <3>2. g.pin[p] = s
        BY <1>a, <2>0, <2>3
      <3>3. reserved(p) \in Reservations(g, s)
        BY <2>0, <3>2, ReservationsAreClaimed
      <3>4. Reservations(g, s) \subseteq Y(o)
        BY <1>s, <1>y
      <3>5. m[d] \in Y(o)
        <4> HIDE DEF m, Y
        <4> QED BY <2>0, <3>1, <3>3, <3>4
      <3> QED BY <3>1, <3>5
    <2> QED BY <2>1, <2>2, <2>3
  <1>6. ASSUME NEW d \in D, NEW e \in D, d \in Ahead(X, e)
        PROVE  m[d] \in Ahead(Y(o), m[e])
    <2>1. Before(reserved(d.order), reserved(e.order))
      BY <1>4, <1>6 DEF Ahead
    <2>2. \/ Start[d.order] < Start[e.order]
          \/ Start[d.order] = Start[e.order] /\ d.order < e.order
      BY <2>1 DEF Before, Claim, Rank
    <2>3. Before(m[d], m[e])
      <3> HIDE DEF m, D
      <3> QED BY <1>5, <2>2 DEF Before
    <2> HIDE DEF m, D, Y
    <2> QED BY <1>5, <2>3 DEF Ahead
  <1>7. FoundIn(m, D, X, Y(o))
    <2>1. m \in [D -> Y(o)]
      <3>1. m = [d \in D |-> m[d]]
        OBVIOUS
      <3> HIDE DEF m, D, Y
      <3> QED BY <1>5, <3>1
    <2> HIDE DEF m, D, X, Y
    <2> QED BY <1>3, <1>5, <1>6, <2>1 DEF FoundIn
  <1>8. m[reserved(o)] = candidate(o)
    BY <1>3 DEF Claim
  <1>9. Served(g, s, Y(o), m[reserved(o)])
    <2> HIDE DEF m, Y
    <2> QED BY <1>8, <1>p, <1>s
  <1>10. Supplied(g, s)
    BY <1>k, SupplyGrows
  <1> HIDE DEF m, D, X, Y, s, reserved
  <1>11. Served(after, s, X, reserved(o))
    BY <1>2, <1>3, <1>7, <1>9, <1>10, <1>a, <1>k, ServedWithFewerAhead
  <1> QED BY <1>11, <1>r DEF after, s, X
=============================================================================
