---------------------------- MODULE AccountProofs ---------------------------
(***************************************************************************)
(* Proofs about how the counters in Redis and the books in the database    *)
(* agree.  Their sums are folds over finite sets; what is needed of them   *)
(* comes first.                                                            *)
(***************************************************************************)
EXTENDS TradeAccounts, TradeCallProofs

\* The element that a sum takes first.
Pick(s) == CHOOSE x \in s : TRUE

\* g has the sum of f over every subset of S.
Sums(g, f, S) ==
  g = [s \in SUBSET S |-> IF s = {} THEN 0 ELSE f[Pick(s)] + g[s \ {Pick(s)}]]

\* Induction over finite sets: among the finite sets of a kind there is a smallest one.
LEMMA Smallest ==
  ASSUME NEW S, NEW T, T \subseteq FiniteSubsetsOf(S), T # {}
  PROVE  \E x \in T : \A y \in SUBSET x : y \in T => y = x
  <1>1. IsWellFoundedOn(StrictSubsetOrdering(S), FiniteSubsetsOf(S))
    BY FS_StrictSubsetOrderingWellFounded
  <1>2. PICK x \in T : \A y \in T : ~ (<<y, x>> \in StrictSubsetOrdering(S))
    BY <1>1, WFMin
  <1>3. QED
    BY <1>2 DEF StrictSubsetOrdering, FiniteSubsetsOf

LEMMA Picked ==
  ASSUME NEW S, S # {}
  PROVE  Pick(S) \in S
  BY DEF Pick

\* A sum over a set does not depend on the set that it is a part of.
LEMMA SumsAgree ==
  ASSUME NEW f, NEW S, NEW T, NEW g, NEW h, Sums(g, f, S), Sums(h, f, T),
         NEW s, s \subseteq S, s \subseteq T, IsFiniteSet(s)
  PROVE  g[s] = h[s]
  <1> DEFINE Bad == {t \in FiniteSubsetsOf(s) : g[t] # h[t]}
  <1>1. ASSUME NEW x \in Bad, \A y \in SUBSET x : y \in Bad => y = x
        PROVE  FALSE
    <2>1. x \in SUBSET s /\ IsFiniteSet(x) /\ x \in SUBSET S /\ x \in SUBSET T
      BY DEF FiniteSubsetsOf
    <2>2. /\ g[x] = IF x = {} THEN 0 ELSE f[Pick(x)] + g[x \ {Pick(x)}]
          /\ h[x] = IF x = {} THEN 0 ELSE f[Pick(x)] + h[x \ {Pick(x)}]
      BY <2>1 DEF Sums
    <2>3. x # {}
      BY <2>2
    <2>4. x \ {Pick(x)} \in FiniteSubsetsOf(s) /\ x \ {Pick(x)} # x
      BY <2>1, <2>3, Picked, FS_Subset DEF FiniteSubsetsOf
    <2>5. g[x \ {Pick(x)}] = h[x \ {Pick(x)}]
      BY <1>1, <2>4
    <2>6. QED
      BY <2>2, <2>3, <2>5
  <1>2. Bad = {}
    <2>1. Bad \subseteq FiniteSubsetsOf(s)
      OBVIOUS
    <2> HIDE DEF Bad
    <2>2. QED
      BY <1>1, <2>1, Smallest
  <1>3. s \in FiniteSubsetsOf(s)
    BY DEF FiniteSubsetsOf
  <1>4. QED
    BY <1>2, <1>3

\* Every finite set has its sums.
LEMMA SumsExist ==
  ASSUME NEW f, NEW S, IsFiniteSet(S)
  PROVE  \E g : Sums(g, f, S)
  <1> DEFINE Bad == {t \in FiniteSubsetsOf(S) : ~ \E g : Sums(g, f, t)}
             Of(t) == CHOOSE g : Sums(g, f, t)
  <1>1. ASSUME NEW x \in Bad, \A y \in SUBSET x : y \in Bad => y = x
        PROVE  FALSE
    <2>1. x \in SUBSET S /\ IsFiniteSet(x) /\ ~ \E g : Sums(g, f, x)
      BY DEF FiniteSubsetsOf
    <2>2. \A y \in SUBSET x : y # x => Sums(Of(y), f, y)
      <3>1. \A y \in SUBSET x : IsFiniteSet(y)
        BY <2>1, FS_Subset
      <3>2. QED
        BY <1>1, <2>1, <3>1 DEF FiniteSubsetsOf
    <2> HIDE DEF Of, Bad
    <2> DEFINE h == [s \in SUBSET x |-> IF s = {} THEN 0
                                        ELSE f[Pick(s)] + Of(s \ {Pick(s)})[s \ {Pick(s)}]]
    <2>3. ASSUME NEW s \in SUBSET x, s # {}
          PROVE  h[s \ {Pick(s)}] = Of(s \ {Pick(s)})[s \ {Pick(s)}]
      <3> DEFINE y == s \ {Pick(s)}
                 z == y \ {Pick(y)}
      <3>1. y \in SUBSET x /\ y # x /\ z \in SUBSET x /\ z # x
        BY <2>3, Picked
      <3>2. Sums(Of(y), f, y) /\ Sums(Of(z), f, z)
        BY <2>2, <3>1
      <3>3. Of(y)[y] = IF y = {} THEN 0 ELSE f[Pick(y)] + Of(y)[z]
        <4>1. y \in SUBSET y
          OBVIOUS
        <4> HIDE DEF y
        <4>2. QED
          BY <3>2, <4>1 DEF Sums
      <3>4. Of(y)[z] = Of(z)[z]
        <4>1. IsFiniteSet(z) /\ z \subseteq y
          BY <2>1, FS_Subset
        <4> HIDE DEF y, z
        <4>2. QED
          BY <3>2, <4>1, SumsAgree
      <3>5. h[y] = IF y = {} THEN 0 ELSE f[Pick(y)] + Of(z)[z]
        <4> HIDE DEF y
        <4>1. QED
          BY <3>1
      <3>6. QED
        BY <3>3, <3>4, <3>5
    <2>4. h = [s \in SUBSET x |-> IF s = {} THEN 0 ELSE f[Pick(s)] + h[s \ {Pick(s)}]]
      <3>1. \A s \in SUBSET x : h[s] = IF s = {} THEN 0 ELSE f[Pick(s)] + h[s \ {Pick(s)}]
        BY <2>3
      <3>2. h = [s \in SUBSET x |-> h[s]]
        OBVIOUS
      <3> HIDE DEF h
      <3>3. QED
        BY <3>1, <3>2
    <2>5. QED
      BY <2>1, <2>4 DEF Sums
  <1>2. Bad = {}
    <2>1. Bad \subseteq FiniteSubsetsOf(S)
      OBVIOUS
    <2> HIDE DEF Bad
    <2>2. QED
      BY <1>1, <2>1, Smallest
  <1>3. S \in FiniteSubsetsOf(S)
    BY DEF FiniteSubsetsOf
  <1>4. QED
    BY <1>2, <1>3

\* The sum over a set that is not empty is that of an element and the rest.
LEMMA SumPicks ==
  ASSUME NEW f, NEW S, IsFiniteSet(S)
  PROVE  SumFunctionOnSet(f, S) =
           IF S = {} THEN 0 ELSE f[Pick(S)] + SumFunctionOnSet(f, S \ {Pick(S)})
  <1> DEFINE Of(T) == CHOOSE g : Sums(g, f, T)
  <1>1. \A T : SumFunctionOnSet(f, T) = Of(T)[T]
    BY DEF SumFunctionOnSet, FoldFunctionOnSet, MapThenFoldSet, Sums, Pick
  <1>2. \A T \in SUBSET S : IsFiniteSet(T) /\ Sums(Of(T), f, T)
    BY SumsExist, FS_Subset
  <1> HIDE DEF Of
  <1> DEFINE R == S \ {Pick(S)}
  <1>3. Of(S)[S] = IF S = {} THEN 0 ELSE f[Pick(S)] + Of(S)[R]
    BY <1>2 DEF Sums
  <1>4. Of(S)[R] = Of(R)[R]
    BY <1>2, SumsAgree
  <1>5. QED
    BY <1>1, <1>3, <1>4

\* The sum over nothing.
LEMMA SumNone == \A f : SumFunctionOnSet(f, {}) = 0
  BY FS_EmptySet, SumPicks

\* A sum of integers is one.
LEMMA SumInt ==
  ASSUME NEW f, NEW S, IsFiniteSet(S), \A x \in S : f[x] \in Int
  PROVE  SumFunctionOnSet(f, S) \in Int
  <1> DEFINE Bad == {t \in FiniteSubsetsOf(S) : SumFunctionOnSet(f, t) \notin Int}
  <1>1. ASSUME NEW x \in Bad, \A y \in SUBSET x : y \in Bad => y = x
        PROVE  FALSE
    <2>1. x \in SUBSET S /\ IsFiniteSet(x) /\ SumFunctionOnSet(f, x) \notin Int
      BY DEF FiniteSubsetsOf
    <2>2. x # {}
      BY <2>1, SumNone
    <2>3. x \ {Pick(x)} \in FiniteSubsetsOf(S) /\ x \ {Pick(x)} # x
      BY <2>1, <2>2, Picked, FS_Subset DEF FiniteSubsetsOf
    <2>4. SumFunctionOnSet(f, x \ {Pick(x)}) \in Int
      BY <1>1, <2>3
    <2>5. SumFunctionOnSet(f, x) = f[Pick(x)] + SumFunctionOnSet(f, x \ {Pick(x)}) /\ f[Pick(x)] \in Int
      BY <2>1, <2>2, Picked, SumPicks
    <2>6. QED
      BY <2>1, <2>4, <2>5
  <1>2. Bad = {}
    <2>1. Bad \subseteq FiniteSubsetsOf(S)
      OBVIOUS
    <2> HIDE DEF Bad
    <2>2. QED
      BY <1>1, <2>1, Smallest
  <1>3. S \in FiniteSubsetsOf(S)
    BY DEF FiniteSubsetsOf
  <1>4. QED
    BY <1>2, <1>3

\* Any element may be the one taken out.
LEMMA SumTakes ==
  ASSUME NEW f, NEW S, IsFiniteSet(S), \A x \in S : f[x] \in Int, NEW a \in S
  PROVE  SumFunctionOnSet(f, S) = f[a] + SumFunctionOnSet(f, S \ {a})
  <1> DEFINE Bad == {t \in FiniteSubsetsOf(S) :
                       ~ \A b \in t : SumFunctionOnSet(f, t) = f[b] + SumFunctionOnSet(f, t \ {b})}
  <1>1. ASSUME NEW x \in Bad, \A y \in SUBSET x : y \in Bad => y = x
        PROVE  FALSE
    <2>1. x \in SUBSET S /\ IsFiniteSet(x)
      BY DEF FiniteSubsetsOf
    <2>2. PICK b \in x : SumFunctionOnSet(f, x) # f[b] + SumFunctionOnSet(f, x \ {b})
      OBVIOUS
    <2> DEFINE c == Pick(x)
    <2>3. c \in x /\ SumFunctionOnSet(f, x) = f[c] + SumFunctionOnSet(f, x \ {c})
      BY <2>1, <2>2, Picked, SumPicks
    <2>4. b # c
      BY <2>2, <2>3
    <2> HIDE DEF c
    <2>5. ASSUME NEW y \in SUBSET x, y # x, NEW d \in y
          PROVE  SumFunctionOnSet(f, y) = f[d] + SumFunctionOnSet(f, y \ {d})
      <3>1. y \in FiniteSubsetsOf(S)
        BY <2>1, FS_Subset DEF FiniteSubsetsOf
      <3>2. QED
        BY <1>1, <2>5, <3>1
    <2>6. SumFunctionOnSet(f, x \ {c}) = f[b] + SumFunctionOnSet(f, (x \ {c}) \ {b})
      BY <2>3, <2>4, <2>5
    <2>7. SumFunctionOnSet(f, x \ {b}) = f[c] + SumFunctionOnSet(f, (x \ {b}) \ {c})
      BY <2>3, <2>4, <2>5
    <2>8. (x \ {b}) \ {c} = (x \ {c}) \ {b}
      OBVIOUS
    <2>9. SumFunctionOnSet(f, (x \ {c}) \ {b}) \in Int
      <3>1. IsFiniteSet((x \ {c}) \ {b})
        BY <2>1, FS_Subset
      <3>2. QED
        BY <2>1, <3>1, SumInt
    <2>10. f[b] \in Int /\ f[c] \in Int
      BY <2>1, <2>3
    <2>11. QED
      <3>1. SumFunctionOnSet(f, x) = f[c] + (f[b] + SumFunctionOnSet(f, (x \ {c}) \ {b}))
        BY <2>3, <2>6
      <3>2. f[b] + SumFunctionOnSet(f, x \ {b}) = f[b] + (f[c] + SumFunctionOnSet(f, (x \ {c}) \ {b}))
        BY <2>7, <2>8
      <3>3. \A k, m, n \in Int : k + (m + n) = m + (k + n)
        OBVIOUS
      <3>4. QED
        BY <2>2, <2>9, <2>10, <3>1, <3>2, <3>3
  <1>2. Bad = {}
    <2>1. Bad \subseteq FiniteSubsetsOf(S)
      OBVIOUS
    <2> HIDE DEF Bad
    <2>2. QED
      BY <1>1, <2>1, Smallest
  <1>3. S \in FiniteSubsetsOf(S)
    BY DEF FiniteSubsetsOf
  <1>4. QED
    BY <1>2, <1>3

\* Two functions that agree on a set have the same sum over it.
LEMMA SumSame ==
  ASSUME NEW f, NEW g, NEW S, IsFiniteSet(S), \A x \in S : f[x] = g[x]
  PROVE  SumFunctionOnSet(f, S) = SumFunctionOnSet(g, S)
  <1> DEFINE Bad == {t \in FiniteSubsetsOf(S) : SumFunctionOnSet(f, t) # SumFunctionOnSet(g, t)}
  <1>1. ASSUME NEW x \in Bad, \A y \in SUBSET x : y \in Bad => y = x
        PROVE  FALSE
    <2>1. x \in SUBSET S /\ IsFiniteSet(x) /\ SumFunctionOnSet(f, x) # SumFunctionOnSet(g, x)
      BY DEF FiniteSubsetsOf
    <2>2. x # {}
      BY <2>1, SumNone
    <2>3. x \ {Pick(x)} \in FiniteSubsetsOf(S) /\ x \ {Pick(x)} # x
      BY <2>1, <2>2, Picked, FS_Subset DEF FiniteSubsetsOf
    <2>4. SumFunctionOnSet(f, x \ {Pick(x)}) = SumFunctionOnSet(g, x \ {Pick(x)})
      BY <1>1, <2>3
    <2>5. f[Pick(x)] = g[Pick(x)]
      BY <2>1, <2>2, Picked
    <2>6. QED
      BY <2>1, <2>2, <2>4, <2>5, SumPicks
  <1>2. Bad = {}
    <2>1. Bad \subseteq FiniteSubsetsOf(S)
      OBVIOUS
    <2> HIDE DEF Bad
    <2>2. QED
      BY <1>1, <2>1, Smallest
  <1>3. S \in FiniteSubsetsOf(S)
    BY DEF FiniteSubsetsOf
  <1>4. QED
    BY <1>2, <1>3

\* A sum is at most that of the larger numbers.
LEMMA SumAtMost ==
  ASSUME NEW f, NEW g, NEW S, IsFiniteSet(S),
         \A x \in S : f[x] \in Int /\ g[x] \in Int /\ f[x] <= g[x]
  PROVE  SumFunctionOnSet(f, S) <= SumFunctionOnSet(g, S)
  <1> DEFINE Bad == {t \in FiniteSubsetsOf(S) :
                       ~ SumFunctionOnSet(f, t) <= SumFunctionOnSet(g, t)}
  <1>1. ASSUME NEW x \in Bad, \A y \in SUBSET x : y \in Bad => y = x
        PROVE  FALSE
    <2>1. x \in SUBSET S /\ IsFiniteSet(x) /\ ~ SumFunctionOnSet(f, x) <= SumFunctionOnSet(g, x)
      BY DEF FiniteSubsetsOf
    <2>2. x # {}
      BY <2>1, SumNone
    <2> DEFINE y == x \ {Pick(x)}
    <2>3. y \in FiniteSubsetsOf(S) /\ y # x /\ y \in SUBSET x
      BY <2>1, <2>2, Picked, FS_Subset DEF FiniteSubsetsOf
    <2>4. SumFunctionOnSet(f, y) <= SumFunctionOnSet(g, y)
      BY <1>1, <2>3
    <2>5. SumFunctionOnSet(f, y) \in Int /\ SumFunctionOnSet(g, y) \in Int
      BY <2>3, SumInt DEF FiniteSubsetsOf
    <2>6. f[Pick(x)] \in Int /\ g[Pick(x)] \in Int /\ f[Pick(x)] <= g[Pick(x)]
      BY <2>1, <2>2, Picked
    <2>7. /\ SumFunctionOnSet(f, x) = f[Pick(x)] + SumFunctionOnSet(f, y)
          /\ SumFunctionOnSet(g, x) = g[Pick(x)] + SumFunctionOnSet(g, y)
      BY <2>1, <2>2, SumPicks
    <2> HIDE DEF y
    <2>8. QED
      BY <2>1, <2>4, <2>5, <2>6, <2>7
  <1>2. Bad = {}
    <2>1. Bad \subseteq FiniteSubsetsOf(S)
      OBVIOUS
    <2> HIDE DEF Bad
    <2>2. QED
      BY <1>1, <2>1, Smallest
  <1>3. S \in FiniteSubsetsOf(S)
    BY DEF FiniteSubsetsOf
  <1>4. QED
    BY <1>2, <1>3

\* The sum over a part is that of the rest less when nothing in the rest is negative.
LEMMA SumOfPart ==
  ASSUME NEW f, NEW S, NEW T \in SUBSET S, IsFiniteSet(S), \A x \in S : f[x] \in Int,
         \A x \in S \ T : f[x] >= 0
  PROVE  SumFunctionOnSet(f, T) <= SumFunctionOnSet(f, S)
  <1> DEFINE Bad == {t \in FiniteSubsetsOf(S) : /\ T \subseteq t
                       /\ ~ SumFunctionOnSet(f, T) <= SumFunctionOnSet(f, t)}
  <1>0. IsFiniteSet(T) /\ SumFunctionOnSet(f, T) \in Int
    BY FS_Subset, SumInt
  <1>1. ASSUME NEW x \in Bad, \A y \in SUBSET x : y \in Bad => y = x
        PROVE  FALSE
    <2>1. /\ x \in SUBSET S /\ IsFiniteSet(x) /\ T \subseteq x
          /\ ~ SumFunctionOnSet(f, T) <= SumFunctionOnSet(f, x)
      BY DEF FiniteSubsetsOf
    <2>2. PICK a \in x : a \notin T
      BY <1>0, <2>1
    <2> DEFINE y == x \ {a}
    <2>3. y \in FiniteSubsetsOf(S) /\ y # x /\ y \in SUBSET x /\ T \subseteq y
      BY <2>1, <2>2, FS_Subset DEF FiniteSubsetsOf
    <2>4. SumFunctionOnSet(f, T) <= SumFunctionOnSet(f, y)
      BY <1>1, <2>3
    <2>5. SumFunctionOnSet(f, y) \in Int
      BY <2>3, SumInt DEF FiniteSubsetsOf
    <2>6. f[a] \in Int /\ f[a] >= 0
      BY <2>1, <2>2
    <2>7. SumFunctionOnSet(f, x) = f[a] + SumFunctionOnSet(f, y)
      BY <2>1, <2>2, SumTakes
    <2> HIDE DEF y
    <2>8. QED
      BY <1>0, <2>1, <2>4, <2>5, <2>6, <2>7
  <1>2. Bad = {}
    <2>1. Bad \subseteq FiniteSubsetsOf(S)
      OBVIOUS
    <2> HIDE DEF Bad
    <2>2. QED
      BY <1>1, <2>1, Smallest
  <1>3. S \in FiniteSubsetsOf(S)
    BY DEF FiniteSubsetsOf
  <1>4. QED
    BY <1>2, <1>3

\* A sum of nothing but zeros.
LEMMA SumZero ==
  ASSUME NEW f, NEW S, IsFiniteSet(S), \A x \in S : f[x] = 0
  PROVE  SumFunctionOnSet(f, S) = 0
  <1> DEFINE Bad == {t \in FiniteSubsetsOf(S) : SumFunctionOnSet(f, t) # 0}
  <1>1. ASSUME NEW x \in Bad, \A y \in SUBSET x : y \in Bad => y = x
        PROVE  FALSE
    <2>1. x \in SUBSET S /\ IsFiniteSet(x) /\ SumFunctionOnSet(f, x) # 0
      BY DEF FiniteSubsetsOf
    <2>2. x # {}
      BY <2>1, SumNone
    <2>3. x \ {Pick(x)} \in FiniteSubsetsOf(S) /\ x \ {Pick(x)} # x
      BY <2>1, <2>2, Picked, FS_Subset DEF FiniteSubsetsOf
    <2>4. SumFunctionOnSet(f, x \ {Pick(x)}) = 0
      BY <1>1, <2>3
    <2>5. f[Pick(x)] = 0
      BY <2>1, <2>2, Picked
    <2>6. QED
      BY <2>1, <2>2, <2>4, <2>5, SumPicks
  <1>2. Bad = {}
    <2>1. Bad \subseteq FiniteSubsetsOf(S)
      OBVIOUS
    <2> HIDE DEF Bad
    <2>2. QED
      BY <1>1, <2>1, Smallest
  <1>3. S \in FiniteSubsetsOf(S)
    BY DEF FiniteSubsetsOf
  <1>4. QED
    BY <1>2, <1>3

\* Two functions that differ at one element.
LEMMA SumBut ==
  ASSUME NEW f, NEW g, NEW S, IsFiniteSet(S), \A x \in S : f[x] \in Int /\ g[x] \in Int,
         NEW a \in S, \A x \in S \ {a} : f[x] = g[x]
  PROVE  SumFunctionOnSet(g, S) = SumFunctionOnSet(f, S) + (g[a] - f[a])
  <1>1. IsFiniteSet(S \ {a}) /\ SumFunctionOnSet(f, S \ {a}) \in Int
    BY FS_Subset, SumInt
  <1>2. SumFunctionOnSet(f, S \ {a}) = SumFunctionOnSet(g, S \ {a})
    BY <1>1, SumSame
  <1>3. /\ SumFunctionOnSet(f, S) = f[a] + SumFunctionOnSet(f, S \ {a})
        /\ SumFunctionOnSet(g, S) = g[a] + SumFunctionOnSet(g, S \ {a})
    BY SumTakes
  <1>4. QED
    BY <1>1, <1>2, <1>3

-----------------------------------------------------------------------------
\* What the pricing loop has added up, and where the loops behind it begin.
AddedUpFor(r) ==
  /\ pc[r] \in {"idle", "lock"} => total[r] = 0 /\ \A p \in Products : need[r][p] = 0
  /\ pc[r] = "price" =>
       /\ line[r] <= Len(Cart(r)) + 1
       /\ total[r] = SumFunctionOnSet(LineMoney(Cart(r)), 1..(line[r] - 1))
       /\ \A p \in Products :
            need[r][p] = SumFunctionOnSet(LineStock(Cart(r), p), 1..(line[r] - 1))
  /\ pc[r] \in {"gate", "regate"} =>
       \A p \in Products : need[r][p] = SumFunctionOnSet(LineStock(Cart(r), p), DOMAIN Cart(r))
  /\ pc[r] \in {"gate", "regate", "push", "repush", "undoWallet"} =>
       total[r] = SumFunctionOnSet(LineMoney(Cart(r)), DOMAIN Cart(r))
  /\ pc[r] \in {"gate", "regate", "undoWallet"} => line[r] = 1

\* So it is for every call.
AddedUp == \A r \in Requests : AddedUpFor(r)

\* What the worker has in hand, and that nothing is at work in a process that is down.
InHand ==
  /\ wpc \in {"loop", "reading", "batch", "stopped"} => cur = 0
  /\ wpc \in {"refundWallet", "refundStock"} => cur \in rejected
  /\ wpc = "reading" /\ cursor # Latest => rpos = cursor
  /\ app = "down" => wpc = "down" /\ \A r \in Requests : ~InFlight(r)

\* The calls and their carts.
LEMMA CartTypes ==
  ASSUME Inductive
  PROVE  /\ total \in [Requests -> Int] /\ need \in [Requests -> [Products -> Int]]
         /\ stock \in [Products -> Int] /\ dbStock \in [Products -> Int]
         /\ wallet \in [Users -> Int \cup {Absent}]
         /\ \A r \in Requests : pc[r] # "idle" =>
              /\ Len(Cart(r)) \in Nat /\ DOMAIN Cart(r) = 1..Len(Cart(r))
              /\ IsFiniteSet(DOMAIN Cart(r))
              /\ \A k \in DOMAIN Cart(r) : Cart(r)[k] \in Line
  <1>1. /\ total \in [Requests -> Int] /\ need \in [Requests -> [Products -> Int]]
        /\ stock \in [Products -> Int] /\ dbStock \in [Products -> Int]
        /\ wallet \in [Users -> Int \cup {Absent}]
    BY DEF Inductive, TypeOK, StoreTypeOK, GatewayTypeOK
  <1>2. ASSUME NEW c \in Seq(Line)
        PROVE  /\ Len(c) \in Nat /\ DOMAIN c = 1..Len(c) /\ IsFiniteSet(DOMAIN c)
               /\ \A k \in DOMAIN c : c[k] \in Line
    <2>1. Len(c) \in Nat /\ DOMAIN c = 1..Len(c) /\ \A k \in DOMAIN c : c[k] \in Line
      OBVIOUS
    <2>2. IsFiniteSet(1..Len(c))
      BY <2>1, FS_Interval
    <2>3. QED
      BY <2>1, <2>2
  <1>3. \A r \in Requests : pc[r] # "idle" => Cart(r) \in Seq(Line)
    BY CallTypes
  <1>4. QED
    BY <1>1, <1>2, <1>3

\* What a line takes is an integer; so is what it costs when its product is known.
LEMMA LineTypes ==
  /\ \A l \in Line, p \in Products : Taken(l, p) \in Int /\ (l.qty >= 0 => Taken(l, p) >= 0)
  /\ \A l \in Line : Known(l) => Charge(l) \in Int
  <1>1. \A l \in Line : l.qty \in Int /\ l.product \in Products
    BY DEF Line
  <1>2. ASSUME NEW l \in Line, Known(l)
        PROVE  Charge(l) \in Int
    <2>1. Price[l.product] \in Int
      BY <1>1, <1>2, PriceAssumption DEF Known
    <2>2. Price[l.product] * l.qty \in Int
      BY <1>1, <2>1
    <2>3. QED
      BY <2>2 DEF Charge
  <1>3. QED
    BY <1>1, <1>2 DEF Taken

\* Of the calls' totals, only the pricing loop changes any, and only its own call's.
LEMMA TotalsFrame ==
  ASSUME Inductive, [Next]_vars
  PROVE  UNCHANGED <<total, need>> \/ \E r \in Requests : PriceLine(r)
  <1>1. ASSUME NEW r \in Requests, Begin(r) \/ Call(r)
        PROVE  UNCHANGED <<total, need>> \/ PriceLine(r)
    BY <1>1 DEF Begin, Call, Acquire, Busy, AcquireFails, RejectLine, Priced, Reserve, Refuse,
       ReserveLost, ReserveAgain, XAdd, PushDone, PushFail, PushAgain, UndoWallet, UndoStock,
       UndoDone, Release
  <1>2. CASE GatewayStep
    BY <1>1, <1>2 DEF GatewayStep, GatewayNext, Expire, gatewayVars
  <1>3. CASE WorkerStep \/ Process \/ UNCHANGED vars
    BY <1>3 DEF WorkerStep, Process, Signal, GracefulStop, Exit, Crash, Restart, vars, gatewayVars
  <1>4. QED
    BY <1>2, <1>3 DEF Next

\* A call's step is made by a call in flight.
LEMMA CallInFlight == \A r \in Requests : Call(r) => InFlight(r)
  BY DEF Call, Acquire, Busy, AcquireFails, PriceLine, RejectLine, Priced, Reserve, Refuse,
     ReserveLost, ReserveAgain, AtGate, XAdd, PushDone, PushFail, PushAgain, Pushing, UndoWallet,
     UndoStock, UndoDone, Release, InFlight

\* The turn of the pricing loop adds up one line more.
LEMMA PriceLineAdds ==
  ASSUME Inductive, NEW r \in Requests, AddedUpFor(r), PriceLine(r)
  PROVE  AddedUpFor(r)'
  <1> DEFINE c == Cart(r)
             l == line[r]
  <1>1. /\ pc[r] = "price" /\ pc'[r] = "price" /\ Cart(r)' = c /\ line'[r] = l + 1
        /\ l \in Nat \ {0} /\ l <= Len(c) /\ Known(c[l])
        /\ \A k \in DOMAIN c : k < l => Known(c[k])
    <2>1. pc[r] = "price" /\ pc' = pc /\ order' = order /\ line' = [line EXCEPT ![r] = @ + 1]
          /\ l <= Len(c) /\ Known(c[l])
      BY DEF PriceLine, MoreLines, At, Known
    <2>2. l \in Nat \ {0} /\ line'[r] = l + 1
      BY <2>1, CallTypes
    <2>3. \A k \in DOMAIN c : k < l => Known(c[k])
      BY <2>1 DEF Inductive, LinesKnown
    <2>4. QED
      BY <2>1, <2>2, <2>3 DEF Cart
  <1>2. /\ Len(c) \in Nat /\ DOMAIN c = 1..Len(c) /\ \A k \in DOMAIN c : c[k] \in Line
        /\ total[r] \in Int /\ \A p \in Products : need[r][p] \in Int
    BY <1>1, CartTypes
  <1>3. /\ total'[r] = total[r] + Charge(c[l])
        /\ \A p \in Products : need'[r][p] = need[r][p] + Taken(c[l], p)
    BY CartTypes DEF PriceLine, At
  <1> HIDE DEF c, l
  <1>4. /\ 1..l \subseteq DOMAIN c /\ IsFiniteSet(1..l) /\ l \in 1..l
        /\ (1..l) \ {l} = 1..(l - 1) /\ 1..(l + 1 - 1) = 1..l
    BY <1>1, <1>2, FS_Interval
  <1>5. total'[r] = SumFunctionOnSet(LineMoney(c), 1..l)
    <2>1. \A k \in 1..l : LineMoney(c)[k] = Charge(c[k]) /\ LineMoney(c)[k] \in Int
      <3>1. \A k \in 1..l : k \in DOMAIN c /\ (k < l \/ k = l)
        BY <1>1, <1>4
      <3>2. QED
        BY <1>1, <1>2, <3>1, LineTypes DEF LineMoney
    <2>2. SumFunctionOnSet(LineMoney(c), 1..l)
            = LineMoney(c)[l] + SumFunctionOnSet(LineMoney(c), 1..(l - 1))
      BY <1>4, <2>1, SumTakes
    <2>3. total[r] = SumFunctionOnSet(LineMoney(c), 1..(l - 1))
      BY <1>1 DEF AddedUpFor, c, l
    <2>4. LineMoney(c)[l] = Charge(c[l]) /\ Charge(c[l]) \in Int
      BY <1>4, <2>1
    <2>5. QED
      BY <1>2, <1>3, <2>2, <2>3, <2>4
  <1>6. \A p \in Products : need'[r][p] = SumFunctionOnSet(LineStock(c, p), 1..l)
    <2>1. TAKE p \in Products
    <2>2. \A k \in 1..l : LineStock(c, p)[k] = Taken(c[k], p) /\ LineStock(c, p)[k] \in Int
      BY <1>2, <1>4, LineTypes DEF LineStock
    <2>3. SumFunctionOnSet(LineStock(c, p), 1..l)
            = LineStock(c, p)[l] + SumFunctionOnSet(LineStock(c, p), 1..(l - 1))
      BY <1>4, <2>2, SumTakes
    <2>4. need[r][p] = SumFunctionOnSet(LineStock(c, p), 1..(l - 1))
      BY <1>1 DEF AddedUpFor, c, l
    <2>5. LineStock(c, p)[l] = Taken(c[l], p) /\ Taken(c[l], p) \in Int
      BY <1>4, <2>2
    <2>6. QED
      BY <1>2, <1>3, <2>3, <2>4, <2>5
  <1>7. l + 1 <= Len(c) + 1
    BY <1>1, <1>2
  <1>8. QED
    BY <1>1, <1>4, <1>5, <1>6, <1>7 DEF AddedUpFor, c

\* At the end of the pricing loop the whole cart is added up.
LEMMA PricedAll ==
  ASSUME Inductive, NEW r \in Requests, AddedUpFor(r), Priced(r)
  PROVE  AddedUpFor(r)'
  <1>1. /\ pc[r] = "price" /\ pc'[r] = "gate" /\ Cart(r)' = Cart(r) /\ line'[r] = 1
        /\ UNCHANGED <<total, need>> /\ ~(line[r] <= Len(Cart(r)))
    BY CallTypes DEF Priced, Goto, MoreLines, Cart
  <1>2. line[r] \in Nat /\ Len(Cart(r)) \in Nat /\ DOMAIN Cart(r) = 1..Len(Cart(r))
    BY <1>1, CallTypes, CartTypes
  <1>3. line[r] <= Len(Cart(r)) + 1
    BY <1>1 DEF AddedUpFor
  <1>4. 1..(line[r] - 1) = DOMAIN Cart(r)
    <2>1. line[r] - 1 = Len(Cart(r))
      BY <1>1, <1>2, <1>3
    <2>2. QED
      BY <1>2, <2>1
  <1>5. QED
    BY <1>1, <1>4 DEF AddedUpFor

\* What the pricing loop has added up is what the reservation takes.
LEMMA AddedUpStep ==
  ASSUME Inductive, AddedUp, [Next]_vars
  PROVE  AddedUp'
  <1>1. ASSUME NEW r \in Requests, Begin(r) \/ Call(r), NEW s \in Requests
        PROVE  AddedUpFor(s)'
    <2>0. AddedUpFor(s)
      BY DEF AddedUp
    <2>1. CASE s # r
      <3>1. pc'[s] = pc[s] /\ order'[s] = order[s] /\ line'[s] = line[s]
        BY <1>1, <2>1, CallFrame
      <3>2. total'[s] = total[s] /\ need'[s] = need[s]
        <4>1. CASE PriceLine(r)
          BY <2>1, <4>1, CartTypes DEF PriceLine
        <4>2. CASE ~PriceLine(r)
          BY <1>1, <4>2 DEF Begin, Call, Acquire, Busy, AcquireFails, RejectLine, Priced,
             Reserve, Refuse, ReserveLost, ReserveAgain, XAdd, PushDone, PushFail, PushAgain,
             UndoWallet, UndoStock, UndoDone, Release
        <4>3. QED
          BY <4>1, <4>2
      <3>3. Cart(s)' = Cart(s)
        BY <3>1 DEF Cart
      <3>4. QED
        BY <2>0, <3>1, <3>2, <3>3 DEF AddedUpFor
    <2>2. CASE s = r /\ PriceLine(r)
      BY <2>0, <2>2, PriceLineAdds
    <2>3. CASE s = r /\ Priced(r)
      BY <2>0, <2>3, PricedAll
    <2>4. CASE s = r /\ Begin(r)
      <3>1. pc[r] = "idle" /\ pc'[r] \in {"lock", "done"} /\ UNCHANGED <<total, need>>
        BY <2>4, CallTypes DEF Begin, Goto
      <3>2. QED
        BY <2>0, <2>4, <3>1 DEF AddedUpFor
    <2>5. CASE s = r /\ Acquire(r)
      <3>1. /\ pc[r] = "lock" /\ pc'[r] = "price" /\ Cart(r)' = Cart(r)
            /\ UNCHANGED <<total, need, line>>
        BY <2>5, CallTypes DEF Acquire, Goto, Cart
      <3>2. line[r] = 1 /\ Len(Cart(r)) \in Nat
        BY <3>1, CartTypes DEF Inductive, LinesKnown
      <3>3. 1..(1 - 1) = {} /\ 1 <= Len(Cart(r)) + 1
        BY <3>2
      <3>4. /\ SumFunctionOnSet(LineMoney(Cart(r)), 1..(1 - 1)) = 0
            /\ \A p \in Products : SumFunctionOnSet(LineStock(Cart(r), p), 1..(1 - 1)) = 0
        BY <3>3, SumNone
      <3>5. QED
        BY <2>0, <2>5, <3>1, <3>2, <3>3, <3>4 DEF AddedUpFor
    <2>6. CASE s = r /\ ~(PriceLine(r) \/ Priced(r) \/ Begin(r) \/ Acquire(r))
      <3>1. UNCHANGED <<order, total, need>>
        BY <1>1, <2>6 DEF Begin, Call, Busy, AcquireFails, RejectLine, Reserve, Refuse,
           ReserveLost, ReserveAgain, XAdd, PushDone, PushFail, PushAgain, UndoWallet, UndoStock,
           UndoDone, Release
      <3>2. \/ pc'[r] \notin {"idle", "lock", "price", "gate", "regate", "push", "repush",
                              "undoWallet"}
            \/ pc[r] \in {"gate", "regate"} /\ pc'[r] \in {"regate", "push"} /\ line' = line
            \/ pc[r] \in {"push", "repush"} /\ pc'[r] \in {"push", "repush"}
            \/ pc[r] \in {"push", "repush"} /\ pc'[r] = "undoWallet" /\ line'[r] = 1
        BY <1>1, <2>6, CallTypes DEF Call, Busy, AcquireFails, RejectLine, Reserve, Refuse,
           ReserveLost, ReserveAgain, AtGate, XAdd, PushDone, PushFail, PushAgain, Pushing,
           UndoWallet, UndoStock, UndoDone, Release, Goto
      <3>3. Cart(r)' = Cart(r)
        BY <3>1 DEF Cart
      <3>4. QED
        BY <2>0, <2>6, <3>1, <3>2, <3>3 DEF AddedUpFor
    <2>7. QED
      BY <1>1, <2>1, <2>2, <2>3, <2>4, <2>5, <2>6
  <1>2. ASSUME ~\E r \in Requests : Begin(r) \/ Call(r), NEW s \in Requests
        PROVE  AddedUpFor(s)'
    <2>1. /\ UNCHANGED <<order, line, total, need>>
          /\ pc'[s] = pc[s] \/ pc'[s] = "dead"
      BY <1>2, OtherSteps, TotalsFrame DEF Call
    <2>2. Cart(s)' = Cart(s)
      BY <2>1 DEF Cart
    <2>3. QED
      BY <2>1, <2>2 DEF AddedUp, AddedUpFor
  <1>3. QED
    BY <1>1, <1>2 DEF AddedUp

\* What the worker has in hand changes as its loop does.
LEMMA InHandStep ==
  ASSUME Inductive, InHand, [Next]_vars
  PROVE  InHand'
  <1>1. CASE GatewayStep
    <2>1. UNCHANGED <<appVars, workerVars>>
      BY <1>1 DEF GatewayStep, GatewayNext
    <2>2. CASE app = "down"
      <3>1. \A r \in Requests : ~Begin(r) /\ ~Call(r)
        BY <2>2, CallInFlight DEF InHand, Begin, Accepting
      <3>2. pc' = pc
        BY <1>1, <3>1 DEF GatewayStep, GatewayNext, Expire, gatewayVars
      <3>3. QED
        BY <2>1, <3>2 DEF InHand, InFlight, appVars, workerVars
    <2>3. QED
      BY <2>1, <2>2 DEF InHand, appVars, workerVars
  <1>2. CASE WorkerStep
    <2>1. UNCHANGED <<appVars, gatewayVars>> /\ WorkerNext
      BY <1>2 DEF WorkerStep, WorkerNext
    <2>2. app # "down"
      BY <2>1 DEF WorkerNext, Settle, StartRead, Deliver, ReadNil, ReadError, Stop, Commit, Abort,
         CommitLost, RefundWallet, RefundStock, Ack, InHand
    <2>3. CASE StartRead \/ Deliver \/ ReadNil \/ ReadError \/ Stop
      BY <2>1, <2>2, <2>3 DEF StartRead, Deliver, ReadNil, ReadError, Stop, Resolve, InHand,
         appVars
    <2>4. CASE Commit \/ Abort \/ CommitLost
      BY <2>1, <2>2, <2>4 DEF Commit, Abort, CommitLost, Take, InHand, appVars
    <2>5. CASE RefundWallet \/ RefundStock \/ Ack
      BY <2>1, <2>2, <2>5 DEF RefundWallet, RefundStock, Ack, InHand, appVars
    <2>6. QED
      BY <2>1, <2>3, <2>4, <2>5 DEF WorkerNext, Settle
  <1>3. CASE Signal \/ GracefulStop \/ Exit \/ Restart \/ UNCHANGED vars
    BY <1>3 DEF Signal, GracefulStop, Exit, Restart, vars, gatewayVars, workerVars, appVars,
       InHand, InFlight
  <1>4. CASE Crash
    BY <1>4, CallTypes DEF Crash, InHand, InFlight
  <1>5. QED
    BY <1>1, <1>2, <1>3, <1>4 DEF Next, Process

\* The two invariants hold at the start.
LEMMA AddedUpInit == Init => AddedUp /\ InHand
  BY DEF Init, StoreInit, GatewayInit, WorkerInit, AddedUp, AddedUpFor, InHand

-----------------------------------------------------------------------------
\* The states in which the lines of a cart are still to be given back.
Undoing == {"undoWallet", "undoStock"}

\* The lines that a call holds are lines of its cart.
LEMMA HeldLines ==
  ASSUME Inductive, NEW r \in Requests, NEW U \in SUBSET Undoing
  PROVE  /\ pc[r] = "idle" => Held(r, U) = {}
         /\ pc[r] # "idle" => Held(r, U) \subseteq DOMAIN Cart(r)
         /\ IsFiniteSet(Held(r, U))
  <1>1. CASE Pushing(r) \/ pc[r] \in U
    <2>1. pc[r] # "idle" /\ Held(r, U) = line[r]..Len(Cart(r))
      BY <1>1 DEF Held, Pushing, Undoing
    <2>2. Len(Cart(r)) \in Nat /\ DOMAIN Cart(r) = 1..Len(Cart(r)) /\ line[r] \in Nat \ {0}
      BY <2>1, CartTypes, CallTypes
    <2>3. IsFiniteSet(line[r]..Len(Cart(r)))
      BY <2>2, FS_Interval
    <2>4. QED
      BY <2>1, <2>2, <2>3
  <1>2. CASE ~(Pushing(r) \/ pc[r] \in U)
    BY <1>2, FS_EmptySet DEF Held
  <1>3. QED
    BY <1>1, <1>2

\* The goods that a call holds are an integer, and none are negative.
LEMMA StockOfTypes ==
  ASSUME Inductive, NEW r \in Requests, NEW p \in Products
  PROVE  /\ StockOf(r, p) \in Int /\ StockOf(r, p) >= 0
         /\ (~Pushing(r) /\ pc[r] \notin Undoing) => StockOf(r, p) = 0
  <1> DEFINE H == Held(r, Undoing)
             f == LineStock(Cart(r), p)
  <1>0. StockOf(r, p) = SumFunctionOnSet(f, H)
    BY DEF StockOf, Undoing
  <1>1. CASE H = {}
    BY <1>0, <1>1, SumNone
  <1>2. CASE H # {}
    <2>1. pc[r] # "idle" /\ H \subseteq DOMAIN Cart(r) /\ IsFiniteSet(H)
      BY <1>2, HeldLines
    <2>2. pc[r] \in {"push", "repush", "undoWallet", "undoStock"}
      BY <1>2 DEF Held, Pushing, Undoing
    <2>3. \A k \in DOMAIN Cart(r) : Cart(r)[k] \in Line /\ Cart(r)[k].qty > 0
                                    /\ Cart(r)[k].qty \in Int
      BY <2>1, <2>2, CartTypes DEF Inductive, QuantitiesPositive, Line
    <2>4. \A k \in H : f[k] \in Int /\ f[k] >= 0
      BY <2>1, <2>3, LineTypes DEF LineStock
    <2> HIDE DEF H, f
    <2>5. SumFunctionOnSet(f, H) \in Int
      BY <2>1, <2>4, SumInt
    <2>6. SumFunctionOnSet(f, {}) <= SumFunctionOnSet(f, H)
      BY <2>1, <2>4, SumOfPart
    <2>7. QED
      BY <1>0, <2>2, <2>5, <2>6, SumNone DEF Pushing, Undoing
  <1>3. (~Pushing(r) /\ pc[r] \notin Undoing) => H = {}
    BY DEF Held
  <1>4. QED
    BY <1>0, <1>1, <1>2, <1>3, SumNone

\* A line that has been queued or given back is no longer held.
LEMMA HeldMovesOn ==
  ASSUME Inductive, NEW r \in Requests, NEW U \in SUBSET Undoing, Pushing(r) \/ pc[r] \in U,
         MoreLines(r), pc'[r] = pc[r], Cart(r)' = Cart(r), line'[r] = line[r] + 1
  PROVE  line[r] \in Held(r, U) /\ Held(r, U)' = Held(r, U) \ {line[r]}
  <1>1. pc[r] # "idle" /\ Held(r, U) = line[r]..Len(Cart(r))
    BY DEF Held, Pushing, Undoing
  <1>2. Held(r, U)' = (line[r] + 1)..Len(Cart(r))
    BY DEF Held, Pushing
  <1>3. line[r] \in Nat /\ Len(Cart(r)) \in Nat /\ line[r] <= Len(Cart(r))
    BY <1>1, CallTypes, CartTypes DEF MoreLines
  <1>4. QED
    BY <1>1, <1>2, <1>3

\* The goods that are held without the line that the call is at.
LEMMA StockMovesOn ==
  ASSUME Inductive, NEW r \in Requests, NEW p \in Products, Pushing(r) \/ pc[r] \in Undoing,
         MoreLines(r), pc'[r] = pc[r], Cart(r)' = Cart(r), line'[r] = line[r] + 1
  PROVE  Taken(At(r), p) \in Int /\ StockOf(r, p)' = StockOf(r, p) - Taken(At(r), p)
  <1> DEFINE H == Held(r, Undoing)
             f == LineStock(Cart(r), p)
  <1>1. line[r] \in H /\ H' = H \ {line[r]}
    BY HeldMovesOn
  <1>2. StockOf(r, p) = SumFunctionOnSet(f, H) /\ StockOf(r, p)' = SumFunctionOnSet(f, H')
    BY DEF StockOf, Undoing
  <1>3. pc[r] # "idle"
    BY DEF Pushing, Undoing
  <1>4. IsFiniteSet(H) /\ \A k \in H : f[k] = Taken(Cart(r)[k], p) /\ f[k] \in Int
    BY <1>3, HeldLines, CartTypes, LineTypes DEF LineStock
  <1>5. f[line[r]] = Taken(At(r), p)
    BY <1>1, <1>4 DEF At
  <1> HIDE DEF H, f
  <1>6. SumFunctionOnSet(f, H) = f[line[r]] + SumFunctionOnSet(f, H \ {line[r]})
    BY <1>1, <1>4, SumTakes
  <1>7. SumFunctionOnSet(f, H) \in Int /\ f[line[r]] \in Int
    BY <1>1, <1>4, SumInt
  <1>8. SumFunctionOnSet(f, H \ {line[r]}) \in Int
    BY <1>4, FS_Subset, SumInt
  <1>9. QED
    BY <1>1, <1>2, <1>5, <1>6, <1>7, <1>8

\* The script takes what the whole cart takes, and the whole cart is held behind it.
LEMMA GateNeed ==
  ASSUME Inductive, AddedUp, NEW r \in Requests, AtGate(r), NEW p \in Products
  PROVE  /\ need[r][p] \in Int /\ need[r][p] >= 0 /\ StockOf(r, p) = 0
         /\ Pushing(r)' /\ line'[r] = line[r] /\ Cart(r)' = Cart(r) => StockOf(r, p)' = need[r][p]
  <1> DEFINE f == LineStock(Cart(r), p)
             D == DOMAIN Cart(r)
  <1>1. pc[r] \in {"gate", "regate"} /\ pc[r] # "idle" /\ line[r] = 1
    BY DEF AtGate, AddedUp, AddedUpFor
  <1>2. need[r][p] = SumFunctionOnSet(f, D)
    BY <1>1 DEF AddedUp, AddedUpFor
  <1>3. /\ D = 1..Len(Cart(r)) /\ IsFiniteSet(D)
        /\ \A k \in D : Cart(r)[k] \in Line /\ Cart(r)[k].qty > 0 /\ Cart(r)[k].qty \in Int
    BY <1>1, CartTypes DEF Inductive, QuantitiesPositive, Line
  <1>4. \A k \in D : f[k] \in Int /\ f[k] >= 0
    BY <1>3, LineTypes DEF LineStock
  <1>5. SumFunctionOnSet(f, D) \in Int /\ SumFunctionOnSet(f, {}) <= SumFunctionOnSet(f, D)
    <2> HIDE DEF f, D
    <2>1. QED
      BY <1>3, <1>4, SumInt, SumOfPart
  <1>6. StockOf(r, p) = 0
    BY <1>1, StockOfTypes DEF Pushing, Undoing
  <1>7. ASSUME Pushing(r)', line'[r] = line[r], Cart(r)' = Cart(r)
        PROVE  StockOf(r, p)' = need[r][p]
    <2>1. Held(r, {"undoWallet", "undoStock"})' = D
      BY <1>1, <1>3, <1>7 DEF Held
    <2>2. QED
      BY <1>2, <1>7, <2>1 DEF StockOf
  <1>8. QED
    BY <1>2, <1>5, <1>6, <1>7, SumNone

\* Faults that make one command count twice, or a pipeline half.
NoDoubles == {"partial", "resend", "recount", "commit"} \cap Faults = {}

\* A task that a call adds takes p as its line does.
NewStock(r, p) == IF log' = log THEN 0 ELSE Taken(TaskOf(r), p)

\* A step of a call moves goods between the counter, its own hands and the stream; it
\* loses some only when a reply is lost.
LEMMA CallStock ==
  ASSUME Inductive, AddedUp, NoDoubles, NEW r \in Requests, Begin(r) \/ Call(r),
         NEW p \in Products
  PROVE  /\ stock'[p] \in Int /\ StockOf(r, p)' \in Int /\ NewStock(r, p) \in Int
         /\ stock'[p] + StockOf(r, p)' + NewStock(r, p) <= stock[p] + StockOf(r, p)
         /\ {"redis", "rerun"} \cap Faults = {} =>
              stock'[p] + StockOf(r, p)' + NewStock(r, p) = stock[p] + StockOf(r, p)
  <1> DEFINE Goal == /\ stock'[p] \in Int /\ StockOf(r, p)' \in Int /\ NewStock(r, p) \in Int
                     /\ stock'[p] + StockOf(r, p)' + NewStock(r, p) <= stock[p] + StockOf(r, p)
                     /\ {"redis", "rerun"} \cap Faults = {} =>
                          stock'[p] + StockOf(r, p)' + NewStock(r, p) = stock[p] + StockOf(r, p)
  <1>t. stock[p] \in Int /\ StockOf(r, p) \in Int /\ StockOf(r, p) >= 0
    BY CartTypes, StockOfTypes
  <1>1. CASE XAdd(r)
    <2>1. /\ Pushing(r) /\ MoreLines(r) /\ pc'[r] = pc[r] /\ Cart(r)' = Cart(r)
          /\ line'[r] = line[r] + 1 /\ stock' = stock
      BY <1>1, CallTypes DEF XAdd, Cart, cacheVars
    <2>2. Taken(At(r), p) \in Int /\ StockOf(r, p)' = StockOf(r, p) - Taken(At(r), p)
      BY <2>1, StockMovesOn
    <2>3. log' # log
      <3>1. log \in Seq(Task) /\ log' = Append(log, TaskOf(r))
        BY <1>1, CallTypes DEF XAdd
      <3>2. Len(log') = Len(log) + 1 /\ Len(log) \in Nat
        BY <3>1
      <3>3. QED
        BY <3>2
    <2>4. NewStock(r, p) = Taken(At(r), p)
      BY <2>3 DEF NewStock, TaskOf, Taken
    <2>5. QED
      BY <1>t, <2>1, <2>2, <2>4
  <1>2. CASE UndoStock(r)
    <2>1. /\ pc[r] \in Undoing /\ MoreLines(r) /\ pc'[r] = pc[r] /\ Cart(r)' = Cart(r)
          /\ line'[r] = line[r] + 1 /\ log' = log
      BY <1>2, CallTypes DEF UndoStock, Undoing, Cart
    <2>2. Taken(At(r), p) \in Int /\ StockOf(r, p)' = StockOf(r, p) - Taken(At(r), p)
      BY <2>1, StockMovesOn
    <2>3. At(r).qty > 0 /\ At(r) \in Line
      <3>1. pc[r] # "idle" /\ pc[r] = "undoStock" /\ line[r] \in Nat \ {0}
        BY <1>2, CallTypes DEF UndoStock
      <3>2. line[r] \in DOMAIN Cart(r)
        BY <2>1, <3>1, CartTypes DEF MoreLines
      <3>3. QED
        BY <3>1, <3>2, CartTypes DEF At, Inductive, QuantitiesPositive
    <2>4. PICK k \in Times :
            stock' = [stock EXCEPT ![At(r).product] = @ + k * Taken(At(r), At(r).product)]
      BY <1>2 DEF UndoStock
    <2>5. k \in {0, 1} /\ ({"redis", "rerun"} \cap Faults = {} => k = 1)
      BY <2>4 DEF Times, NoDoubles
    <2>6. stock'[p] = stock[p] + k * Taken(At(r), p)
      <3>1. At(r).product \in Products /\ At(r).qty \in Int
        BY <2>3 DEF Line
      <3>2. p # At(r).product => stock'[p] = stock[p] /\ Taken(At(r), p) = 0
        BY <2>4, CartTypes DEF Taken
      <3>3. p = At(r).product => stock'[p] = stock[p] + k * Taken(At(r), p)
        BY <2>4, CartTypes
      <3>4. QED
        BY <1>t, <2>5, <3>2, <3>3
    <2>7. Taken(At(r), p) >= 0
      BY <2>3, LineTypes DEF Line
    <2>8. NewStock(r, p) = 0
      BY <2>1 DEF NewStock
    <2>9. QED
      BY <1>t, <2>2, <2>5, <2>6, <2>7, <2>8
  <1>3. CASE Reserve(r) \/ ReserveLost(r) \/ ReserveAgain(r)
    <2>1. /\ AtGate(r) /\ Deduct(r) /\ line' = line /\ order' = order /\ log' = log
          /\ Reserve(r) => Pushing(r)'
          /\ ~Reserve(r) => /\ {"redis", "rerun"} \cap Faults # {}
                            /\ pc'[r] \in {"release", "regate"}
      BY <1>3, CallTypes DEF Reserve, ReserveLost, ReserveAgain, AtGate, Goto, Pushing
    <2>2. stock'[p] = stock[p] - need[r][p]
      BY <2>1 DEF Deduct
    <2>3. need[r][p] \in Int /\ need[r][p] >= 0 /\ StockOf(r, p) = 0
      BY <2>1, GateNeed
    <2>4. CASE Reserve(r)
      <3>1. StockOf(r, p)' = need[r][p]
        BY <2>1, <2>4, GateNeed DEF Cart
      <3>2. QED
        BY <1>t, <2>1, <2>2, <2>3, <3>1 DEF NewStock
    <2>5. CASE ~Reserve(r)
      <3>1. Held(r, {"undoWallet", "undoStock"})' = {}
        BY <2>1, <2>5 DEF Held, Pushing
      <3>2. StockOf(r, p)' = 0
        BY <3>1, SumNone DEF StockOf
      <3>3. QED
        BY <1>t, <2>1, <2>2, <2>3, <2>5, <3>2 DEF NewStock
    <2>6. QED
      BY <2>4, <2>5
  <1>4. ASSUME stock' = stock, log' = log, StockOf(r, p)' = StockOf(r, p)
        PROVE  Goal
    BY <1>t, <1>4 DEF NewStock
  <1>5. CASE PushFail(r) \/ UndoWallet(r)
    <2>1. /\ stock' = stock /\ log' = log /\ order' = order
          /\ Pushing(r) \/ pc[r] \in Undoing
          /\ pc'[r] \in Undoing /\ line'[r] = line[r]
      BY <1>5, CallTypes DEF PushFail, PushMayFail, UndoWallet, NoDoubles, Undoing, Goto,
         cacheVars
    <2>2. Held(r, {"undoWallet", "undoStock"})' = Held(r, {"undoWallet", "undoStock"})
      BY <2>1 DEF Held, Undoing, Cart, Pushing
    <2>3. StockOf(r, p)' = StockOf(r, p)
      BY <2>1, <2>2 DEF StockOf, Cart
    <2>4. QED
      BY <1>4, <2>1, <2>3
  <1>6. CASE PushDone(r) \/ UndoDone(r)
    <2>1. /\ stock' = stock /\ log' = log /\ pc[r] # "idle" /\ pc'[r] = "release"
          /\ ~MoreLines(r)
      BY <1>6, CallTypes DEF PushDone, UndoDone, Pushing, Goto, cacheVars
    <2>2. line[r]..Len(Cart(r)) = {}
      BY <2>1, CallTypes, CartTypes DEF MoreLines
    <2>3. /\ Held(r, {"undoWallet", "undoStock"}) = {}
          /\ Held(r, {"undoWallet", "undoStock"})' = {}
      BY <2>1, <2>2 DEF Held, Pushing
    <2>4. StockOf(r, p)' = StockOf(r, p)
      BY <2>3, SumNone DEF StockOf
    <2>5. QED
      BY <1>4, <2>1, <2>4
  <1>7. CASE \/ Begin(r) \/ Acquire(r) \/ Busy(r) \/ AcquireFails(r) \/ PriceLine(r)
             \/ RejectLine(r) \/ Priced(r) \/ Refuse(r) \/ Release(r)
    <2>1. /\ stock' = stock /\ log' = log
          /\ ~Pushing(r) /\ pc[r] \notin Undoing /\ ~Pushing(r)' /\ pc'[r] \notin Undoing
      BY <1>7, CallTypes DEF Begin, Acquire, Busy, AcquireFails, PriceLine, RejectLine, Priced,
         Refuse, AtGate, Release, Pushing, Undoing, Goto, cacheVars
    <2>2. /\ Held(r, {"undoWallet", "undoStock"}) = {}
          /\ Held(r, {"undoWallet", "undoStock"})' = {}
      BY <2>1 DEF Held, Undoing
    <2>3. StockOf(r, p)' = StockOf(r, p)
      BY <2>2, SumNone DEF StockOf
    <2>4. QED
      BY <1>4, <2>1, <2>3
  <1>8. ~PushAgain(r)
    BY DEF PushAgain, NoDoubles
  <1> HIDE DEF Goal
  <1>9. Goal
    BY <1>1, <1>2, <1>3, <1>5, <1>6, <1>7, <1>8 DEF Call, Goal
  <1>10. QED
    BY <1>9 DEF Goal

-----------------------------------------------------------------------------
\* What all the calls hold moves with the call that makes the step.
LEMMA HeldStockMoves ==
  ASSUME NEW r \in Requests, NEW p \in Products,
         \A s \in Requests : StockOf(s, p) \in Int /\ StockOf(s, p)' \in Int,
         \A s \in Requests \ {r} : StockOf(s, p)' = StockOf(s, p)
  PROVE  /\ HeldStock(p) \in Int
         /\ HeldStock(p)' = HeldStock(p) + (StockOf(r, p)' - StockOf(r, p))
  <1> DEFINE f == [s \in Requests |-> StockOf(s, p)]
             g == [s \in Requests |-> StockOf(s, p)']
  <1>1. HeldStock(p) = SumFunctionOnSet(f, Requests) /\ HeldStock(p)' = SumFunctionOnSet(g, Requests)
    BY DEF HeldStock, SumFunction
  <1>2. \A s \in Requests : f[s] \in Int /\ g[s] \in Int
    OBVIOUS
  <1>3. \A s \in Requests \ {r} : f[s] = g[s]
    OBVIOUS
  <1>4. f[r] = StockOf(r, p) /\ g[r] = StockOf(r, p)'
    OBVIOUS
  <1> HIDE DEF f, g
  <1>5. SumFunctionOnSet(g, Requests) = SumFunctionOnSet(f, Requests) + (g[r] - f[r])
    BY <1>2, <1>3, CallsAssumption, SumBut
  <1>6. SumFunctionOnSet(f, Requests) \in Int
    BY <1>2, CallsAssumption, SumInt
  <1>7. QED
    BY <1>1, <1>4, <1>5, <1>6

\* The types of the state that a step leads to.
LEMMA StockStaysTyped ==
  Inductive' => \A r \in Requests, p \in Products : StockOf(r, p)' \in Int
  <1>1. Inductive => \A r \in Requests, p \in Products : StockOf(r, p) \in Int
    BY StockOfTypes
  <1>2. Inductive' => (\A r \in Requests, p \in Products : StockOf(r, p) \in Int)'
    BY <1>1, PTL
  <1>3. QED
    BY <1>2

\* It is an integer, none when nothing is at work, and at most what it was when calls
\* are cut off.
LEMMA HeldStockTypes ==
  ASSUME Inductive, NEW p \in Products
  PROVE  /\ HeldStock(p) \in Int
         /\ (\A r \in Requests : ~InFlight(r)) => HeldStock(p) = 0
         /\ Inductive' /\ (\A r \in Requests : StockOf(r, p)' <= StockOf(r, p))
              => HeldStock(p)' \in Int /\ HeldStock(p)' <= HeldStock(p)
  <1> DEFINE f == [s \in Requests |-> StockOf(s, p)]
             g == [s \in Requests |-> StockOf(s, p)']
             z == [s \in Requests |-> 0]
  <1>1. HeldStock(p) = SumFunctionOnSet(f, Requests) /\ HeldStock(p)' = SumFunctionOnSet(g, Requests)
    BY DEF HeldStock, SumFunction
  <1>2. \A s \in Requests : f[s] \in Int
    BY StockOfTypes
  <1>3. ASSUME \A r \in Requests : ~InFlight(r)
        PROVE  SumFunctionOnSet(f, Requests) = 0
    <2>1. \A s \in Requests : f[s] = 0
      BY <1>3, StockOfTypes DEF InFlight, Pushing, Undoing
    <2> HIDE DEF f
    <2>2. QED
      BY <2>1, CallsAssumption, SumZero
  <1>4. ASSUME Inductive', \A r \in Requests : StockOf(r, p)' <= StockOf(r, p)
        PROVE  /\ SumFunctionOnSet(g, Requests) \in Int
               /\ SumFunctionOnSet(g, Requests) <= SumFunctionOnSet(f, Requests)
    <2>1. \A s \in Requests : StockOf(s, p)' \in Int
      BY <1>4, StockStaysTyped
    <2>2. \A s \in Requests : g[s] \in Int /\ g[s] <= f[s]
      BY <1>4, <2>1
    <2> HIDE DEF f, g
    <2>3. QED
      BY <1>2, <2>2, CallsAssumption, SumAtMost, SumInt
  <1>5. SumFunctionOnSet(f, Requests) \in Int
    <2> HIDE DEF f
    <2>1. QED
      BY <1>2, CallsAssumption, SumInt
  <1>6. QED
    BY <1>1, <1>3, <1>4, <1>5

\* A finite set of numbers that is not empty has a least one.
LEMMA Least ==
  ASSUME NEW S \in SUBSET Int, IsFiniteSet(S), S # {}
  PROVE  \E x \in S : \A y \in S : x <= y
  <1> DEFINE UpTo(i) == {k \in S : k <= i}
             T == {UpTo(i) : i \in S}
  <1>1. T \subseteq FiniteSubsetsOf(S) /\ T # {}
    <2>1. \A i \in S : IsFiniteSet(UpTo(i)) /\ UpTo(i) \subseteq S
      BY FS_Subset
    <2>2. QED
      BY <2>1 DEF FiniteSubsetsOf
  <1>2. PICK x \in T : \A y \in SUBSET x : y \in T => y = x
    <2> HIDE DEF T
    <2>1. QED
      BY <1>1, Smallest
  <1>3. PICK i \in S : x = UpTo(i)
    OBVIOUS
  <1>4. ASSUME NEW j \in S, j < i
        PROVE  FALSE
    <2>1. UpTo(j) \in T
      OBVIOUS
    <2>2. i \in UpTo(i) /\ i \notin UpTo(j)
      BY <1>4
    <2>3. UpTo(j) \subseteq UpTo(i)
      <3>1. i \in Int /\ j \in Int /\ \A k \in S : k \in Int
        OBVIOUS
      <3>2. \A k \in S : k <= j => k <= i
        BY <1>4, <3>1
      <3>3. QED
        BY <3>2
    <2> HIDE DEF UpTo, T
    <2>4. QED
      BY <1>2, <1>3, <2>1, <2>2, <2>3
  <1>5. QED
    BY <1>4

\* A reply that is not empty hands on something.
LEMMA ReplyNotEmpty ==
  ASSUME Inductive, Available # {}
  PROVE  NextBatch # {}
  <1>1. Available \subseteq Int /\ IsFiniteSet(Available)
    <2>1. Available \subseteq DOMAIN log /\ DOMAIN log = 1..Len(log) /\ Len(log) \in Nat
      BY CallTypes DEF Available
    <2>2. IsFiniteSet(DOMAIN log) /\ DOMAIN log \subseteq Int
      BY <2>1, FS_Interval
    <2>3. QED
      BY <2>1, <2>2, FS_Subset
  <1>2. PICK i \in Available : \A j \in Available : i <= j
    BY <1>1, Least
  <1>3. {j \in Available : j < i} = {}
    <2>1. \A j \in Available : ~ (j < i)
      BY <1>1, <1>2
    <2>2. QED
      BY <2>1
  <1>4. Cardinality({j \in Available : j < i}) < BatchSize
    BY <1>3, FS_EmptySet, BoundAssumption
  <1>5. QED
    BY <1>4 DEF NextBatch

-----------------------------------------------------------------------------
\* The states in which a task turned down is still to be given back.
Refunding == {"refundWallet", "refundStock"}

\* What the worker can still book or give back.
Claims(U) == Live \cup {i \in DOMAIN log : i = cur /\ wpc \in U}

\* What the tasks take is an integer, and none is negative.
LEMMA TaskTypes ==
  ASSUME Inductive, NEW p \in Products
  PROVE  /\ DOMAIN TasksTake(p) = DOMAIN log /\ IsFiniteSet(DOMAIN log)
         /\ \A i \in DOMAIN log : /\ TasksTake(p)[i] = Taken(log[i], p)
                                  /\ TasksTake(p)[i] \in Int /\ TasksTake(p)[i] >= 0
         /\ \A S \in SUBSET DOMAIN log : IsFiniteSet(S) /\ TaskStock(p, S) \in Int
  <1>1. log \in Seq(Task) /\ DOMAIN log = 1..Len(log) /\ Len(log) \in Nat
    BY CallTypes
  <1>2. IsFiniteSet(DOMAIN log)
    BY <1>1, FS_Interval
  <1>3. \A i \in DOMAIN log : log[i].qty > 0 /\ log[i].qty \in Int
    <2>1. \A i \in DOMAIN log : log[i] \in Task
      BY <1>1
    <2>2. QED
      BY <2>1 DEF Inductive, QuantitiesPositive, Task
  <1>4. \A i \in DOMAIN log : Taken(log[i], p) \in Int /\ Taken(log[i], p) >= 0
    BY <1>3 DEF Taken
  <1>5. ASSUME NEW S \in SUBSET DOMAIN log
        PROVE  IsFiniteSet(S) /\ TaskStock(p, S) \in Int
    <2>1. IsFiniteSet(S) /\ \A i \in S : TasksTake(p)[i] \in Int
      BY <1>2, <1>4, FS_Subset DEF TasksTake
    <2>2. SumFunctionOnSet(TasksTake(p), S) \in Int
      BY <2>1, SumInt
    <2>3. QED
      BY <2>1, <2>2 DEF TaskStock
  <1>6. QED
    BY <1>2, <1>4, <1>5 DEF TasksTake

\* So it is in the state that a step leads to.
LEMMA TaskStaysTyped ==
  Inductive' => \A p \in Products, S \in SUBSET DOMAIN log' : TaskStock(p, S)' \in Int
  <1>1. Inductive => \A p \in Products, S \in SUBSET DOMAIN log : TaskStock(p, S) \in Int
    BY TaskTypes
  <1>2. Inductive' => (\A p \in Products, S \in SUBSET DOMAIN log : TaskStock(p, S) \in Int)'
    BY <1>1, PTL
  <1>3. QED
    BY <1>2

\* Fewer tasks do not take more.
LEMMA FewerTasks ==
  ASSUME Inductive, NEW p \in Products, NEW S \in SUBSET DOMAIN log, NEW T \in SUBSET S
  PROVE  /\ TaskStock(p, T) <= TaskStock(p, S)
         /\ \A i \in S : TaskStock(p, S) = Taken(log[i], p) + TaskStock(p, S \ {i})
  <1>1. /\ IsFiniteSet(S)
        /\ \A i \in S : /\ TasksTake(p)[i] = Taken(log[i], p)
                        /\ TasksTake(p)[i] \in Int /\ TasksTake(p)[i] >= 0
    BY TaskTypes
  <1>2. SumFunctionOnSet(TasksTake(p), T) <= SumFunctionOnSet(TasksTake(p), S)
    BY <1>1, SumOfPart
  <1>3. \A i \in S : SumFunctionOnSet(TasksTake(p), S)
                       = TasksTake(p)[i] + SumFunctionOnSet(TasksTake(p), S \ {i})
    BY <1>1, SumTakes
  <1>4. TaskStock(p, T) <= TaskStock(p, S)
    BY <1>2 DEF TaskStock
  <1>5. \A i \in S : TaskStock(p, S) = Taken(log[i], p) + TaskStock(p, S \ {i})
    BY <1>1, <1>3 DEF TaskStock
  <1>6. QED
    BY <1>4, <1>5

\* A task more takes what it takes.
LEMMA OneTaskMore ==
  ASSUME Inductive, Inductive', NEW r \in Requests, XAdd(r), NEW p \in Products,
         NEW S \in SUBSET DOMAIN log, NEW T \in SUBSET (S \cup {Len(log) + 1})
  PROVE  /\ TaskStock(p, T)' <= TaskStock(p, S) + Taken(TaskOf(r), p)
         /\ T = S \cup {Len(log) + 1} =>
              TaskStock(p, T)' = TaskStock(p, S) + Taken(TaskOf(r), p)
  <1> DEFINE n == Len(log) + 1
             f == TasksTake(p)
             g == TasksTake(p)'
             B == S \cup {n}
  <1>1. /\ DOMAIN log' = DOMAIN log \cup {n} /\ n \notin DOMAIN log /\ log'[n] = TaskOf(r)
        /\ \A i \in DOMAIN log : log'[i] = log[i]
    BY Added
  <1>2. /\ DOMAIN log = 1..Len(log) /\ DOMAIN log' = 1..Len(log') /\ Len(log') \in Nat
        /\ log' \in Seq(Task)
    <2>1. log' \in Seq(Task)
      BY DEF Inductive, TypeOK, StoreTypeOK
    <2>2. QED
      BY <2>1, CallTypes
  <1>3. \A i \in DOMAIN log' : log'[i].qty > 0 /\ log'[i].qty \in Int
    <2>1. \A i \in DOMAIN log' : log'[i] \in Task
      BY <1>2
    <2>2. QED
      BY <2>1 DEF Inductive, QuantitiesPositive, Task
  <1>4. \A i \in DOMAIN log' : g[i] = Taken(log'[i], p) /\ g[i] \in Int /\ g[i] >= 0
    BY <1>3 DEF TasksTake, Taken
  <1>5. \A i \in S : f[i] = g[i] /\ f[i] \in Int
    BY <1>1, <1>4 DEF TasksTake
  <1>6. B \subseteq DOMAIN log' /\ IsFiniteSet(B) /\ IsFiniteSet(S) /\ B \ {n} = S
    <2>1. IsFiniteSet(DOMAIN log')
      BY <1>2, FS_Interval
    <2>2. B \subseteq DOMAIN log' /\ S \subseteq B
      BY <1>1
    <2>3. B \ {n} = S
      BY <1>1
    <2> HIDE DEF B
    <2>4. QED
      BY <2>1, <2>2, <2>3, FS_Subset
  <1>7. g[n] = Taken(TaskOf(r), p) /\ n \in B
    BY <1>1, <1>4
  <1>8. TaskStock(p, S) = SumFunctionOnSet(f, S) /\ TaskStock(p, T)' = SumFunctionOnSet(g, T)
    BY DEF TaskStock
  <1>9. T \in SUBSET B /\ \A i \in B : g[i] \in Int /\ g[i] >= 0
    BY <1>4, <1>6
  <1> HIDE DEF f, g, B
  <1>10. SumFunctionOnSet(g, B) = g[n] + SumFunctionOnSet(g, S)
    BY <1>6, <1>7, <1>9, SumTakes
  <1>11. SumFunctionOnSet(f, S) = SumFunctionOnSet(g, S)
    BY <1>5, <1>6, SumSame
  <1>12. SumFunctionOnSet(g, T) <= SumFunctionOnSet(g, B)
    BY <1>6, <1>9, SumOfPart
  <1>13. SumFunctionOnSet(f, S) \in Int /\ g[n] \in Int
    BY <1>5, <1>6, <1>7, <1>9, SumInt
  <1>14. SumFunctionOnSet(g, T) <= SumFunctionOnSet(f, S) + g[n]
    BY <1>10, <1>11, <1>12, <1>13
  <1>15. T = B => SumFunctionOnSet(g, T) = SumFunctionOnSet(f, S) + g[n]
    BY <1>10, <1>11, <1>13
  <1>16. QED
    BY <1>7, <1>8, <1>14, <1>15 DEF B

\* The loop of the worker comes to no task that it could not come to before.
LEMMA ClaimsWait ==
  ASSUME Inductive, InHand, NEW U \in SUBSET Refunding, log' = log,
         StartRead \/ Deliver \/ ReadNil \/ ReadError \/ Stop \/ Ack
  PROVE  Claims(U)' \subseteq Live /\ Handled' = Handled /\ UNCHANGED <<stock, wallet, dbVars>>
  <1>1. Handled' = Handled /\ UNCHANGED <<stock, wallet, dbVars>>
    BY DEF StartRead, Deliver, ReadNil, ReadError, Stop, Ack, Handled, Committed, dbVars
  <1>2. DOMAIN log = 1..Len(log) /\ Len(log) \in Nat /\ rpos \in 0..Len(log)
    BY CallTypes DEF Inductive, TypeOK, WorkerTypeOK
  <1>3. Claims(U)' = Live'
    BY DEF StartRead, Deliver, ReadNil, ReadError, Stop, Ack, Refunding, Claims
  <1>4. CASE StartRead
    <2>1. \A i \in DOMAIN log : cursor = Latest => ~ (i > Resolve(cursor))
      BY <1>2 DEF Resolve
    <2>2. QED
      BY <1>1, <1>3, <1>4, <2>1 DEF StartRead, Live, Resolve
  <1>5. CASE Deliver
    <2>1. PICK k \in NextBatch : k \in DOMAIN log /\ k > rpos
      BY <1>5, ReplyNotEmpty DEF Deliver, NextBatch, Available
    <2>2. \A i \in DOMAIN log : i \in NextBatch \/ k < i => i > rpos
      BY <1>2, <2>1 DEF NextBatch, Available
    <2>3. wpc = "reading" /\ wpc' = "batch" /\ batch' = NextBatch
      BY <1>5 DEF Deliver
    <2>4. QED
      BY <1>1, <1>3, <2>1, <2>2, <2>3 DEF Live
  <1>6. CASE ReadNil \/ ReadError \/ Stop
    BY <1>1, <1>3, <1>6 DEF ReadNil, ReadError, Stop, Live, InHand
  <1>7. CASE Ack
    <2>1. /\ wpc = "ack" /\ cursor' = cur /\ cur' = 0 /\ batch' = batch
          /\ wpc' = IF batch = {} THEN "loop" ELSE "batch"
      BY <1>7 DEF Ack
    <2>2. CASE batch = {}
      BY <1>1, <1>3, <2>1, <2>2 DEF Live
    <2>3. CASE batch # {}
      <3>1. PICK k \in batch : TRUE
        BY <2>3
      <3>2. cur < k /\ cur \in Int /\ \A j \in batch : j \in Int
        BY <1>2, <2>1 DEF Inductive, CurrentFirst, TypeOK, WorkerTypeOK
      <3>3. \A i \in DOMAIN log : (\A j \in batch : j < i) => cur < i
        BY <1>2, <3>1, <3>2
      <3>4. QED
        BY <1>1, <1>3, <2>1, <2>3, <3>3 DEF Live
    <2>4. QED
      BY <2>2, <2>3
  <1>8. QED
    BY <1>4, <1>5, <1>6, <1>7

\* A task that is taken up leaves the others, and is one that could be come to.
LEMMA ClaimsTaken ==
  ASSUME Inductive, InHand, log' = log, wpc = "batch", NEW i \in batch, IsOldest(i), Take(i),
         wpc' \in {"refundWallet", "ack"}, Handled' = Handled \cup {i}
  PROVE  /\ i \in Live /\ i \in DOMAIN log /\ Live' \subseteq Live \ {i}
         /\ \A U : Claims(U)' \subseteq Live' \cup (IF wpc' \in U THEN {i} ELSE {})
  <1>1. i \in DOMAIN log /\ i \in Int /\ cur = 0 /\ batch \subseteq DOMAIN log
        /\ DOMAIN log \subseteq Int /\ \A j \in DOMAIN log : 0 < j
    BY CallTypes DEF Inductive, TypeOK, WorkerTypeOK, InHand
  <1>2. i \notin Handled
    BY <1>1 DEF Inductive, Frontier
  <1>3. i \in Live
    BY <1>1, <1>2 DEF Live
  <1>4. cur' = i /\ batch' = batch \ {i}
    BY DEF Take
  <1>5. Live' \subseteq Live \ {i}
    <2>1. \A j \in Live' : j \in DOMAIN log \ Handled /\ j # i
                           /\ (j \in batch' \/ \A k \in batch' \cup {i} : k < j)
      BY <1>4 DEF Live
    <2>2. \A j \in DOMAIN log : (\A k \in batch' \cup {i} : k < j) => \A k \in batch \cup {0} : k < j
      BY <1>1, <1>4
    <2>3. QED
      BY <1>1, <1>4, <2>1, <2>2 DEF Live
  <1>6. QED
    BY <1>1, <1>3, <1>4, <1>5 DEF Claims

-----------------------------------------------------------------------------
\* What is promised of product p: on the counter, to calls and to tasks.
Promised(p) == stock[p] + HeldStock(p) + TaskStock(p, Claims(Refunding))

\* StockCovered with the tasks that are still to be given back.
StockKept == \A p \in Products : Promised(p) <= dbStock[p]

\* The parts of that sum are integers.
LEMMA PromiseTypes ==
  ASSUME Inductive, NEW p \in Products
  PROVE  /\ stock[p] \in Int /\ dbStock[p] \in Int /\ HeldStock(p) \in Int
         /\ \A U : Claims(U) \subseteq DOMAIN log /\ TaskStock(p, Claims(U)) \in Int
  <1>1. \A U : Claims(U) \subseteq DOMAIN log
    BY DEF Claims, Live
  <1>2. \A U : TaskStock(p, Claims(U)) \in Int
    BY <1>1, TaskTypes
  <1>3. QED
    BY <1>1, <1>2, CartTypes, HeldStockTypes

\* So is it in the state that a step leads to.
LEMMA PromiseStaysTyped ==
  Inductive' => \A p \in Products : Promised(p)' \in Int
  <1>1. Inductive => \A p \in Products : Promised(p) \in Int
    BY PromiseTypes DEF Promised
  <1>2. Inductive' => (\A p \in Products : Promised(p) \in Int)'
    BY <1>1, PTL
  <1>3. QED
    BY <1>2

\* Calls that are left alone hold what they held.
LEMMA OthersHold ==
  ASSUME NEW s \in Requests, NEW p \in Products, pc'[s] = pc[s], order'[s] = order[s],
         line'[s] = line[s]
  PROVE  StockOf(s, p)' = StockOf(s, p)
  BY DEF StockOf, Held, Pushing, Cart

\* A step of a call promises nothing more.
LEMMA CallPromises ==
  ASSUME Inductive, Inductive', AddedUp, NoDoubles, NEW r \in Requests, Begin(r) \/ Call(r),
         UNCHANGED <<dbVars, workerVars>>, NEW p \in Products
  PROVE  Promised(p)' <= Promised(p)
  <1> DEFINE S == Claims(Refunding)
             T == S'
             a == StockOf(r, p)
             b == StockOf(r, p)'
             n == NewStock(r, p)
             h == HeldStock(p)
             k == HeldStock(p)'
             s == TaskStock(p, S)
             t == TaskStock(p, S)'
  <1>1. /\ stock'[p] \in Int /\ b \in Int /\ n \in Int /\ stock'[p] + b + n <= stock[p] + a
    BY CallStock
  <1>2. a \in Int /\ stock[p] \in Int /\ h \in Int /\ s \in Int /\ S \subseteq DOMAIN log
    BY PromiseTypes, StockOfTypes
  <1>3. k = h + (b - a)
    <2>1. \A q \in Requests : StockOf(q, p) \in Int /\ StockOf(q, p)' \in Int
      BY StockOfTypes, StockStaysTyped
    <2>2. \A q \in Requests \ {r} : StockOf(q, p)' = StockOf(q, p)
      BY CallFrame, OthersHold
    <2>3. QED
      BY <2>1, <2>2, HeldStockMoves
  <1>4. t \in Int /\ t <= s + n
    <2>1. t = SumFunctionOnSet(TasksTake(p)', T)
      BY DEF TaskStock
    <2>2. /\ \A i \in DOMAIN log' : i \in DOMAIN log \/ i = Len(log) + 1
          /\ log' = log \/ XAdd(r)
      BY CallFrame, Added
    <2>3. T \subseteq S \cup (IF log' = log THEN {} ELSE {Len(log) + 1})
      <3>1. Handled' = Handled
        BY DEF Handled, Committed, dbVars, workerVars
      <3>2. QED
        BY <2>2, <3>1 DEF Claims, Live, workerVars
    <2> HIDE DEF S, T
    <2>4. CASE log' = log
      <3>1. TasksTake(p)' = TasksTake(p) /\ n = 0
        BY <2>4 DEF TasksTake, NewStock
      <3>2. T \in SUBSET S /\ T \in SUBSET DOMAIN log
        BY <1>2, <2>3, <2>4
      <3>3. TaskStock(p, T) <= s /\ TaskStock(p, T) \in Int
        BY <1>2, <3>2, FewerTasks, TaskTypes
      <3>4. t = TaskStock(p, T)
        BY <2>1, <3>1 DEF TaskStock
      <3>5. QED
        BY <1>2, <3>1, <3>3, <3>4
    <2>5. CASE log' # log
      <3>1. XAdd(r) /\ n = Taken(TaskOf(r), p)
        BY <2>2, <2>5 DEF NewStock
      <3>2. PICK X : X = T
        OBVIOUS
      <3>3. X \in SUBSET (S \cup {Len(log) + 1})
        BY <2>3, <2>5, <3>2
      <3>4. PICK Y \in SUBSET DOMAIN log : Y = S
        BY <1>2
      <3>5. TaskStock(p, X)' <= TaskStock(p, Y) + n
        BY <3>1, <3>3, <3>4, OneTaskMore
      <3>6. TaskStock(p, X)' = t
        BY <2>1, <3>2 DEF TaskStock
      <3>7. X \subseteq DOMAIN log'
        BY <1>2, <3>1, <3>3, Added
      <3>8. \A Z \in SUBSET DOMAIN log' : TaskStock(p, Z)' \in Int
        BY TaskStaysTyped
      <3>9. QED
        BY <3>4, <3>5, <3>6, <3>7, <3>8
    <2>6. QED
      BY <2>4, <2>5
  <1>5. Promised(p) = stock[p] + h + s /\ Promised(p)' = stock'[p] + k + t
    BY DEF Promised
  <1> HIDE DEF S, a, b, n, h, k, s, t
  <1>6. QED
    BY <1>1, <1>2, <1>3, <1>4, <1>5

\* A step that leaves the calls, the stream and the counter of p alone, and promises no
\* task more.
LEMMA SamePromise ==
  ASSUME Inductive, NEW p \in Products, UNCHANGED <<gatewayVars, log>>, stock'[p] = stock[p],
         Claims(Refunding)' \subseteq Claims(Refunding)
  PROVE  Promised(p)' <= Promised(p)
  <1>1. HeldStock(p)' = HeldStock(p)
    BY DEF HeldStock, StockOf, Held, Pushing, Cart, gatewayVars
  <1>2. TaskStock(p, Claims(Refunding))' = TaskStock(p, Claims(Refunding)')
    BY DEF TaskStock, TasksTake
  <1>3. PICK S \in SUBSET DOMAIN log : S = Claims(Refunding)
    BY PromiseTypes
  <1>4. PICK T \in SUBSET S : T = Claims(Refunding)'
    BY <1>3
  <1>5. TaskStock(p, T) <= TaskStock(p, S) /\ TaskStock(p, T) \in Int /\ TaskStock(p, S) \in Int
    BY FewerTasks, TaskTypes
  <1>6. stock[p] \in Int /\ HeldStock(p) \in Int
    BY PromiseTypes
  <1>7. QED
    BY <1>1, <1>2, <1>3, <1>4, <1>5, <1>6 DEF Promised

\* A promise less when a task i is booked, or its goods are given back.
LEMMA TaskPromise ==
  ASSUME Inductive, NEW p \in Products, UNCHANGED <<gatewayVars, log>>, stock'[p] \in Int,
         NEW i \in Claims(Refunding), Claims(Refunding)' \subseteq Claims(Refunding) \ {i}
  PROVE  /\ Promised(p)' <= Promised(p) + (stock'[p] - stock[p]) - Taken(log[i], p)
         /\ Promised(p)' \in Int /\ Promised(p) \in Int /\ Taken(log[i], p) \in Int
  <1>1. HeldStock(p)' = HeldStock(p)
    BY DEF HeldStock, StockOf, Held, Pushing, Cart, gatewayVars
  <1>2. TaskStock(p, Claims(Refunding))' = TaskStock(p, Claims(Refunding)')
    BY DEF TaskStock, TasksTake
  <1>3. PICK S \in SUBSET DOMAIN log : S = Claims(Refunding) /\ i \in S
    BY PromiseTypes
  <1>4. PICK T \in SUBSET (S \ {i}) : T = Claims(Refunding)'
    BY <1>3
  <1>5. S \ {i} \in SUBSET DOMAIN log /\ T \in SUBSET DOMAIN log
    OBVIOUS
  <1>6. TaskStock(p, T) <= TaskStock(p, S \ {i})
    BY <1>5, FewerTasks
  <1>7. TaskStock(p, S) = Taken(log[i], p) + TaskStock(p, S \ {i})
    <2>1. {} \in SUBSET S
      OBVIOUS
    <2>2. QED
      BY <1>3, <2>1, FewerTasks
  <1>8. /\ TaskStock(p, T) \in Int /\ TaskStock(p, S) \in Int /\ TaskStock(p, S \ {i}) \in Int
        /\ Taken(log[i], p) \in Int
    BY <1>3, <1>5, TaskTypes
  <1>9. stock[p] \in Int /\ HeldStock(p) \in Int
    BY PromiseTypes
  <1>10. /\ Promised(p) = stock[p] + HeldStock(p) + TaskStock(p, S)
         /\ Promised(p)' = stock'[p] + HeldStock(p) + TaskStock(p, T)
    BY <1>1, <1>2, <1>3, <1>4 DEF Promised
  <1>11. QED
    BY <1>6, <1>7, <1>8, <1>9, <1>10

\* A step of the worker keeps the promises.
LEMMA WorkerPromises ==
  ASSUME Inductive, InHand, NoDoubles, WorkerStep, NEW p \in Products, Promised(p) <= dbStock[p]
  PROVE  Promised(p)' <= dbStock'[p]
  <1>1. UNCHANGED <<gatewayVars, log>> /\ WorkerNext
    BY DEF WorkerStep, WorkerNext
  <1>t. /\ stock \in [Products -> Int] /\ dbStock \in [Products -> Int]
        /\ Promised(p) \in Int /\ log \in Seq(Task) /\ batch \subseteq DOMAIN log
    <2>1. Promised(p) \in Int
      BY PromiseTypes DEF Promised
    <2>2. QED
      BY <2>1, CartTypes, CallTypes DEF Inductive, TypeOK, WorkerTypeOK
  <1>k. \A i \in DOMAIN log : log[i] \in Task
    BY <1>t
  <1>2. CASE StartRead \/ Deliver \/ ReadNil \/ ReadError \/ Stop \/ Ack
    <2>1. Claims(Refunding)' \subseteq Live /\ stock' = stock /\ dbStock' = dbStock
      BY <1>1, <1>2, ClaimsWait DEF dbVars
    <2>2. Claims(Refunding)' \subseteq Claims(Refunding)
      BY <2>1 DEF Claims
    <2>3. Promised(p)' <= Promised(p)
      BY <1>1, <2>1, <2>2, SamePromise
    <2>4. Promised(p)' = Promised(p)' /\ Promised(p)' \in Int
      BY <1>1, <1>t, <2>1, <2>2, PromiseStaysTyped, InductiveStep DEF Next
    <2>5. QED
      BY <1>t, <2>1, <2>3, <2>4
  <1>3. CASE Commit
    <2>1. PICK i \in batch : IsOldest(i) /\ Settleable(log[i]) /\ Book(i) /\ Take(i)
      BY <1>3 DEF Commit
    <2>2. wpc = "batch" /\ wpc' = "ack" /\ rejected' = rejected /\ stock' = stock
      BY <1>3 DEF Commit
    <2>3. Handled' = Handled \cup {i}
      BY <2>1, <2>2, BookAdds DEF Handled
    <2>4. i \in Claims(Refunding) /\ i \in DOMAIN log
          /\ Claims(Refunding)' \subseteq Claims(Refunding) \ {i}
      <3>1. i \in Live /\ i \in DOMAIN log /\ Live' \subseteq Live \ {i}
            /\ Claims(Refunding)' \subseteq Live' \cup (IF wpc' \in Refunding THEN {i} ELSE {})
        BY <1>1, <2>1, <2>2, <2>3, ClaimsTaken
      <3>2. wpc' \notin Refunding
        BY <2>2 DEF Refunding
      <3>3. Live \subseteq Claims(Refunding) /\ ~ (i = cur)
        BY <1>t, <2>1, <2>2, CallTypes DEF Claims, InHand
      <3>4. QED
        BY <3>1, <3>2, <3>3
    <2>5. stock'[p] \in Int /\ stock'[p] - stock[p] = 0
      BY <1>t, <2>2
    <2>6. /\ Promised(p)' <= Promised(p) + (stock'[p] - stock[p]) - Taken(log[i], p)
          /\ Promised(p)' \in Int /\ Taken(log[i], p) \in Int
      BY <1>1, <2>4, <2>5, TaskPromise
    <2>7. dbStock'[p] >= dbStock[p] - Taken(log[i], p) /\ dbStock'[p] \in Int
      <3>1. log[i].product \in Products /\ log[i].qty \in Int /\ log[i].qty > 0
        BY <1>k, <2>4 DEF Inductive, QuantitiesPositive, Task
      <3>2. dbStock' = [dbStock EXCEPT ![log[i].product] = @ + Sign(log[i]) * log[i].qty]
        BY <2>1 DEF Book, UpdateProduct
      <3>3. CASE p = log[i].product
        BY <1>t, <3>1, <3>2, <3>3 DEF Sign, Taken
      <3>4. CASE p # log[i].product
        BY <1>t, <3>1, <3>2, <3>4 DEF Taken
      <3>5. QED
        BY <3>3, <3>4
    <2>8. QED
      BY <1>t, <2>5, <2>6, <2>7
  <1>4. CASE Abort
    <2>1. PICK i \in batch : IsOldest(i) /\ Take(i) /\ rejected' = rejected \cup {i}
      BY <1>4 DEF Abort
    <2>2. wpc = "batch" /\ wpc' = "refundWallet" /\ UNCHANGED <<stock, dbVars>>
      BY <1>4 DEF Abort
    <2>3. Handled' = Handled \cup {i}
      BY <2>1, <2>2 DEF Handled, Committed, dbVars
    <2>4. Claims(Refunding)' \subseteq Claims(Refunding)
      <3>1. i \in Live /\ Live' \subseteq Live \ {i}
            /\ Claims(Refunding)' \subseteq Live' \cup (IF wpc' \in Refunding THEN {i} ELSE {})
        BY <1>1, <2>1, <2>2, <2>3, ClaimsTaken
      <3>2. QED
        BY <3>1 DEF Claims
    <2>5. Promised(p)' <= Promised(p) /\ Promised(p)' \in Int
      BY <1>1, <2>2, <2>4, SamePromise, PromiseStaysTyped, InductiveStep DEF Next
    <2>6. QED
      BY <1>t, <2>2, <2>5 DEF dbVars
  <1>5. CASE RefundWallet
    <2>1. UNCHANGED <<stock, dbVars, cur, batch, rejected, cursor, rpos>>
          /\ wpc \in Refunding /\ wpc' \in Refunding
      BY <1>5 DEF RefundWallet, Refunding
    <2>2. Claims(Refunding)' \subseteq Claims(Refunding)
      BY <1>1, <2>1 DEF Claims, Live, Handled, Committed, Refunding, dbVars
    <2>3. Promised(p)' <= Promised(p) /\ Promised(p)' \in Int
      BY <1>1, <2>1, <2>2, SamePromise, PromiseStaysTyped, InductiveStep DEF Next
    <2>4. QED
      BY <1>t, <2>1, <2>3 DEF dbVars
  <1>6. CASE RefundStock
    <2>1. UNCHANGED <<dbVars, cur, batch, rejected, cursor, rpos>>
          /\ wpc = "refundStock" /\ wpc' = "ack"
      BY <1>6 DEF RefundStock
    <2>2. PICK k \in ReachTimes :
            stock' = [stock EXCEPT ![log[cur].product] = @ - k * Sign(log[cur]) * log[cur].qty]
      BY <1>6 DEF RefundStock
    <2>3. k \in {0, 1}
      BY <2>2 DEF ReachTimes, Times, NoDoubles
    <2>4. cur \in DOMAIN log /\ cur \in Handled /\ cur \in Claims(Refunding)
      BY <2>1 DEF InHand, Inductive, TypeOK, WorkerTypeOK, Handled, Claims, Refunding
    <2>5. Claims(Refunding)' \subseteq Claims(Refunding) \ {cur}
      BY <1>1, <2>1, <2>4 DEF Claims, Live, Handled, Committed, Refunding, dbVars
    <2>6. log[cur].product \in Products /\ log[cur].qty \in Int /\ log[cur].qty > 0
      BY <1>k, <2>4 DEF Inductive, QuantitiesPositive, Task
    <2>7. stock'[p] \in Int /\ stock'[p] <= stock[p] + Taken(log[cur], p)
      <3>1. CASE p = log[cur].product
        BY <1>t, <2>2, <2>3, <2>6, <3>1 DEF Sign, Taken
      <3>2. CASE p # log[cur].product
        BY <1>t, <2>2, <3>2 DEF Taken
      <3>3. QED
        BY <3>1, <3>2
    <2>8. PICK i \in Claims(Refunding) : i = cur
      BY <2>4
    <2>9. /\ Promised(p)' <= Promised(p) + (stock'[p] - stock[p]) - Taken(log[i], p)
          /\ Promised(p)' \in Int /\ Taken(log[i], p) \in Int
      BY <1>1, <2>5, <2>7, <2>8, TaskPromise
    <2>10. QED
      BY <1>t, <2>1, <2>7, <2>8, <2>9 DEF dbVars
  <1>7. ~CommitLost
    BY DEF CommitLost, NoDoubles
  <1>8. QED
    BY <1>1, <1>2, <1>3, <1>4, <1>5, <1>6, <1>7 DEF WorkerNext, Settle

\* The end of the process takes calls and claims away; its start copies the books.
LEMMA ProcessPromises ==
  ASSUME Inductive, Inductive', InHand, Process, NEW p \in Products, Promised(p) <= dbStock[p]
  PROVE  Promised(p)' <= dbStock'[p]
  <1>t. /\ stock[p] \in Int /\ dbStock[p] \in Int /\ HeldStock(p) \in Int
        /\ TaskStock(p, Claims(Refunding)) \in Int /\ Promised(p) \in Int /\ Promised(p)' \in Int
    BY PromiseTypes, PromiseStaysTyped DEF Promised
  <1>1. CASE Signal \/ GracefulStop
    <2>1. UNCHANGED <<gatewayVars, log, stock, dbStock, workerVars, history>>
      BY <1>1 DEF Signal, GracefulStop, cacheVars, streamVars, dbVars
    <2>2. Claims(Refunding)' \subseteq Claims(Refunding)
      BY <2>1 DEF Claims, Live, Handled, Committed, workerVars
    <2>3. Promised(p)' <= Promised(p)
      BY <2>1, <2>2, SamePromise
    <2>4. QED
      BY <1>t, <2>1, <2>3
  <1>2. CASE Exit \/ Crash \/ Restart
    <2>1. Claims(Refunding)' = {}
      BY <1>2 DEF Exit, Crash, Restart, StartId, Claims, Live, Refunding
    <2>2. TaskStock(p, Claims(Refunding))' = 0
      BY <2>1, SumNone DEF TaskStock
    <2>3. dbStock' = dbStock
      BY <1>2 DEF Exit, Crash, Restart, dbVars
    <2>4. HeldStock(p)' \in Int /\ HeldStock(p)' <= HeldStock(p)
      <3>1. ASSUME NEW r \in Requests
            PROVE  StockOf(r, p)' <= StockOf(r, p)
        <4>1. /\ order' = order /\ line' = line
              /\ pc'[r] = pc[r] \/ pc'[r] = "dead"
          BY <1>2, CallTypes DEF Exit, Crash, Restart, gatewayVars
        <4>2. StockOf(r, p) \in Int /\ StockOf(r, p) >= 0
          BY StockOfTypes
        <4>3. CASE pc'[r] = pc[r]
          BY <4>1, <4>2, <4>3, OthersHold
        <4>4. CASE pc'[r] = "dead"
          <5>1. Held(r, {"undoWallet", "undoStock"})' = {}
            BY <4>4 DEF Held, Pushing
          <5>2. StockOf(r, p)' = 0
            BY <5>1, SumNone DEF StockOf
          <5>3. QED
            BY <4>2, <5>2
        <4>5. QED
          BY <4>1, <4>3, <4>4
      <3>2. QED
        BY <3>1, HeldStockTypes
    <2>5. 0 <= TaskStock(p, Claims(Refunding))
      <3>1. PICK S \in SUBSET DOMAIN log : S = Claims(Refunding)
        BY PromiseTypes
      <3>2. TaskStock(p, {}) <= TaskStock(p, S)
        <4>1. {} \in SUBSET S
          OBVIOUS
        <4>2. QED
          BY <4>1, FewerTasks
      <3>3. TaskStock(p, {}) = 0
        BY SumNone DEF TaskStock
      <3>4. QED
        BY <3>1, <3>2, <3>3
    <2>6. CASE stock'[p] = stock[p]
      BY <1>t, <2>2, <2>3, <2>4, <2>5, <2>6 DEF Promised
    <2>7. CASE stock'[p] # stock[p]
      <3>1. Restart
        BY <1>2, <2>7 DEF Exit, Crash, cacheVars
      <3>2. stock'[p] = dbStock[p]
        BY <2>7, <3>1 DEF Restart, PreheatProducts
      <3>3. HeldStock(p) = 0
        BY <3>1, HeldStockTypes DEF Restart, InHand
      <3>4. HeldStock(p)' <= 0
        BY <2>4, <3>3
      <3>5. QED
        BY <1>t, <2>2, <2>3, <2>4, <3>2, <3>4 DEF Promised
    <2>8. QED
      BY <2>6, <2>7
  <1>3. QED
    BY <1>1, <1>2 DEF Process

\* Every step keeps the promises.
LEMMA StockKeptStep ==
  ASSUME Inductive, AddedUp, InHand, NoDoubles, StockKept, [Next]_vars
  PROVE  StockKept'
  <1>1. Inductive'
    BY InductiveStep
  <1>2. ASSUME NEW p \in Products
        PROVE  Promised(p)' <= dbStock'[p]
    <2>0. Promised(p) <= dbStock[p]
      BY DEF StockKept
    <2>t. Promised(p) \in Int /\ dbStock[p] \in Int /\ Promised(p)' \in Int
      BY <1>1, PromiseTypes, PromiseStaysTyped DEF Promised
    <2>1. CASE \E r \in Requests : (Begin(r) \/ Call(r)) /\ UNCHANGED <<dbVars, workerVars>>
      <3>1. PICK r \in Requests : (Begin(r) \/ Call(r)) /\ UNCHANGED <<dbVars, workerVars>>
        BY <2>1
      <3>2. Promised(p)' <= Promised(p)
        BY <1>1, <3>1, CallPromises
      <3>3. QED
        BY <2>0, <2>t, <3>1, <3>2 DEF dbVars
    <2>2. CASE WorkerStep
      BY <2>0, <2>2, WorkerPromises
    <2>3. CASE Process
      BY <1>1, <2>0, <2>3, ProcessPromises
    <2>4. CASE UNCHANGED <<gatewayVars, log, stock, dbVars, workerVars>>
      <3>1. Claims(Refunding)' \subseteq Claims(Refunding)
        BY <2>4 DEF Claims, Live, Handled, Committed, workerVars, dbVars
      <3>2. Promised(p)' <= Promised(p)
        BY <2>4, <3>1, SamePromise
      <3>3. QED
        BY <2>0, <2>t, <2>4, <3>2 DEF dbVars
    <2>5. (\E u \in Users : Expire(u)) => UNCHANGED <<gatewayVars, log, stock>>
      BY DEF Expire
    <2>6. UNCHANGED vars => UNCHANGED <<gatewayVars, log, stock, dbVars, workerVars>>
      BY DEF vars, cacheVars, streamVars
    <2>7. QED
      BY <2>1, <2>2, <2>3, <2>4, <2>5, <2>6 DEF Next, GatewayStep, GatewayNext
  <1>3. QED
    BY <1>2 DEF StockKept

\* At the start the counters are the stock, and nothing is held or queued.
LEMMA StockKeptInit == Init => StockKept
  <1> SUFFICES ASSUME Init, NEW p \in Products
               PROVE  Promised(p) <= dbStock[p]
    BY DEF StockKept
  <1>1. Inductive
    BY InductiveInit
  <1>2. HeldStock(p) = 0
    BY <1>1, HeldStockTypes DEF Init, GatewayInit, InFlight
  <1>3. Claims(Refunding) = {}
    BY DEF Init, StoreInit, WorkerInit, StartId, Claims, Live, Refunding
  <1>4. TaskStock(p, Claims(Refunding)) = 0
    BY <1>3, SumNone DEF TaskStock
  <1>5. stock[p] = dbStock[p] /\ dbStock[p] \in Int
    BY <1>1, PromiseTypes DEF Init, StoreInit
  <1>6. QED
    BY <1>2, <1>4, <1>5 DEF Promised

\* The stock counter never promises goods that the database does not have, or has
\* promised to a call at work or to a task that the worker can still come to: whatever
\* crashes, shutdowns, restarts and lost replies do, unless a command counts twice, a
\* pipeline counts half, or a COMMIT is taken for a failure.
THEOREM StockIsCovered ==
  ASSUME NoDoubles
  PROVE  Spec => []StockCovered
  <1>1. Init => AddedUp /\ InHand /\ StockKept
    BY AddedUpInit, StockKeptInit
  <1>2. Inductive /\ AddedUp /\ InHand /\ StockKept /\ [Next]_vars
          => AddedUp' /\ InHand' /\ StockKept'
    BY AddedUpStep, InHandStep, StockKeptStep
  <1>3. Inductive /\ StockKept => StockCovered
    <2> SUFFICES ASSUME Inductive, StockKept, NEW p \in Products
                 PROVE  stock[p] + HeldStock(p) + TaskStock(p, Live) <= dbStock[p]
      BY DEF StockCovered
    <2>1. PICK S \in SUBSET DOMAIN log : S = Claims(Refunding)
      BY PromiseTypes
    <2>2. PICK T \in SUBSET S : T = Live
      BY <2>1 DEF Claims
    <2>3. TaskStock(p, T) <= TaskStock(p, S) /\ TaskStock(p, T) \in Int /\ TaskStock(p, S) \in Int
      BY FewerTasks, TaskTypes
    <2>4. QED
      BY <2>1, <2>2, <2>3, PromiseTypes DEF StockKept, Promised
  <1>4. QED
    BY <1>1, <1>2, <1>3, InductiveHolds, PTL DEF Spec

-----------------------------------------------------------------------------
\* A set with one element more, and functions that agree on the rest.
LEMMA SumMoves ==
  ASSUME NEW f, NEW g, NEW S, IsFiniteSet(S), NEW a, a \notin S,
         \A x \in S : f[x] = g[x] /\ f[x] \in Int, g[a] \in Int
  PROVE  /\ SumFunctionOnSet(g, S \cup {a}) = SumFunctionOnSet(f, S) + g[a]
         /\ SumFunctionOnSet(f, S) \in Int
  <1> DEFINE T == S \cup {a}
  <1>1. IsFiniteSet(T) /\ a \in T /\ T \ {a} = S
    BY FS_AddElement
  <1>2. \A x \in T : g[x] \in Int
    OBVIOUS
  <1> HIDE DEF T
  <1>3. SumFunctionOnSet(g, T) = g[a] + SumFunctionOnSet(g, S)
    BY <1>1, <1>2, SumTakes
  <1>4. SumFunctionOnSet(f, S) = SumFunctionOnSet(g, S) /\ SumFunctionOnSet(f, S) \in Int
    BY SumSame, SumInt
  <1>5. QED
    BY <1>3, <1>4 DEF T

\* Faults that lose neither a command nor the process.
NothingLost == Faults \subseteq {"push", "db", "expiry", "snapshot"}

\* Then the process stays up, and every command counts once.
StillUp == app = "up"

\* It does.
LEMMA StillUpStep ==
  ASSUME Inductive, NothingLost, StillUp, [Next]_vars
  PROVE  /\ StillUp' /\ ~Process /\ ReachTimes = {1} /\ Times = {1} /\ NoDoubles
         /\ {"redis", "rerun"} \cap Faults = {}
  <1>1. ~Process
    BY DEF Process, Signal, GracefulStop, Exit, Crash, Restart, NothingLost, StillUp
  <1>2. StillUp'
    BY <1>1 DEF StillUp, Next, GatewayStep, GatewayNext, WorkerStep, WorkerNext, vars, appVars
  <1>3. Times = {1}
    <2>1. "redis" \notin Faults /\ "recount" \notin Faults
      BY DEF NothingLost
    <2>2. QED
      BY <2>1 DEF Times
  <1>4. QED
    BY <1>1, <1>2, <1>3 DEF ReachTimes, StillUp, NoDoubles, NothingLost

\* A task added to the stream is without an outcome.
LEMMA OpenAdds ==
  ASSUME Inductive, NEW r \in Requests, XAdd(r), UNCHANGED <<dbVars, workerVars>>, NEW U
  PROVE  /\ Open(U) \subseteq DOMAIN log /\ Open(U)' = Open(U) \cup {Len(log) + 1}
         /\ DOMAIN log' \ Open(U)' = DOMAIN log \ Open(U)
  <1>1. DOMAIN log' = DOMAIN log \cup {Len(log) + 1} /\ Len(log) + 1 \notin DOMAIN log
    BY Added
  <1>2. Handled' = Handled /\ cur' = cur /\ wpc' = wpc
    BY DEF Handled, Committed, dbVars, workerVars
  <1>3. Handled \subseteq DOMAIN log
    BY DEF Inductive, TypeOK, StoreTypeOK, WorkerTypeOK, Handled
  <1>4. QED
    BY <1>1, <1>2, <1>3 DEF Open

\* The worker's loop gives no task an outcome; neither does a call but one that adds.
LEMMA OpenWaits ==
  ASSUME Inductive, InHand, log' = log, NEW U \in SUBSET Refunding,
         \/ UNCHANGED <<dbVars, workerVars>>
         \/ StartRead \/ Deliver \/ ReadNil \/ ReadError \/ Stop \/ Ack
         \/ RefundWallet /\ U = Refunding
         \/ RefundStock /\ "refundStock" \notin U
  PROVE  Open(U)' = Open(U)
  <1>1. Handled' = Handled
    BY DEF StartRead, Deliver, ReadNil, ReadError, Stop, Ack, RefundWallet, RefundStock, Handled,
       Committed, dbVars, workerVars
  <1>2. CASE UNCHANGED <<dbVars, workerVars>>
    BY <1>1, <1>2 DEF Open, workerVars
  <1>3. CASE StartRead \/ Deliver \/ ReadNil \/ ReadError \/ Stop \/ Ack
    BY <1>1, <1>3 DEF StartRead, Deliver, ReadNil, ReadError, Stop, Ack, Open, Refunding
  <1>4. CASE RefundWallet /\ U = Refunding
    <2>1. wpc = "refundWallet" /\ wpc' = "refundStock" /\ cur' = cur /\ cur \in Handled
      BY <1>4 DEF RefundWallet, InHand, Handled
    <2>2. QED
      BY <1>1, <1>4, <2>1 DEF Open, Refunding
  <1>5. CASE RefundStock /\ "refundStock" \notin U
    BY <1>1, <1>5 DEF RefundStock, Open, Refunding
  <1>6. QED
    BY <1>2, <1>3, <1>4, <1>5

\* The tasks that have their outcome.
Closed(U) == DOMAIN log \ Open(U)

\* The stock counter with all that is held, queued and returned.
Tally(p) ==
  stock[p] + HeldStock(p) + TaskStock(p, Open(Refunding)) + Returned(p, Closed(Refunding))

\* What a task moves of p when it is booked.
Moved(t, p) == IF t.product = p THEN Sign(t) * t.qty ELSE 0

\* The parts of the tally are integers.
LEMMA TallyTypes ==
  ASSUME Inductive, NEW p \in Products
  PROVE  /\ stock[p] \in Int /\ dbStock[p] \in Int /\ HeldStock(p) \in Int
         /\ IsFiniteSet(DOMAIN log) /\ \A U : Open(U) \subseteq DOMAIN log
         /\ \A i \in DOMAIN log : /\ TasksBring(p)[i] \in Int /\ Taken(log[i], p) \in Int
                                  /\ Moved(log[i], p) = TasksBring(p)[i] - Taken(log[i], p)
         /\ \A S \in SUBSET DOMAIN log : TaskStock(p, S) \in Int /\ Returned(p, S) \in Int
  <1>1. \A i \in DOMAIN log : log[i] \in Task
    BY CallTypes
  <1>2. \A i \in DOMAIN log : log[i].qty \in Int /\ log[i].kind \in {"pickup", "return"}
    BY <1>1 DEF Task
  <1>3. \A i \in DOMAIN log : /\ TasksBring(p)[i] \in Int /\ Taken(log[i], p) \in Int
                              /\ Moved(log[i], p) = TasksBring(p)[i] - Taken(log[i], p)
    BY <1>2 DEF TasksBring, Taken, Moved, Sign
  <1>4. ASSUME NEW S \in SUBSET DOMAIN log
        PROVE  TaskStock(p, S) \in Int /\ Returned(p, S) \in Int
    <2>1. TaskStock(p, S) \in Int /\ IsFiniteSet(S)
      BY TaskTypes
    <2>2. \A i \in S : TasksBring(p)[i] \in Int
      BY <1>3
    <2>3. SumFunctionOnSet(TasksBring(p), S) \in Int
      BY <2>1, <2>2, SumInt
    <2>4. QED
      BY <2>1, <2>3 DEF Returned
  <1>5. \A U : Open(U) \subseteq DOMAIN log
    BY DEF Open
  <1>6. QED
    BY <1>3, <1>4, <1>5, TaskTypes, PromiseTypes

\* So is the tally, also in the state that a step leads to.
LEMMA TallyStaysTyped ==
  /\ Inductive => \A p \in Products : Tally(p) \in Int
  /\ Inductive' => \A p \in Products : Tally(p)' \in Int
  <1>1. Inductive => \A p \in Products : Tally(p) \in Int
    <2> SUFFICES ASSUME Inductive, NEW p \in Products
                 PROVE  Tally(p) \in Int
      OBVIOUS
    <2>1. Open(Refunding) \in SUBSET DOMAIN log /\ Closed(Refunding) \in SUBSET DOMAIN log
      BY TallyTypes DEF Closed
    <2>2. QED
      BY <2>1, TallyTypes DEF Tally
  <1>2. Inductive' => (\A p \in Products : Tally(p) \in Int)'
    BY <1>1, PTL
  <1>3. QED
    BY <1>1, <1>2

\* A step that leaves the calls, the stream, the counter of p and the outcomes alone.
LEMMA SameTally ==
  ASSUME UNCHANGED <<gatewayVars, log>>, NEW p \in Products, stock'[p] = stock[p],
         Open(Refunding)' = Open(Refunding)
  PROVE  Tally(p)' = Tally(p)
  BY DEF Tally, HeldStock, StockOf, Held, Pushing, Cart, TaskStock, TasksTake, Returned,
     TasksBring, Closed, gatewayVars

\* A task that gets its outcome.
LEMMA TaskTally ==
  ASSUME Inductive, UNCHANGED <<gatewayVars, log>>, NEW p \in Products, stock'[p] \in Int,
         NEW i \in Open(Refunding), Open(Refunding)' = Open(Refunding) \ {i}
  PROVE  /\ Tally(p)' = Tally(p) + (stock'[p] - stock[p]) + Moved(log[i], p)
         /\ Moved(log[i], p) \in Int
  <1> DEFINE D == DOMAIN log
             f == TasksBring(p)
  <1>1. PICK O \in SUBSET D : O = Open(Refunding) /\ i \in O
    BY TallyTypes
  <1>2. HeldStock(p)' = HeldStock(p)
    BY DEF HeldStock, StockOf, Held, Pushing, Cart, gatewayVars
  <1>3. TaskStock(p, Open(Refunding))' = TaskStock(p, O \ {i})
    BY <1>1 DEF TaskStock, TasksTake
  <1>4. TaskStock(p, O) = Taken(log[i], p) + TaskStock(p, O \ {i})
    <2>1. {} \in SUBSET O
      OBVIOUS
    <2>2. QED
      BY <1>1, <2>1, FewerTasks
  <1>5. Closed(Refunding)' = (D \ O) \cup {i} /\ Closed(Refunding) = D \ O
    BY <1>1 DEF Closed
  <1>6. Returned(p, Closed(Refunding))' = SumFunctionOnSet(f, (D \ O) \cup {i})
    BY <1>5 DEF Returned, TasksBring
  <1>7. SumFunctionOnSet(f, (D \ O) \cup {i}) = SumFunctionOnSet(f, D \ O) + f[i]
    <2>1. i \notin D \ O /\ IsFiniteSet(D \ O) /\ f[i] \in Int /\ \A x \in D \ O : f[x] \in Int
      <3>1. IsFiniteSet(D)
        BY TallyTypes
      <3>2. IsFiniteSet(D \ O)
        BY <3>1, FS_Subset
      <3>3. QED
        BY <1>1, <3>2, TallyTypes
    <2> DEFINE S == D \ O
    <2>2. i \notin S /\ IsFiniteSet(S) /\ f[i] \in Int /\ \A x \in S : f[x] = f[x] /\ f[x] \in Int
      BY <2>1
    <2> HIDE DEF D, f, S
    <2>3. SumFunctionOnSet(f, S \cup {i}) = SumFunctionOnSet(f, S) + f[i]
      BY <2>2, SumMoves
    <2>4. QED
      BY <2>3 DEF S
  <1>8. Returned(p, Closed(Refunding)) = SumFunctionOnSet(f, D \ O)
    BY <1>5 DEF Returned
  <1>9. /\ TaskStock(p, O) \in Int /\ TaskStock(p, O \ {i}) \in Int
        /\ SumFunctionOnSet(f, D \ O) \in Int /\ stock[p] \in Int /\ HeldStock(p) \in Int
        /\ f[i] \in Int /\ Taken(log[i], p) \in Int /\ Moved(log[i], p) = f[i] - Taken(log[i], p)
    <2>1. O \ {i} \in SUBSET D /\ D \ O \in SUBSET D
      OBVIOUS
    <2>2. SumFunctionOnSet(f, D \ O) \in Int
      BY <2>1, TallyTypes DEF Returned
    <2>3. QED
      BY <1>1, <2>1, <2>2, TallyTypes
  <1>10. /\ Tally(p) = stock[p] + HeldStock(p) + TaskStock(p, O) + SumFunctionOnSet(f, D \ O)
         /\ Tally(p)' = stock'[p] + HeldStock(p) + TaskStock(p, O \ {i})
                          + SumFunctionOnSet(f, (D \ O) \cup {i})
    BY <1>1, <1>2, <1>3, <1>6, <1>8 DEF Tally
  <1> HIDE DEF D, f
  <1>11. QED
    BY <1>4, <1>7, <1>9, <1>10

\* A task taken up has its outcome when it is booked, and waits when it is turned down.
LEMMA OpenTaken ==
  ASSUME Inductive, InHand, log' = log, wpc = "batch", NEW i \in batch, IsOldest(i), Take(i),
         Handled' = Handled \cup {i}, NEW U \in SUBSET Refunding
  PROVE  /\ i \in Open(U) /\ i \in DOMAIN log
         /\ wpc' = "ack" => Open(U)' = Open(U) \ {i}
         /\ wpc' \in U => Open(U)' = Open(U)
  <1>1. i \in DOMAIN log /\ i \in Int /\ cur = 0 /\ \A j \in DOMAIN log : j # 0
    BY CallTypes DEF Inductive, TypeOK, WorkerTypeOK, InHand
  <1>2. i \notin Handled
    BY <1>1 DEF Inductive, Frontier
  <1>3. Open(U) = DOMAIN log \ Handled
    BY <1>1 DEF Open
  <1>4. cur' = i
    BY DEF Take
  <1>5. wpc' = "ack" => Open(U)' = DOMAIN log \ (Handled \cup {i})
    BY <1>4 DEF Open, Refunding
  <1>6. wpc' \in U => Open(U)' = (DOMAIN log \ (Handled \cup {i})) \cup {i}
    BY <1>1, <1>4 DEF Open
  <1>7. QED
    BY <1>1, <1>2, <1>3, <1>5, <1>6

\* A task turned down has its outcome when it has been given back.
LEMMA OpenGone ==
  ASSUME Inductive, InHand, UNCHANGED <<log, history, cur, rejected>>, NEW U \in SUBSET Refunding,
         wpc \in U, wpc' \notin U
  PROVE  cur \in Open(U) /\ cur \in DOMAIN log /\ Open(U)' = Open(U) \ {cur}
  <1>1. cur \in Handled /\ Handled' = Handled
    BY DEF InHand, Handled, Committed, Refunding
  <1>2. cur \in DOMAIN log
    BY CallTypes DEF Inductive, TypeOK, WorkerTypeOK, Refunding
  <1>3. QED
    BY <1>1, <1>2 DEF Open

\* A call moves the goods of the counter, and what it holds, and leaves the tally.
LEMMA CallTally ==
  ASSUME Inductive, Inductive', AddedUp, NoDoubles, {"redis", "rerun"} \cap Faults = {},
         NEW r \in Requests, Begin(r) \/ Call(r), UNCHANGED <<dbVars, workerVars>>, InHand,
         NEW p \in Products
  PROVE  Tally(p)' = Tally(p)
  <1> DEFINE O == Open(Refunding)
             C == Closed(Refunding)
             a == StockOf(r, p)
             b == StockOf(r, p)'
             n == NewStock(r, p)
             h == HeldStock(p)
             k == HeldStock(p)'
             s == TaskStock(p, O)
             t == TaskStock(p, O)'
             v == Returned(p, C)
             w == Returned(p, C)'
  <1>1. /\ stock'[p] \in Int /\ b \in Int /\ n \in Int /\ stock'[p] + b + n = stock[p] + a
    BY CallStock
  <1>2. /\ a \in Int /\ stock[p] \in Int /\ h \in Int /\ s \in Int /\ v \in Int
        /\ O \in SUBSET DOMAIN log /\ C \in SUBSET DOMAIN log
    <2>1. O \in SUBSET DOMAIN log /\ C \in SUBSET DOMAIN log
      BY TallyTypes DEF Closed
    <2>2. QED
      BY <2>1, StockOfTypes, TallyTypes
  <1>3. k = h + (b - a)
    <2>1. \A q \in Requests : StockOf(q, p) \in Int /\ StockOf(q, p)' \in Int
      BY StockOfTypes, StockStaysTyped
    <2>2. \A q \in Requests \ {r} : StockOf(q, p)' = StockOf(q, p)
      BY CallFrame, OthersHold
    <2>3. QED
      BY <2>1, <2>2, HeldStockMoves
  <1>4. t = s + n /\ w = v
    <2>1. t = SumFunctionOnSet(TasksTake(p)', O') /\ w = SumFunctionOnSet(TasksBring(p)', C')
      BY DEF TaskStock, Returned
    <2>2. CASE log' = log
      <3>1. O' = O
        BY <2>2, OpenWaits
      <3>2. C' = C /\ TasksTake(p)' = TasksTake(p) /\ TasksBring(p)' = TasksBring(p) /\ n = 0
        BY <2>2, <3>1 DEF Closed, TasksTake, TasksBring, NewStock
      <3>3. QED
        BY <1>2, <2>1, <3>1, <3>2 DEF TaskStock, Returned
    <2>3. CASE log' # log
      <3>1. XAdd(r) /\ n = Taken(TaskOf(r), p)
        BY <2>3, CallFrame DEF NewStock
      <3>2. O' = O \cup {Len(log) + 1} /\ C' = C
        BY <3>1, OpenAdds DEF Closed
      <3> HIDE DEF O, C
      <3>3. PICK X \in SUBSET DOMAIN log : X = O
        BY <1>2
      <3>4. PICK Y : Y = X \cup {Len(log) + 1}
        OBVIOUS
      <3>5. TaskStock(p, Y)' = TaskStock(p, X) + n
        <4>1. Y \in SUBSET (X \cup {Len(log) + 1})
          BY <3>4
        <4>2. QED
          BY <3>1, <3>4, <4>1, OneTaskMore
      <3>6. TaskStock(p, Y)' = t
        BY <2>1, <3>2, <3>3, <3>4 DEF TaskStock
      <3>7. w = v
        <4>1. \A i \in DOMAIN log : log'[i] = log[i] /\ i \in DOMAIN log'
          BY <3>1, Added
        <4>2. PICK Z \in SUBSET DOMAIN log : Z = C
          BY <1>2
        <4>3. \A i \in Z : TasksBring(p)[i] = TasksBring(p)'[i]
          BY <4>1 DEF TasksBring
        <4>4. IsFiniteSet(Z) /\ \A i \in Z : TasksBring(p)[i] \in Int
          BY TaskTypes, TallyTypes
        <4>5. PICK f : f = TasksBring(p)
          OBVIOUS
        <4>6. PICK g : g = TasksBring(p)'
          OBVIOUS
        <4>7. SumFunctionOnSet(f, Z) = SumFunctionOnSet(g, Z)
          BY <4>3, <4>4, <4>5, <4>6, SumSame
        <4>8. QED
          BY <2>1, <3>2, <4>2, <4>5, <4>6, <4>7 DEF Returned
      <3>8. QED
        BY <3>3, <3>5, <3>6, <3>7
    <2>4. QED
      BY <2>2, <2>3
  <1>5. Tally(p) = stock[p] + h + s + v /\ Tally(p)' = stock'[p] + k + t + w
    BY DEF Tally
  <1> HIDE DEF O, C, a, b, n, h, k, s, t, v, w
  <1>6. QED
    BY <1>1, <1>2, <1>3, <1>4, <1>5

\* A step of the worker moves the tally as it moves the stock.
LEMMA WorkerTally ==
  ASSUME Inductive, Inductive', InHand, WorkerStep, ReachTimes = {1}, "commit" \notin Faults,
         NEW p \in Products, Tally(p) = dbStock[p]
  PROVE  Tally(p)' = dbStock'[p]
  <1>1. UNCHANGED <<gatewayVars, log>> /\ WorkerNext
    BY DEF WorkerStep, WorkerNext
  <1>t. /\ stock \in [Products -> Int] /\ dbStock \in [Products -> Int]
        /\ batch \subseteq DOMAIN log /\ \A i \in DOMAIN log : log[i] \in Task
        /\ stock' \in [Products -> Int] /\ dbStock' \in [Products -> Int]
    BY CartTypes, CallTypes DEF Inductive, TypeOK, StoreTypeOK, WorkerTypeOK
  <1>m. \A i \in DOMAIN log : /\ log[i].product \in Products /\ log[i].qty \in Int
                              /\ Sign(log[i]) \in {-1, 1}
                              /\ p # log[i].product => Moved(log[i], p) = 0
                              /\ p = log[i].product => Moved(log[i], p) = Sign(log[i]) * log[i].qty
    BY <1>t DEF Task, Sign, Moved
  <1>2. CASE StartRead \/ Deliver \/ ReadNil \/ ReadError \/ Stop \/ Ack \/ RefundWallet
    <2>1. stock' = stock /\ dbStock' = dbStock
      BY <1>2 DEF StartRead, Deliver, ReadNil, ReadError, Stop, Ack, RefundWallet, dbVars
    <2>2. Open(Refunding)' = Open(Refunding)
      BY <1>1, <1>2, OpenWaits
    <2>3. QED
      BY <1>1, <2>1, <2>2, SameTally
  <1>3. CASE Commit
    <2>1. PICK i \in batch : IsOldest(i) /\ Settleable(log[i]) /\ Book(i) /\ Take(i)
      BY <1>3 DEF Commit
    <2>2. wpc = "batch" /\ wpc' = "ack" /\ rejected' = rejected /\ stock' = stock
      BY <1>3 DEF Commit
    <2>3. Handled' = Handled \cup {i}
      BY <2>1, <2>2, BookAdds DEF Handled
    <2>4. i \in Open(Refunding) /\ i \in DOMAIN log /\ Open(Refunding)' = Open(Refunding) \ {i}
      BY <1>1, <2>1, <2>2, <2>3, OpenTaken
    <2>5. Tally(p)' = Tally(p) + (stock'[p] - stock[p]) + Moved(log[i], p)
          /\ Moved(log[i], p) \in Int
      BY <1>1, <1>t, <2>4, TaskTally
    <2>6. dbStock' = [dbStock EXCEPT ![log[i].product] = @ + Sign(log[i]) * log[i].qty]
      BY <2>1 DEF Book, UpdateProduct
    <2>7. dbStock'[p] = dbStock[p] + Moved(log[i], p)
      <3>1. CASE p = log[i].product
        BY <1>t, <1>m, <2>4, <2>6, <3>1
      <3>2. CASE p # log[i].product
        BY <1>t, <1>m, <2>4, <2>6, <3>2
      <3>3. QED
        BY <3>1, <3>2
    <2>8. Tally(p) \in Int /\ stock[p] \in Int /\ stock'[p] = stock[p]
      BY <1>t, <2>2, TallyStaysTyped
    <2>9. QED
      BY <2>5, <2>7, <2>8
  <1>4. CASE Abort
    <2>1. PICK i \in batch : IsOldest(i) /\ Take(i) /\ rejected' = rejected \cup {i}
      BY <1>4 DEF Abort
    <2>2. wpc = "batch" /\ wpc' = "refundWallet" /\ UNCHANGED <<stock, dbVars>>
      BY <1>4 DEF Abort
    <2>3. Handled' = Handled \cup {i}
      BY <2>1, <2>2 DEF Handled, Committed, dbVars
    <2>4. Open(Refunding)' = Open(Refunding)
      <3>1. wpc' \in Refunding
        BY <2>2 DEF Refunding
      <3>2. QED
        BY <1>1, <2>1, <2>2, <2>3, <3>1, OpenTaken
    <2>5. QED
      BY <1>1, <2>2, <2>4, SameTally DEF dbVars
  <1>5. CASE RefundStock
    <2>1. UNCHANGED <<dbVars, cur, rejected>> /\ wpc = "refundStock" /\ wpc' = "ack"
      BY <1>5 DEF RefundStock
    <2>2. stock' = [stock EXCEPT ![log[cur].product] = @ - 1 * Sign(log[cur]) * log[cur].qty]
      BY <1>5 DEF RefundStock
    <2>3. /\ cur \in Open(Refunding) /\ cur \in DOMAIN log
          /\ Open(Refunding)' = Open(Refunding) \ {cur}
      BY <1>1, <2>1, OpenGone DEF Refunding, dbVars
    <2>4. Tally(p)' = Tally(p) + (stock'[p] - stock[p]) + Moved(log[cur], p)
          /\ Moved(log[cur], p) \in Int
      BY <1>1, <1>t, <2>3, TaskTally
    <2>5. stock'[p] = stock[p] - Moved(log[cur], p)
      <3>1. CASE p = log[cur].product
        BY <1>t, <1>m, <2>2, <2>3, <3>1
      <3>2. CASE p # log[cur].product
        BY <1>t, <1>m, <2>2, <2>3, <3>2
      <3>3. QED
        BY <3>1, <3>2
    <2>6. Tally(p) \in Int /\ stock[p] \in Int
      BY <1>t, TallyStaysTyped
    <2>7. QED
      BY <2>1, <2>4, <2>5, <2>6 DEF dbVars
  <1>6. ~CommitLost
    BY DEF CommitLost
  <1>7. QED
    BY <1>1, <1>2, <1>3, <1>4, <1>5, <1>6 DEF WorkerNext, Settle

\* While the process is up and no command is lost, the stock counter is off the books by
\* exactly what is held, what is queued, and what returns have brought.
THEOREM StockIsExact ==
  ASSUME NothingLost
  PROVE  Spec => []StockExact
  <1> DEFINE Exact == \A p \in Products : Tally(p) = dbStock[p]
  <1>1. Init => AddedUp /\ InHand /\ StillUp /\ Exact
    <2> SUFFICES ASSUME Init, NEW p \in Products
                 PROVE  StillUp /\ Tally(p) = dbStock[p]
      BY AddedUpInit DEF Init, StoreInit, StillUp
    <2>1. Inductive
      BY InductiveInit
    <2>2. HeldStock(p) = 0
      BY <2>1, HeldStockTypes DEF Init, GatewayInit, InFlight
    <2>3. Open(Refunding) = {} /\ Closed(Refunding) = {}
      BY DEF Init, StoreInit, Open, Closed
    <2>4. TaskStock(p, Open(Refunding)) = 0 /\ Returned(p, Closed(Refunding)) = 0
      BY <2>3, SumNone DEF TaskStock, Returned
    <2>5. stock[p] = dbStock[p] /\ dbStock[p] \in Int
      BY <2>1, TallyTypes DEF Init, StoreInit
    <2>6. QED
      BY <2>2, <2>4, <2>5 DEF Tally, Init, StoreInit, StillUp
  <1>2. Inductive /\ AddedUp /\ InHand /\ StillUp /\ Exact /\ [Next]_vars
          => AddedUp' /\ InHand' /\ StillUp' /\ Exact'
    <2> SUFFICES ASSUME Inductive, AddedUp, InHand, StillUp, Exact, [Next]_vars
                 PROVE  AddedUp' /\ InHand' /\ StillUp' /\ Exact'
      OBVIOUS
    <2>1. AddedUp' /\ InHand' /\ Inductive'
      BY AddedUpStep, InHandStep, InductiveStep
    <2>2. /\ StillUp' /\ ~Process /\ ReachTimes = {1} /\ NoDoubles
          /\ {"redis", "rerun"} \cap Faults = {}
      BY StillUpStep
    <2>3. ASSUME NEW p \in Products
          PROVE  Tally(p)' = dbStock'[p]
      <3>0. Tally(p) = dbStock[p]
        OBVIOUS
      <3>1. CASE \E r \in Requests : (Begin(r) \/ Call(r)) /\ UNCHANGED <<dbVars, workerVars>>
        <4>1. PICK r \in Requests : (Begin(r) \/ Call(r)) /\ UNCHANGED <<dbVars, workerVars>>
          BY <3>1
        <4>2. QED
          BY <2>1, <2>2, <3>0, <4>1, CallTally DEF dbVars
      <3>2. CASE WorkerStep
        BY <2>1, <2>2, <3>0, <3>2, WorkerTally DEF NoDoubles
      <3>3. CASE UNCHANGED <<gatewayVars, log, stock, dbVars, workerVars>>
        <4>1. Open(Refunding)' = Open(Refunding)
          BY <3>3 DEF Open, Handled, Committed, workerVars, dbVars
        <4>2. QED
          BY <3>0, <3>3, <4>1, SameTally DEF dbVars
      <3>4. (\E u \in Users : Expire(u)) => UNCHANGED <<gatewayVars, log, stock>>
        BY DEF Expire
      <3>5. UNCHANGED vars => UNCHANGED <<gatewayVars, log, stock, dbVars, workerVars>>
        BY DEF vars, cacheVars, streamVars
      <3>6. QED
        BY <2>2, <3>1, <3>2, <3>3, <3>4, <3>5 DEF Next, GatewayStep, GatewayNext
    <2>4. QED
      BY <2>1, <2>2, <2>3
  <1>3. Inductive /\ Exact => StockExact
    <2> SUFFICES ASSUME Inductive, Exact, NEW p \in Products
                 PROVE  stock[p] + HeldStock(p) + TaskStock(p, Open(Refunding))
                          = dbStock[p] - Returned(p, DOMAIN log \ Open(Refunding))
      BY DEF StockExact, Refunding
    <2>1. Open(Refunding) \in SUBSET DOMAIN log /\ Closed(Refunding) \in SUBSET DOMAIN log
      BY TallyTypes DEF Closed
    <2>2. /\ TaskStock(p, Open(Refunding)) \in Int /\ Returned(p, Closed(Refunding)) \in Int
          /\ stock[p] \in Int /\ dbStock[p] \in Int /\ HeldStock(p) \in Int
      BY <2>1, TallyTypes
    <2>3. Tally(p) = dbStock[p]
      OBVIOUS
    <2>4. QED
      BY <2>2, <2>3 DEF Tally, Closed
  <1> HIDE DEF Exact
  <1>4. QED
    BY <1>1, <1>2, <1>3, InductiveHolds, PTL DEF Spec

-----------------------------------------------------------------------------
\* A multiple that is smaller than what it is a multiple of is none.
LEMMA NoFraction ==
  ASSUME NEW u \in Nat \ {0}, NEW d \in Int, NEW m \in Int, 0 <= m, m < u, u * d = m
  PROVE  d = 0
  <1>1. CASE d >= 1
    <2>1. u * (d - 1) >= 0
      BY <1>1
    <2>2. u * (d - 1) = u * d - u
      OBVIOUS
    <2>3. QED
      BY <2>1, <2>2
  <1>2. CASE d <= -1
    <2>1. u * ((0 - d) - 1) >= 0
      BY <1>2
    <2>2. u * ((0 - d) - 1) = 0 - (u * d) - u
      OBVIOUS
    <2>3. QED
      BY <2>1, <2>2
  <1>3. QED
    BY <1>1, <1>2

\* Division with a remainder.
LEMMA DivMod ==
  ASSUME NEW u \in Nat \ {0}, NEW x \in Int
  PROVE  x = u * (x \div u) + (x % u) /\ 0 <= x % u /\ x % u < u /\ x \div u \in Int /\ x % u \in Int
  OBVIOUS

\* Whole units of money.
Multiple(x) == \E k \in Int : x = Unit * k

\* A whole amount is one without a remainder.
LEMMA MultipleMod ==
  ASSUME NEW x \in Int
  PROVE  (x % Unit = 0) <=> Multiple(x)
  <1>1. x = Unit * (x \div Unit) + (x % Unit) /\ 0 <= x % Unit /\ x % Unit < Unit
        /\ x \div Unit \in Int /\ x % Unit \in Int
    BY UnitAssumption, DivMod
  <1>2. ASSUME NEW k \in Int, x = Unit * k
        PROVE  x % Unit = 0 /\ x \div Unit = k
    <2> DEFINE q == x \div Unit
               m == x % Unit
    <2>1. q \in Int /\ m \in Int /\ Unit * k = Unit * q + m /\ 0 <= m /\ m < Unit
      BY <1>1, <1>2
    <2> HIDE DEF q, m
    <2>2. Unit * (k - q) = m
      BY <2>1, UnitAssumption
    <2>3. k - q = 0
      <3>1. k - q \in Int
        BY <2>1
      <3>2. QED
      BY <2>1, <2>2, <3>1, UnitAssumption, NoFraction
    <2>4. m = 0
      BY <2>2, <2>3, UnitAssumption
    <2>5. QED
      BY <2>1, <2>3, <2>4 DEF q, m
  <1>3. ASSUME x % Unit = 0
        PROVE  Multiple(x)
    <2> DEFINE q == x \div Unit
               m == x % Unit
    <2>1. x = Unit * q + m /\ m = 0 /\ q \in Int
      BY <1>1, <1>3
    <2> HIDE DEF q, m
    <2>2. x = Unit * q
      BY <2>1, UnitAssumption
    <2>3. QED
      BY <2>1, <2>2 DEF Multiple
  <1>4. Multiple(x) => x % Unit = 0
    BY <1>2 DEF Multiple
  <1>5. QED
    BY <1>3, <1>4

\* A whole amount is a multiple of its quotient.
LEMMA WholeQuotient ==
  ASSUME NEW x \in Int, Multiple(x)
  PROVE  x = Unit * (x \div Unit) /\ x \div Unit \in Int
  <1> DEFINE q == x \div Unit
             m == x % Unit
  <1>1. x = Unit * q + m /\ q \in Int
    BY UnitAssumption, DivMod
  <1>0. m = 0
    BY MultipleMod
  <1> HIDE DEF q, m
  <1>2. x = Unit * q
    BY <1>0, <1>1, UnitAssumption
  <1> QED
    BY <1>1, <1>2 DEF q

\* A whole amount has no fraction to drop.
LEMMA TruncMultiple ==
  ASSUME NEW x \in Int, Multiple(x)
  PROVE  Trunc(x) = x
  <1>2. x = Unit * (x \div Unit) /\ x \div Unit \in Int
    BY WholeQuotient
  <1>3. -x \in Int /\ Multiple(-x)
    <2>1. PICK k \in Int : x = Unit * k
      BY DEF Multiple
    <2>2. -x = Unit * (-k) /\ -k \in Int
      BY <2>1, UnitAssumption
    <2>3. QED
      BY <2>2 DEF Multiple
  <1>5. -x = Unit * ((-x) \div Unit) /\ (-x) \div Unit \in Int
    BY <1>3, WholeQuotient
  <1> DEFINE a == x \div Unit
             b == (-x) \div Unit
  <1>7. x = Unit * a
    BY <1>2
  <1>8. -x = Unit * b
    BY <1>5
  <1>9. Trunc(x) = IF x >= 0 THEN a * Unit ELSE -(b * Unit)
    BY DEF Trunc
  <1>10. a \in Int /\ b \in Int
    BY <1>2, <1>5
  <1> HIDE DEF a, b
  <1>11. QED
    BY <1>7, <1>8, <1>9, <1>10, UnitAssumption

\* Whole amounts add up to whole amounts.
LEMMA MultipleOps ==
  /\ Multiple(0)
  /\ \A x, y \in Int : Multiple(x) /\ Multiple(y) => Multiple(x + y) /\ Multiple(x - y)
  /\ \A x, q \in Int : Multiple(x) => Multiple(x * q) /\ Multiple(-x)
  <1>1. Multiple(0)
    <2>1. 0 = Unit * 0
      BY UnitAssumption
    <2>2. QED
      BY <2>1 DEF Multiple
  <1>2. ASSUME NEW x \in Int, NEW y \in Int, Multiple(x), Multiple(y)
        PROVE  Multiple(x + y) /\ Multiple(x - y)
    <2>1. PICK j \in Int : x = Unit * j
      BY <1>2 DEF Multiple
    <2>2. PICK k \in Int : y = Unit * k
      BY <1>2 DEF Multiple
    <2>3. x + y = Unit * (j + k) /\ x - y = Unit * (j - k) /\ j + k \in Int /\ j - k \in Int
      BY <2>1, <2>2, UnitAssumption
    <2>4. QED
      BY <2>3 DEF Multiple
  <1>3. ASSUME NEW x \in Int, NEW q \in Int, Multiple(x)
        PROVE  Multiple(x * q) /\ Multiple(-x)
    <2>1. PICK j \in Int : x = Unit * j
      BY <1>3 DEF Multiple
    <2>2. x * q = Unit * (j * q) /\ -x = Unit * (-j) /\ j * q \in Int /\ -j \in Int
      BY <2>1, UnitAssumption
    <2>3. QED
      BY <2>2 DEF Multiple
  <1>4. QED
    BY <1>1, <1>2, <1>3

\* A sum of whole amounts is a whole amount.
LEMMA SumMultiple ==
  ASSUME NEW f, NEW S, IsFiniteSet(S), \A x \in S : f[x] \in Int /\ Multiple(f[x])
  PROVE  Multiple(SumFunctionOnSet(f, S))
  <1> DEFINE Bad == {t \in FiniteSubsetsOf(S) : ~ Multiple(SumFunctionOnSet(f, t))}
  <1>1. ASSUME NEW x \in Bad, \A y \in SUBSET x : y \in Bad => y = x
        PROVE  FALSE
    <2>1. x \in SUBSET S /\ IsFiniteSet(x) /\ ~ Multiple(SumFunctionOnSet(f, x))
      BY DEF FiniteSubsetsOf
    <2>2. x # {}
      BY <2>1, SumNone, MultipleOps
    <2> DEFINE y == x \ {Pick(x)}
    <2>3. y \in FiniteSubsetsOf(S) /\ y # x /\ y \in SUBSET x
      BY <2>1, <2>2, Picked, FS_Subset DEF FiniteSubsetsOf
    <2>4. Multiple(SumFunctionOnSet(f, y))
      BY <1>1, <2>3
    <2>5. SumFunctionOnSet(f, y) \in Int
      BY <2>3, SumInt DEF FiniteSubsetsOf
    <2>6. f[Pick(x)] \in Int /\ Multiple(f[Pick(x)])
      BY <2>1, <2>2, Picked
    <2>7. SumFunctionOnSet(f, x) = f[Pick(x)] + SumFunctionOnSet(f, y)
      BY <2>1, <2>2, SumPicks
    <2> HIDE DEF y
    <2>8. QED
      BY <2>1, <2>4, <2>5, <2>6, <2>7, MultipleOps
  <1>2. Bad = {}
    <2>1. Bad \subseteq FiniteSubsetsOf(S)
      OBVIOUS
    <2> HIDE DEF Bad
    <2>2. QED
      BY <1>1, <2>1, Smallest
  <1>3. S \in FiniteSubsetsOf(S)
    BY DEF FiniteSubsetsOf
  <1>4. QED
    BY <1>2, <1>3

\* Prices without a fraction, and carts without a return.
PricesWhole == \A p \in Products : Price[p] # Absent => Multiple(Price[p])
PickupsOnly == \A c \in Carts : \A k \in DOMAIN c : c[k].kind = "pickup"

\* What a line costs is whole if its price is; a pickup brings no money.
LEMMA ChargeTypes ==
  ASSUME NEW l \in Line, Known(l), l.qty > 0
  PROVE  /\ Charge(l) \in Int /\ Price[l.product] * l.qty \in Int
         /\ PricesWhole => Multiple(Charge(l)) /\ Multiple(Price[l.product] * l.qty)
         /\ l.kind = "pickup" => Charge(l) >= 0
  <1>1. l.qty \in Int /\ l.product \in Products
    BY DEF Line
  <1>2. Price[l.product] \in Nat
    BY <1>1, PriceAssumption DEF Known
  <1> DEFINE a == Price[l.product]
             n == l.qty
             m == a * n
  <1>3. a \in Nat /\ n \in Int /\ n > 0
    BY <1>1, <1>2
  <1> HIDE DEF a, n
  <1>4. m \in Int /\ m >= 0
    BY <1>3
  <1>5. PricesWhole => Multiple(a)
    BY <1>1 DEF PricesWhole, Known, a
  <1>6. PricesWhole => Multiple(m) /\ Multiple(-m)
    <2>1. PricesWhole => Multiple(m)
      BY <1>3, <1>5, MultipleOps
    <2> HIDE DEF m
    <2>2. PricesWhole => Multiple(-m)
      <3>1. m * 1 = m
        BY <1>4
      <3>2. QED
        BY <1>4, <2>1, MultipleOps
    <2>3. QED
      BY <2>1, <2>2
  <1>7. Charge(l) = IF l.kind = "pickup" THEN m ELSE -m
    BY DEF Charge, a, n
  <1>8. Price[l.product] * l.qty = m
    BY DEF a, n
  <1> HIDE DEF m
  <1>9. QED
    BY <1>4, <1>6, <1>7, <1>8

\* The places of a call in which its cart has been priced and not all let go.
Reserving == {"gate", "regate", "push", "repush", "undoWallet"}

\* What the lines of a priced cart cost, and all of them together.
LEMMA CartMoney ==
  ASSUME Inductive, AddedUp, NEW r \in Requests, pc[r] \in Reserving
  PROVE  /\ \A k \in DOMAIN Cart(r) :
              /\ LineMoney(Cart(r))[k] = Charge(Cart(r)[k]) /\ LineMoney(Cart(r))[k] \in Int
              /\ PickupsOnly => LineMoney(Cart(r))[k] >= 0
         /\ total[r] = SumFunctionOnSet(LineMoney(Cart(r)), DOMAIN Cart(r))
         /\ total[r] \in Int /\ Trunc(total[r]) \in Int
         /\ PricesWhole => Multiple(total[r]) /\ Trunc(total[r]) = total[r]
         /\ PickupsOnly => total[r] >= 0
  <1> DEFINE c == Cart(r)
             f == LineMoney(c)
             D == DOMAIN c
  <1>1. pc[r] # "idle" /\ order[r] \in Order /\ c \in Carts
    <2>1. pc[r] # "idle"
      BY DEF Reserving
    <2>2. order[r] \in Order
      BY <2>1 DEF Inductive, TypeOK, GatewayTypeOK
    <2>3. QED
      BY <2>1, <2>2 DEF Order, Cart
  <1>2. /\ IsFiniteSet(D)
        /\ \A k \in D : c[k] \in Line /\ Known(c[k]) /\ c[k].qty > 0
    BY <1>1, CartTypes DEF Inductive, QuantitiesPositive, LinesKnown, Reserving
  <1>3. \A k \in D : f[k] = Charge(c[k])
    BY DEF LineMoney
  <1>4. \A k \in D : /\ f[k] \in Int
                     /\ PricesWhole => Multiple(f[k])
                     /\ PickupsOnly => f[k] >= 0
    <2>1. PickupsOnly => \A k \in D : c[k].kind = "pickup"
      BY <1>1 DEF PickupsOnly
    <2>2. \A k \in D : /\ Charge(c[k]) \in Int
                       /\ PricesWhole => Multiple(Charge(c[k]))
                       /\ c[k].kind = "pickup" => Charge(c[k]) >= 0
      BY <1>2, ChargeTypes
    <2>3. QED
      BY <1>3, <2>1, <2>2
  <1>5. total[r] = SumFunctionOnSet(f, D)
    BY DEF AddedUp, AddedUpFor, Reserving
  <1>6. /\ SumFunctionOnSet(f, D) \in Int
        /\ PricesWhole => Multiple(SumFunctionOnSet(f, D))
        /\ PickupsOnly => SumFunctionOnSet(f, {}) <= SumFunctionOnSet(f, D)
    <2> HIDE DEF f, D
    <2>1. SumFunctionOnSet(f, D) \in Int
      BY <1>2, <1>4, SumInt
    <2>2. PricesWhole => Multiple(SumFunctionOnSet(f, D))
      BY <1>2, <1>4, SumMultiple
    <2>3. PickupsOnly => SumFunctionOnSet(f, {}) <= SumFunctionOnSet(f, D)
      <3>1. {} \in SUBSET D
        OBVIOUS
      <3>2. QED
        BY <1>2, <1>4, <3>1, SumOfPart
    <2>4. QED
      BY <2>1, <2>2, <2>3
  <1>7. total[r] \in Int /\ (PricesWhole => Multiple(total[r])) /\ (PickupsOnly => total[r] >= 0)
    BY <1>5, <1>6, SumNone
  <1>8. Trunc(total[r]) \in Int /\ (PricesWhole => Trunc(total[r]) = total[r])
    BY <1>7, TruncInt, TruncMultiple
  <1>9. QED
    BY <1>3, <1>4, <1>5, <1>7, <1>8

\* The money that a call holds for a member.
LEMMA MoneyOfTypes ==
  ASSUME Inductive, AddedUp, NEW r \in Requests, NEW u \in Users
  PROVE  /\ MoneyOf(r, u) \in Int
         /\ PickupsOnly => MoneyOf(r, u) >= 0
         /\ (~Pushing(r) /\ pc[r] # "undoWallet") => MoneyOf(r, u) = 0
         /\ (Pushing(r) \/ pc[r] = "undoWallet") /\ line[r] = 1 =>
              MoneyOf(r, u) = IF order[r].user = u THEN total[r] ELSE 0
  <1> DEFINE H == Held(r, {"undoWallet"})
             f == LineMoney(Cart(r))
  <1>0. MoneyOf(r, u) = IF order[r] # Absent /\ order[r].user = u
                          THEN SumFunctionOnSet(f, H) ELSE 0
    BY DEF MoneyOf
  <1>1. CASE ~Pushing(r) /\ pc[r] # "undoWallet"
    <2>1. H = {}
      BY <1>1 DEF Held
    <2>2. QED
      BY <1>0, <1>1, <2>1, SumNone
  <1>2. CASE Pushing(r) \/ pc[r] = "undoWallet"
    <2>1. pc[r] \in Reserving /\ pc[r] # "idle"
      BY <1>2 DEF Pushing, Reserving
    <2>2. order[r] # Absent
      BY <2>1, NoOrderAssumption DEF Inductive, TypeOK, GatewayTypeOK
    <2>3. H \subseteq DOMAIN Cart(r) /\ IsFiniteSet(H)
      BY <2>1, HeldLines DEF Undoing
    <2>4. \A k \in H : f[k] \in Int /\ (PickupsOnly => f[k] >= 0)
      BY <2>1, <2>3, CartMoney
    <2>5. line[r] = 1 => H = DOMAIN Cart(r)
      BY <1>2, <2>1, CartTypes DEF Held
    <2>6. line[r] = 1 => SumFunctionOnSet(f, H) = total[r]
      BY <2>1, <2>5, CartMoney
    <2> HIDE DEF f, H
    <2>7. SumFunctionOnSet(f, H) \in Int
      BY <2>3, <2>4, SumInt
    <2>8. PickupsOnly => SumFunctionOnSet(f, {}) <= SumFunctionOnSet(f, H)
      <3>1. {} \in SUBSET H
        OBVIOUS
      <3>2. QED
        BY <2>3, <2>4, <3>1, SumOfPart
    <2>9. QED
      BY <1>0, <1>2, <2>2, <2>6, <2>7, <2>8, SumNone
  <1>3. QED
    BY <1>1, <1>2

\* What a task costs a member.
Cost(t, u) == IF t.user = u THEN -Sign(t) * t.amount ELSE 0

\* The money that is held without the line that is queued.
LEMMA MoneyMovesOn ==
  ASSUME Inductive, AddedUp, NEW r \in Requests, NEW u \in Users, Pushing(r),
         MoreLines(r), pc'[r] = pc[r], order'[r] = order[r], line'[r] = line[r] + 1
  PROVE  Cost(TaskOf(r), u) \in Int /\ MoneyOf(r, u)' = MoneyOf(r, u) - Cost(TaskOf(r), u)
  <1> DEFINE H == Held(r, {"undoWallet"})
             f == LineMoney(Cart(r))
             l == line[r]
  <1>1. Cart(r)' = Cart(r) /\ pc[r] \in Reserving /\ pc[r] # "idle" /\ order[r] # Absent
    <2>1. pc[r] \in Reserving /\ pc[r] # "idle"
      BY DEF Pushing, Reserving
    <2>2. order[r] # Absent
      BY <2>1, NoOrderAssumption DEF Inductive, TypeOK, GatewayTypeOK
    <2>3. QED
      BY <2>1, <2>2 DEF Cart
  <1>2. l \in H /\ H' = H \ {l}
    BY <1>1, HeldMovesOn DEF Undoing
  <1>3. H \subseteq DOMAIN Cart(r) /\ IsFiniteSet(H)
    BY <1>1, HeldLines DEF Undoing
  <1>4. \A k \in H : f[k] = Charge(Cart(r)[k]) /\ f[k] \in Int
    BY <1>1, <1>3, CartMoney
  <1>5. f[l] = Charge(At(r)) /\ f[l] \in Int
    BY <1>2, <1>4 DEF At
  <1>6. Cost(TaskOf(r), u) = IF order[r].user = u THEN f[l] ELSE 0
    <2>1. At(r) \in Line /\ Known(At(r)) /\ At(r).qty > 0
      BY <1>1, <1>2, <1>3, CartTypes DEF Inductive, QuantitiesPositive, LinesKnown, Reserving, At
    <2>2. At(r).kind \in {"pickup", "return"}
      BY <2>1 DEF Known, Line
    <2>3. PICK m \in Int : m = Price[At(r).product] * At(r).qty
      BY <2>1, ChargeTypes
    <2>4. /\ TaskOf(r).user = order[r].user /\ TaskOf(r).amount = m
          /\ TaskOf(r).kind = At(r).kind
      BY <2>3 DEF TaskOf
    <2>5. f[l] = IF At(r).kind = "pickup" THEN m ELSE -m
      BY <1>5, <2>3 DEF Charge
    <2>6. QED
      BY <2>2, <2>4, <2>5 DEF Cost, Sign
  <1>7. /\ MoneyOf(r, u) = IF order[r].user = u THEN SumFunctionOnSet(f, H) ELSE 0
        /\ MoneyOf(r, u)' = IF order[r].user = u THEN SumFunctionOnSet(f, H \ {l}) ELSE 0
    BY <1>1, <1>2 DEF MoneyOf
  <1> HIDE DEF f, H
  <1>8. SumFunctionOnSet(f, H) = f[l] + SumFunctionOnSet(f, H \ {l})
    BY <1>2, <1>3, <1>4, SumTakes
  <1>9. SumFunctionOnSet(f, H \ {l}) \in Int
    <2>1. IsFiniteSet(H \ {l})
      BY <1>3, FS_Subset
    <2>2. QED
      BY <1>4, <2>1, SumInt
  <1>10. QED
    BY <1>5, <1>6, <1>7, <1>8, <1>9

\* What a task that a call adds costs u.
NewMoney(r, u) == IF log' = log THEN 0 ELSE Cost(TaskOf(r), u)

\* Of the counters, only those of members are read; they are integers or missing.
LEMMA WalletTypes ==
  ASSUME Inductive, NEW u \in Users
  PROVE  /\ wallet \in [Users -> Int \cup {Absent}] /\ Counter(wallet[u]) \in Int
         /\ \A n \in Int, k \in {0, 1} :
              /\ IncrBy(wallet[u], n, k) \in Int \cup {Absent}
              /\ Counter(IncrBy(wallet[u], n, k)) \in {Counter(wallet[u]), Counter(wallet[u]) + n}
              /\ k = 1 /\ Whole(wallet[u]) =>
                   Counter(IncrBy(wallet[u], n, k)) = Counter(wallet[u]) + n
  <1>1. wallet \in [Users -> Int \cup {Absent}]
    BY CartTypes
  <1>2. PICK w \in Int \cup {Absent} : w = wallet[u]
    BY <1>1
  <1>3. PICK c \in Int : c = Counter(w)
    BY DEF Counter
  <1>4. \A n \in Int : c + n # Absent /\ c + n \in Int /\ 1 * n = n
    BY MarkerAssumption
  <1>5. \A n \in Int, k \in {0, 1} :
          IncrBy(w, n, k) = IF k = 1 /\ Whole(w) THEN c + n ELSE w
    BY <1>3, <1>4 DEF IncrBy
  <1>6. \A n \in Int : Counter(c + n) = c + n
    BY <1>4 DEF Counter
  <1>7. QED
    BY <1>1, <1>2, <1>3, <1>4, <1>5, <1>6

\* A step of a call moves money between the counter, its own hands and the stream.
LEMMA CallMoney ==
  ASSUME Inductive, AddedUp, NoDoubles, PricesWhole, NEW r \in Requests, Begin(r) \/ Call(r),
         NEW u \in Users
  PROVE  /\ Counter(wallet[u])' \in Int /\ MoneyOf(r, u)' \in Int /\ NewMoney(r, u) \in Int
         /\ PickupsOnly =>
              Counter(wallet[u])' + MoneyOf(r, u)' + NewMoney(r, u)
                <= Counter(wallet[u]) + MoneyOf(r, u)
         /\ {"redis", "rerun"} \cap Faults = {} /\ Whole(wallet[u]) =>
              Counter(wallet[u])' + MoneyOf(r, u)' + NewMoney(r, u)
                = Counter(wallet[u]) + MoneyOf(r, u)
  <1> DEFINE c == Counter(wallet[u])
             d == Counter(wallet[u])'
             m == MoneyOf(r, u)
             n == MoneyOf(r, u)'
             k == NewMoney(r, u)
             Goal == /\ d \in Int /\ n \in Int /\ k \in Int
                     /\ PickupsOnly => d + n + k <= c + m
                     /\ {"redis", "rerun"} \cap Faults = {} /\ Whole(wallet[u]) => d + n + k = c + m
  <1>t. c \in Int /\ m \in Int /\ (PickupsOnly => m >= 0)
    BY WalletTypes, MoneyOfTypes
  <1>1. ASSUME XAdd(r)
        PROVE  Goal
    <2>1. /\ Pushing(r) /\ MoreLines(r) /\ pc'[r] = pc[r] /\ order'[r] = order[r]
          /\ line'[r] = line[r] + 1 /\ wallet' = wallet
      BY <1>1, CallTypes DEF XAdd, cacheVars
    <2>2. Cost(TaskOf(r), u) \in Int /\ n = m - Cost(TaskOf(r), u)
      BY <2>1, MoneyMovesOn
    <2>3. log' # log
      <3>1. log \in Seq(Task) /\ log' = Append(log, TaskOf(r))
        BY <1>1, CallTypes DEF XAdd
      <3>2. Len(log') = Len(log) + 1 /\ Len(log) \in Nat
        BY <3>1
      <3>3. QED
        BY <3>2
    <2>4. k = Cost(TaskOf(r), u) /\ d = c
      BY <2>1, <2>3 DEF NewMoney
    <2> HIDE DEF c, d, m, n, k
    <2>5. QED
      BY <1>t, <2>2, <2>4
  <1>2. ASSUME UndoWallet(r)
        PROVE  Goal
    <2>1. /\ pc[r] = "undoWallet" /\ pc'[r] = "undoStock" /\ log' = log /\ order' = order
          /\ pc[r] \in Reserving /\ line[r] = 1
      BY <1>2, CallTypes DEF UndoWallet, Goto, Reserving, AddedUp, AddedUpFor
    <2>2. PICK x \in Times :
            wallet' = [wallet EXCEPT ![order[r].user] = IncrBy(@, Trunc(total[r]), x)]
      BY <1>2 DEF UndoWallet
    <2>3. x \in {0, 1} /\ ({"redis", "rerun"} \cap Faults = {} => x = 1)
      BY <2>2 DEF Times, NoDoubles
    <2>4. PICK a \in Int : a = total[r] /\ Trunc(total[r]) = a /\ (PickupsOnly => a >= 0)
      BY <2>1, CartMoney
    <2>5. m = IF order[r].user = u THEN a ELSE 0
      BY <2>1, <2>4, MoneyOfTypes
    <2>6. n = 0
      <3>1. Held(r, {"undoWallet"})' = {}
        BY <2>1 DEF Held, Pushing
      <3>2. QED
        BY <3>1, SumNone DEF MoneyOf
    <2>7. k = 0
      BY <2>1 DEF NewMoney
    <2>8. CASE order[r].user = u
      <3>1. wallet'[u] = IncrBy(wallet[u], a, x)
        BY <2>2, <2>4, <2>8, WalletTypes
      <3>2. d \in {c, c + a} /\ (x = 1 /\ Whole(wallet[u]) => d = c + a)
        BY <2>3, <3>1, WalletTypes
      <3> HIDE DEF c, d, m, n, k
      <3>3. QED
        BY <1>t, <2>3, <2>4, <2>5, <2>6, <2>7, <2>8, <3>2
    <2>9. CASE order[r].user # u
      <3>1. d = c
        BY <2>2, <2>9, WalletTypes
      <3> HIDE DEF c, d, m, n, k
      <3>2. QED
        BY <1>t, <2>5, <2>6, <2>7, <2>9, <3>1
    <2>10. QED
      BY <2>8, <2>9
  <1>3. ASSUME Reserve(r) \/ ReserveLost(r) \/ ReserveAgain(r)
        PROVE  Goal
    <2>1. /\ AtGate(r) /\ Deduct(r) /\ line' = line /\ order' = order /\ log' = log
          /\ total' = total
          /\ Reserve(r) => Pushing(r)'
          /\ ~Reserve(r) => /\ {"redis", "rerun"} \cap Faults # {}
                            /\ pc'[r] \in {"release", "regate"}
      BY <1>3, CallTypes DEF Reserve, ReserveLost, ReserveAgain, AtGate, Goto, Pushing
    <2>2. pc[r] \in Reserving /\ pc[r] # "idle" /\ line[r] = 1 /\ order[r] # Absent
      <3>1. pc[r] \in Reserving /\ pc[r] # "idle" /\ line[r] = 1
        BY <2>1 DEF AtGate, Reserving, AddedUp, AddedUpFor
      <3>2. order[r] # Absent
        BY <3>1, NoOrderAssumption DEF Inductive, TypeOK, GatewayTypeOK
      <3>3. QED
        BY <3>1, <3>2
    <2>3. PICK a \in Int : a = total[r] /\ Trunc(total[r]) = a /\ (PickupsOnly => a >= 0)
      BY <2>2, CartMoney
    <2>4. wallet' = [wallet EXCEPT ![order[r].user] = Counter(@) - a]
      BY <2>1, <2>3 DEF Deduct
    <2>5. d = IF order[r].user = u THEN c - a ELSE c
      <3>1. order[r].user = u => wallet'[u] = c - a
        BY <2>4, WalletTypes
      <3>2. c - a \in Int /\ c - a # Absent
        BY <1>t, MarkerAssumption
      <3>3. order[r].user # u => wallet'[u] = wallet[u]
        BY <2>4, WalletTypes
      <3>4. QED
        BY <3>1, <3>2, <3>3 DEF Counter
    <2>6. m = 0 /\ k = 0
      BY <2>1, MoneyOfTypes DEF AtGate, Pushing, NewMoney
    <2>7. CASE Reserve(r)
      <3>1. Held(r, {"undoWallet"})' = DOMAIN Cart(r)
        BY <2>1, <2>2, <2>7, CartTypes DEF Held, Cart
      <3>2. n = IF order[r].user = u THEN a ELSE 0
        BY <2>1, <2>2, <2>3, <3>1, CartMoney DEF MoneyOf, Cart
      <3> HIDE DEF c, d, m, n, k
      <3>3. QED
        BY <1>t, <2>3, <2>5, <2>6, <3>2
    <2>8. CASE ~Reserve(r)
      <3>1. Held(r, {"undoWallet"})' = {}
        BY <2>1, <2>8 DEF Held, Pushing
      <3>2. n = 0
        BY <3>1, SumNone DEF MoneyOf
      <3> HIDE DEF c, d, m, n, k
      <3>3. QED
        BY <1>t, <2>1, <2>3, <2>5, <2>6, <2>8, <3>2
    <2>9. QED
      BY <2>7, <2>8
  <1>4. ASSUME wallet' = wallet, log' = log, n = m
        PROVE  Goal
    <2>1. d = c /\ k = 0
      BY <1>4 DEF NewMoney
    <2> HIDE DEF c, d, m, n, k
    <2>2. QED
      BY <1>t, <1>4, <2>1
  <1>5. ASSUME PushFail(r)
        PROVE  Goal
    <2>1. /\ wallet' = wallet /\ log' = log /\ order' = order /\ Pushing(r)
          /\ pc'[r] = "undoWallet" /\ line'[r] = line[r]
      BY <1>5, CallTypes DEF PushFail, PushMayFail, NoDoubles, Goto, cacheVars
    <2>2. Held(r, {"undoWallet"})' = Held(r, {"undoWallet"})
      BY <2>1 DEF Held, Cart, Pushing
    <2>3. n = m
      BY <2>1, <2>2 DEF MoneyOf, Cart
    <2> HIDE DEF Goal
    <2>4. QED
      BY <1>4, <2>1, <2>3
  <1>6. ASSUME PushDone(r)
        PROVE  Goal
    <2>1. /\ wallet' = wallet /\ log' = log /\ pc[r] # "idle" /\ pc'[r] = "release"
          /\ ~MoreLines(r)
      BY <1>6, CallTypes DEF PushDone, Pushing, Goto, cacheVars
    <2>2. line[r]..Len(Cart(r)) = {}
      BY <2>1, CallTypes, CartTypes DEF MoreLines
    <2>3. Held(r, {"undoWallet"}) = {} /\ Held(r, {"undoWallet"})' = {}
      BY <2>1, <2>2 DEF Held, Pushing
    <2>4. n = m
      BY <2>3, SumNone DEF MoneyOf
    <2> HIDE DEF Goal
    <2>5. QED
      BY <1>4, <2>1, <2>4
  <1>7. ASSUME \/ Begin(r) \/ Acquire(r) \/ Busy(r) \/ AcquireFails(r) \/ PriceLine(r)
               \/ RejectLine(r) \/ Priced(r) \/ Refuse(r) \/ UndoStock(r) \/ UndoDone(r)
               \/ Release(r)
        PROVE  Goal
    <2>1. /\ wallet' = wallet /\ log' = log
          /\ ~Pushing(r) /\ pc[r] # "undoWallet" /\ ~Pushing(r)' /\ pc'[r] # "undoWallet"
      BY <1>7, CallTypes DEF Begin, Acquire, Busy, AcquireFails, PriceLine, RejectLine, Priced,
         Refuse, AtGate, UndoStock, UndoDone, Release, Pushing, Goto, cacheVars
    <2>2. Held(r, {"undoWallet"}) = {} /\ Held(r, {"undoWallet"})' = {}
      BY <2>1 DEF Held
    <2>3. n = m
      BY <2>2, SumNone DEF MoneyOf
    <2> HIDE DEF Goal
    <2>4. QED
      BY <1>4, <2>1, <2>3
  <1>8. ~PushAgain(r)
    BY DEF PushAgain, NoDoubles
  <1> HIDE DEF Goal
  <1>9. Goal
    BY <1>1, <1>2, <1>3, <1>5, <1>6, <1>7, <1>8 DEF Call, Goal
  <1>10. QED
    BY <1>9 DEF Goal

-----------------------------------------------------------------------------
\* Tasks are priced as their lines were, and are pickups if all lines are.
AsPriced ==
  \A i \in DOMAIN log :
    /\ PricesWhole => Multiple(log[i].amount)
    /\ PickupsOnly => log[i].kind = "pickup"

\* A task that is added is one.
LEMMA AsPricedStep ==
  ASSUME Inductive, AsPriced, [Next]_vars
  PROVE  AsPriced'
  <1>1. CASE \E r \in Requests : XAdd(r)
    <2>1. PICK r \in Requests : XAdd(r)
      BY <1>1
    <2>2. /\ Pushing(r) /\ MoreLines(r) /\ pc[r] # "idle" /\ line[r] \in Nat \ {0}
          /\ order[r] \in Order
      BY <2>1, CallTypes DEF XAdd, Pushing, Inductive, TypeOK, GatewayTypeOK
    <2>3. line[r] \in DOMAIN Cart(r)
      BY <2>2, CartTypes DEF MoreLines
    <2>4. At(r) \in Line /\ Known(At(r)) /\ At(r).qty > 0
      BY <2>2, <2>3, CartTypes DEF Inductive, QuantitiesPositive, LinesKnown, Pushing, At
    <2>5. PricesWhole => Multiple(TaskOf(r).amount)
      BY <2>4, ChargeTypes DEF TaskOf
    <2>6. PickupsOnly => TaskOf(r).kind = "pickup"
      <3>1. Cart(r) \in Carts
        BY <2>2 DEF Order, Cart
      <3>2. QED
        BY <2>3, <3>1 DEF PickupsOnly, TaskOf, At
    <2>7. /\ DOMAIN log' = DOMAIN log \cup {Len(log) + 1} /\ log'[Len(log) + 1] = TaskOf(r)
          /\ \A i \in DOMAIN log : log'[i] = log[i]
      BY <2>1, Added
    <2>8. QED
      BY <2>5, <2>6, <2>7 DEF AsPriced
  <1>2. CASE ~\E r \in Requests : XAdd(r)
    <2>1. log' = log
      BY <1>2, OtherSteps, CallFrame
    <2>2. QED
      BY <2>1 DEF AsPriced
  <1>3. QED
    BY <1>1, <1>2

\* What tasks cost a member is an integer, and none is negative when all are pickups.
LEMMA CostTypes ==
  ASSUME Inductive, AsPriced, NEW u \in Users
  PROVE  /\ \A i \in DOMAIN log : /\ TasksCost(u)[i] = Cost(log[i], u)
                                  /\ TasksCost(u)[i] \in Int
                                  /\ PickupsOnly => TasksCost(u)[i] >= 0
         /\ IsFiniteSet(DOMAIN log)
         /\ \A S \in SUBSET DOMAIN log : IsFiniteSet(S) /\ TaskMoney(u, S) \in Int
  <1>1. log \in Seq(Task) /\ DOMAIN log = 1..Len(log) /\ Len(log) \in Nat
    BY CallTypes
  <1>2. IsFiniteSet(DOMAIN log)
    BY <1>1, FS_Interval
  <1>3. \A i \in DOMAIN log : log[i].amount \in Int /\ log[i].amount >= 0
    <2>1. \A i \in DOMAIN log : log[i] \in Task
      BY <1>1
    <2>2. QED
      BY <2>1 DEF Inductive, QuantitiesPositive, Task
  <1>4. \A i \in DOMAIN log : TasksCost(u)[i] = Cost(log[i], u)
    BY DEF TasksCost, Cost
  <1>5. \A i \in DOMAIN log : Cost(log[i], u) \in Int
    BY <1>3 DEF Cost, Sign
  <1>6. PickupsOnly => \A i \in DOMAIN log : Cost(log[i], u) >= 0
    BY <1>3 DEF Cost, Sign, AsPriced
  <1>7. ASSUME NEW S \in SUBSET DOMAIN log
        PROVE  IsFiniteSet(S) /\ TaskMoney(u, S) \in Int
    <2>1. IsFiniteSet(S) /\ \A i \in S : TasksCost(u)[i] \in Int
      BY <1>2, <1>4, <1>5, FS_Subset
    <2>2. SumFunctionOnSet(TasksCost(u), S) \in Int
      BY <2>1, SumInt
    <2>3. QED
      BY <2>1, <2>2 DEF TaskMoney
  <1>8. QED
    BY <1>2, <1>4, <1>5, <1>6, <1>7

\* So it is in the state that a step leads to.
LEMMA CostStaysTyped ==
  Inductive' /\ AsPriced' =>
    \A u \in Users, S \in SUBSET DOMAIN log' : TaskMoney(u, S)' \in Int
  <1>1. Inductive /\ AsPriced => \A u \in Users, S \in SUBSET DOMAIN log : TaskMoney(u, S) \in Int
    BY CostTypes
  <1>2. Inductive' /\ AsPriced'
          => (\A u \in Users, S \in SUBSET DOMAIN log : TaskMoney(u, S) \in Int)'
    BY <1>1, PTL
  <1>3. QED
    BY <1>2

\* A task less costs less; fewer pickups do not cost more.
LEMMA FewerCosts ==
  ASSUME Inductive, AsPriced, NEW u \in Users, NEW S \in SUBSET DOMAIN log, NEW T \in SUBSET S
  PROVE  /\ PickupsOnly => TaskMoney(u, T) <= TaskMoney(u, S)
         /\ \A i \in S : TaskMoney(u, S) = Cost(log[i], u) + TaskMoney(u, S \ {i})
  <1>1. /\ IsFiniteSet(S)
        /\ \A i \in S : /\ TasksCost(u)[i] = Cost(log[i], u) /\ TasksCost(u)[i] \in Int
                        /\ PickupsOnly => TasksCost(u)[i] >= 0
    BY CostTypes
  <1>2. PickupsOnly => SumFunctionOnSet(TasksCost(u), T) <= SumFunctionOnSet(TasksCost(u), S)
    BY <1>1, SumOfPart
  <1>3. \A i \in S : SumFunctionOnSet(TasksCost(u), S)
                       = TasksCost(u)[i] + SumFunctionOnSet(TasksCost(u), S \ {i})
    BY <1>1, SumTakes
  <1>4. QED
    BY <1>1, <1>2, <1>3 DEF TaskMoney

\* A task more costs what it costs.
LEMMA OneCostMore ==
  ASSUME Inductive, Inductive', AsPriced, AsPriced', NEW r \in Requests, XAdd(r),
         NEW u \in Users, NEW S \in SUBSET DOMAIN log, NEW T \in SUBSET (S \cup {Len(log) + 1})
  PROVE  /\ PickupsOnly => TaskMoney(u, T)' <= TaskMoney(u, S) + Cost(TaskOf(r), u)
         /\ T = S \cup {Len(log) + 1} =>
              TaskMoney(u, T)' = TaskMoney(u, S) + Cost(TaskOf(r), u)
  <1> DEFINE n == Len(log) + 1
             f == TasksCost(u)
             g == TasksCost(u)'
             B == S \cup {n}
  <1>1. /\ DOMAIN log' = DOMAIN log \cup {n} /\ n \notin DOMAIN log /\ log'[n] = TaskOf(r)
        /\ \A i \in DOMAIN log : log'[i] = log[i]
    BY Added
  <1>2. /\ DOMAIN log' = 1..Len(log') /\ Len(log') \in Nat /\ log' \in Seq(Task)
    <2>1. log' \in Seq(Task)
      BY DEF Inductive, TypeOK, StoreTypeOK
    <2>2. QED
      BY <2>1
  <1>3. \A i \in DOMAIN log' : log'[i].amount >= 0 /\ log'[i].amount \in Int
    <2>1. \A i \in DOMAIN log' : log'[i] \in Task
      BY <1>2
    <2>2. QED
      BY <2>1 DEF Inductive, QuantitiesPositive, Task
  <1>4. \A i \in DOMAIN log' : /\ g[i] = Cost(log'[i], u) /\ g[i] \in Int
                               /\ PickupsOnly => g[i] >= 0
    BY <1>3 DEF TasksCost, Cost, Sign, AsPriced
  <1>5. \A i \in S : f[i] = g[i] /\ f[i] \in Int
    BY <1>1, <1>4 DEF TasksCost, Cost
  <1>6. B \subseteq DOMAIN log' /\ IsFiniteSet(B) /\ IsFiniteSet(S) /\ n \notin S
    <2>1. IsFiniteSet(DOMAIN log')
      BY <1>2, FS_Interval
    <2>2. B \subseteq DOMAIN log' /\ S \subseteq B
      BY <1>1
    <2>3. n \notin S
      BY <1>1
    <2> HIDE DEF B
    <2>4. QED
      BY <2>1, <2>2, <2>3, FS_Subset
  <1>7. g[n] = Cost(TaskOf(r), u) /\ g[n] \in Int
    BY <1>1, <1>4
  <1>8. TaskMoney(u, S) = SumFunctionOnSet(f, S) /\ TaskMoney(u, T)' = SumFunctionOnSet(g, T)
    BY DEF TaskMoney
  <1>9. T \in SUBSET B /\ \A i \in B : g[i] \in Int /\ (PickupsOnly => g[i] >= 0)
    BY <1>4, <1>6
  <1> HIDE DEF f, g, n
  <1>10. SumFunctionOnSet(g, B) = SumFunctionOnSet(f, S) + g[n] /\ SumFunctionOnSet(f, S) \in Int
    BY <1>5, <1>6, <1>7, SumMoves
  <1> HIDE DEF B
  <1>11. PickupsOnly => SumFunctionOnSet(g, T) <= SumFunctionOnSet(g, B)
    BY <1>6, <1>9, SumOfPart
  <1>12. QED
    BY <1>7, <1>8, <1>10, <1>11 DEF B, n

-----------------------------------------------------------------------------
\* The money that calls hold, in the state that a step leads to.
LEMMA MoneyStaysTyped ==
  Inductive' /\ AddedUp' => \A r \in Requests, u \in Users : MoneyOf(r, u)' \in Int
  <1>1. Inductive /\ AddedUp => \A r \in Requests, u \in Users : MoneyOf(r, u) \in Int
    BY MoneyOfTypes
  <1>2. Inductive' /\ AddedUp' => (\A r \in Requests, u \in Users : MoneyOf(r, u) \in Int)'
    BY <1>1, PTL
  <1>3. QED
    BY <1>2

\* The money that all the calls hold moves with the call that makes the step.
LEMMA HeldMoneyMoves ==
  ASSUME NEW r \in Requests, NEW u \in Users,
         \A s \in Requests : MoneyOf(s, u) \in Int /\ MoneyOf(s, u)' \in Int,
         \A s \in Requests \ {r} : MoneyOf(s, u)' = MoneyOf(s, u)
  PROVE  /\ HeldMoney(u) \in Int
         /\ HeldMoney(u)' = HeldMoney(u) + (MoneyOf(r, u)' - MoneyOf(r, u))
  <1> DEFINE f == [s \in Requests |-> MoneyOf(s, u)]
             g == [s \in Requests |-> MoneyOf(s, u)']
  <1>1. HeldMoney(u) = SumFunctionOnSet(f, Requests) /\ HeldMoney(u)' = SumFunctionOnSet(g, Requests)
    BY DEF HeldMoney, SumFunction
  <1>2. \A s \in Requests : f[s] \in Int /\ g[s] \in Int
    OBVIOUS
  <1>3. \A s \in Requests \ {r} : f[s] = g[s]
    OBVIOUS
  <1>4. f[r] = MoneyOf(r, u) /\ g[r] = MoneyOf(r, u)'
    OBVIOUS
  <1> HIDE DEF f, g
  <1>5. SumFunctionOnSet(g, Requests) = SumFunctionOnSet(f, Requests) + (g[r] - f[r])
    BY <1>2, <1>3, CallsAssumption, SumBut
  <1>6. SumFunctionOnSet(f, Requests) \in Int
    BY <1>2, CallsAssumption, SumInt
  <1>7. QED
    BY <1>1, <1>4, <1>5, <1>6

\* It is an integer, none when nothing is at work, and at most what it was when calls
\* are cut off.
LEMMA HeldMoneyTypes ==
  ASSUME Inductive, AddedUp, NEW u \in Users
  PROVE  /\ HeldMoney(u) \in Int
         /\ (\A r \in Requests : ~InFlight(r)) => HeldMoney(u) = 0
         /\ Inductive' /\ AddedUp' /\ (\A r \in Requests : MoneyOf(r, u)' <= MoneyOf(r, u))
              => HeldMoney(u)' \in Int /\ HeldMoney(u)' <= HeldMoney(u)
  <1> DEFINE f == [s \in Requests |-> MoneyOf(s, u)]
             g == [s \in Requests |-> MoneyOf(s, u)']
  <1>1. HeldMoney(u) = SumFunctionOnSet(f, Requests) /\ HeldMoney(u)' = SumFunctionOnSet(g, Requests)
    BY DEF HeldMoney, SumFunction
  <1>2. \A s \in Requests : f[s] \in Int
    BY MoneyOfTypes
  <1>3. ASSUME \A r \in Requests : ~InFlight(r)
        PROVE  SumFunctionOnSet(f, Requests) = 0
    <2>1. \A s \in Requests : f[s] = 0
      BY <1>3, MoneyOfTypes DEF InFlight, Pushing
    <2> HIDE DEF f
    <2>2. QED
      BY <2>1, CallsAssumption, SumZero
  <1>4. ASSUME Inductive', AddedUp', \A r \in Requests : MoneyOf(r, u)' <= MoneyOf(r, u)
        PROVE  /\ SumFunctionOnSet(g, Requests) \in Int
               /\ SumFunctionOnSet(g, Requests) <= SumFunctionOnSet(f, Requests)
    <2>1. \A s \in Requests : MoneyOf(s, u)' \in Int
      BY <1>4, MoneyStaysTyped
    <2>2. \A s \in Requests : g[s] \in Int /\ g[s] <= f[s]
      BY <1>4, <2>1
    <2> HIDE DEF f, g
    <2>3. QED
      BY <1>2, <2>2, CallsAssumption, SumAtMost, SumInt
  <1>5. SumFunctionOnSet(f, Requests) \in Int
    <2> HIDE DEF f
    <2>1. QED
      BY <1>2, CallsAssumption, SumInt
  <1>6. QED
    BY <1>1, <1>3, <1>4, <1>5

\* What is on the counter of u, with calls and with the tasks in S.
Purse(u, S) == Counter(wallet[u]) + HeldMoney(u) + TaskMoney(u, S)

\* The invariants that the steps below rest on.
Prepared == Inductive /\ AddedUp /\ AsPriced

\* The parts of a purse are integers.
PursesTyped ==
  \A u \in Users :
    /\ Counter(wallet[u]) \in Int /\ HeldMoney(u) \in Int /\ Counter(dbBalance[u]) \in Int
    /\ \A S \in SUBSET DOMAIN log : TaskMoney(u, S) \in Int /\ Purse(u, S) \in Int

LEMMA PurseTypes == (Prepared => PursesTyped) /\ (Prepared' => PursesTyped')
  <1>1. Prepared => PursesTyped
    <2> SUFFICES ASSUME Prepared, NEW u \in Users, NEW S \in SUBSET DOMAIN log
                 PROVE  /\ Counter(wallet[u]) \in Int /\ HeldMoney(u) \in Int
                        /\ Counter(dbBalance[u]) \in Int
                        /\ TaskMoney(u, S) \in Int /\ Purse(u, S) \in Int
      <3>1. {} \in SUBSET DOMAIN log
        OBVIOUS
      <3>2. QED
        BY <3>1 DEF PursesTyped
    <2>1. Counter(wallet[u]) \in Int /\ HeldMoney(u) \in Int /\ TaskMoney(u, S) \in Int
      BY WalletTypes, HeldMoneyTypes, CostTypes DEF Prepared
    <2>2. Counter(dbBalance[u]) \in Int
      BY DEF Prepared, Inductive, TypeOK, StoreTypeOK, Counter
    <2>3. QED
      BY <2>1, <2>2 DEF Purse
  <1>2. Prepared' => PursesTyped'
    BY <1>1, PTL
  <1>3. QED
    BY <1>1, <1>2

\* The step of a call: S are tasks before it, T are some of them, and the one it adds.
LEMMA CallPurse ==
  ASSUME Prepared, Prepared', NoDoubles, PricesWhole, NEW r \in Requests, Begin(r) \/ Call(r),
         NEW u \in Users, NEW S \in SUBSET DOMAIN log,
         NEW T \in SUBSET (S \cup (IF log' = log THEN {} ELSE {Len(log) + 1}))
  PROVE  /\ PickupsOnly => Purse(u, T)' <= Purse(u, S)
         /\ /\ {"redis", "rerun"} \cap Faults = {} /\ Whole(wallet[u])
            /\ T = S \cup (IF log' = log THEN {} ELSE {Len(log) + 1})
            => Purse(u, T)' = Purse(u, S)
  <1> DEFINE a == MoneyOf(r, u)
             b == MoneyOf(r, u)'
             n == NewMoney(r, u)
             h == HeldMoney(u)
             k == HeldMoney(u)'
             s == TaskMoney(u, S)
             t == TaskMoney(u, T)'
             c == Counter(wallet[u])
             d == Counter(wallet[u])'
             Calm == {"redis", "rerun"} \cap Faults = {} /\ Whole(wallet[u])
             All == T = S \cup (IF log' = log THEN {} ELSE {Len(log) + 1})
  <1>1. /\ d \in Int /\ b \in Int /\ n \in Int
        /\ (PickupsOnly => d + b + n <= c + a) /\ (Calm => d + b + n = c + a)
    BY CallMoney DEF Prepared
  <1>2. a \in Int /\ c \in Int /\ h \in Int /\ s \in Int
    BY PurseTypes, MoneyOfTypes DEF Prepared, PursesTyped
  <1>3. k = h + (b - a)
    <2>1. \A q \in Requests : MoneyOf(q, u) \in Int /\ MoneyOf(q, u)' \in Int
      BY MoneyOfTypes, MoneyStaysTyped DEF Prepared
    <2>2. \A q \in Requests \ {r} : MoneyOf(q, u)' = MoneyOf(q, u)
      BY CallFrame DEF Prepared, MoneyOf, Held, Pushing, Cart
    <2>3. QED
      BY <2>1, <2>2, HeldMoneyMoves
  <1>4. t \in Int /\ (PickupsOnly => t <= s + n) /\ (All => t = s + n)
    <2>1. CASE log' = log
      <3>1. TaskMoney(u, T)' = TaskMoney(u, T) /\ n = 0 /\ T \in SUBSET S
        BY <2>1 DEF TaskMoney, TasksCost, NewMoney
      <3>2. T \in SUBSET DOMAIN log
        BY <3>1
      <3>3. TaskMoney(u, T) \in Int /\ (PickupsOnly => TaskMoney(u, T) <= s)
        BY <3>1, <3>2, FewerCosts, CostTypes DEF Prepared
      <3>4. All => T = S
        BY <2>1
      <3>5. All => t = s
        BY <3>1, <3>4
      <3> HIDE DEF n, s, t, All
      <3>6. t = TaskMoney(u, T)
        BY <3>1 DEF t
      <3>7. QED
        BY <1>2, <3>1, <3>3, <3>5, <3>6
    <2>2. CASE log' # log
      <3>1. XAdd(r) /\ n = Cost(TaskOf(r), u)
        BY <2>2, CallFrame DEF NewMoney, Prepared
      <3>2. T \in SUBSET (S \cup {Len(log) + 1}) /\ (All => T = S \cup {Len(log) + 1})
        BY <2>2
      <3>3. /\ PickupsOnly => TaskMoney(u, T)' <= s + Cost(TaskOf(r), u)
            /\ All => TaskMoney(u, T)' = s + Cost(TaskOf(r), u)
        BY <3>1, <3>2, OneCostMore DEF Prepared
      <3>4. T \in SUBSET DOMAIN log'
        BY <3>1, <3>2, Added DEF Prepared
      <3>5. t \in Int
        BY <3>4, CostStaysTyped DEF Prepared
      <3>6. QED
        BY <3>1, <3>3, <3>5
    <2>3. QED
      BY <2>1, <2>2
  <1>5. Purse(u, S) = c + h + s /\ Purse(u, T)' = d + k + t
    BY DEF Purse
  <1>6. ASSUME PickupsOnly
        PROVE  Purse(u, T)' <= Purse(u, S)
    <2> HIDE DEF a, b, n, h, k, s, t, c, d
    <2>1. QED
      BY <1>1, <1>2, <1>3, <1>4, <1>5, <1>6
  <1>7. ASSUME Calm, All
        PROVE  Purse(u, T)' = Purse(u, S)
    <2> HIDE DEF a, b, n, h, k, s, t, c, d
    <2>1. QED
      BY <1>1, <1>2, <1>3, <1>4, <1>5, <1>7
  <1>8. QED
    BY <1>6, <1>7

\* A step that leaves the calls and the stream alone, and the counter of u.
LEMMA SamePurse ==
  ASSUME Prepared, UNCHANGED <<gatewayVars, log>>, NEW u \in Users, wallet'[u] = wallet[u],
         NEW S \in SUBSET DOMAIN log, NEW T \in SUBSET S
  PROVE  (PickupsOnly => Purse(u, T)' <= Purse(u, S)) /\ (T = S => Purse(u, T)' = Purse(u, S))
  <1>1. HeldMoney(u)' = HeldMoney(u)
    BY DEF HeldMoney, MoneyOf, Held, Pushing, Cart, gatewayVars
  <1>2. TaskMoney(u, T)' = TaskMoney(u, T)
    BY DEF TaskMoney, TasksCost
  <1>3. Purse(u, T)' = Purse(u, T)
    BY <1>1, <1>2 DEF Purse
  <1>4. T \in SUBSET DOMAIN log
    OBVIOUS
  <1>5. PickupsOnly => TaskMoney(u, T) <= TaskMoney(u, S)
    BY FewerCosts DEF Prepared
  <1>6. /\ TaskMoney(u, T) \in Int /\ TaskMoney(u, S) \in Int
        /\ Counter(wallet[u]) \in Int /\ HeldMoney(u) \in Int
    BY <1>4, PurseTypes DEF PursesTyped
  <1>7. QED
    BY <1>3, <1>5, <1>6 DEF Purse

\* A task i is booked, or its money is given back.
LEMMA TaskPurse ==
  ASSUME Prepared, UNCHANGED <<gatewayVars, log>>, NEW u \in Users, Counter(wallet[u])' \in Int,
         NEW S \in SUBSET DOMAIN log, NEW i \in S, NEW T \in SUBSET (S \ {i})
  PROVE  /\ PickupsOnly =>
              Purse(u, T)' <= Purse(u, S) + (Counter(wallet[u])' - Counter(wallet[u]))
                                - Cost(log[i], u)
         /\ T = S \ {i} =>
              Purse(u, T)' = Purse(u, S) + (Counter(wallet[u])' - Counter(wallet[u]))
                               - Cost(log[i], u)
         /\ Cost(log[i], u) \in Int
  <1>1. HeldMoney(u)' = HeldMoney(u)
    BY DEF HeldMoney, MoneyOf, Held, Pushing, Cart, gatewayVars
  <1>2. TaskMoney(u, T)' = TaskMoney(u, T)
    BY DEF TaskMoney, TasksCost
  <1>3. S \ {i} \in SUBSET DOMAIN log /\ T \in SUBSET DOMAIN log /\ {} \in SUBSET S
    OBVIOUS
  <1>4. PickupsOnly => TaskMoney(u, T) <= TaskMoney(u, S \ {i})
    BY <1>3, FewerCosts DEF Prepared
  <1>5. TaskMoney(u, S) = Cost(log[i], u) + TaskMoney(u, S \ {i})
    BY <1>3, FewerCosts DEF Prepared
  <1>6. /\ TaskMoney(u, T) \in Int /\ TaskMoney(u, S) \in Int /\ TaskMoney(u, S \ {i}) \in Int
        /\ Counter(wallet[u]) \in Int /\ HeldMoney(u) \in Int
    BY <1>3, PurseTypes DEF PursesTyped
  <1>7. Cost(log[i], u) \in Int
    BY CostTypes DEF Prepared
  <1>8. /\ Purse(u, S) = Counter(wallet[u]) + HeldMoney(u) + TaskMoney(u, S)
        /\ Purse(u, T)' = Counter(wallet[u])' + HeldMoney(u) + TaskMoney(u, T)
    BY <1>1, <1>2 DEF Purse
  <1> DEFINE x == TaskMoney(u, T)
             y == TaskMoney(u, S \ {i})
             z == TaskMoney(u, S)
             c == Counter(wallet[u])
             d == Counter(wallet[u])'
             h == HeldMoney(u)
             e == Cost(log[i], u)
  <1>9. T = S \ {i} => x = y
    OBVIOUS
  <1>10. /\ x \in Int /\ y \in Int /\ z \in Int /\ c \in Int /\ d \in Int /\ h \in Int /\ e \in Int
         /\ (PickupsOnly => x <= y) /\ z = e + y
         /\ Purse(u, S) = c + h + z /\ Purse(u, T)' = d + h + x
    BY <1>4, <1>5, <1>6, <1>7, <1>8
  <1> HIDE DEF x, y, z, c, d, h, e
  <1>11. /\ PickupsOnly => Purse(u, T)' <= Purse(u, S) + (d - c) - e
         /\ x = y => Purse(u, T)' = Purse(u, S) + (d - c) - e
    BY <1>10
  <1>12. QED
    BY <1>9, <1>10, <1>11 DEF c, d, e

\* The state in which the money of a task turned down is still to be given back.
Repaying == {"refundWallet"}

\* A pickup booked takes its money from the balance, a return adds it.
LEMMA BookedMoney ==
  ASSUME Prepared, NEW i \in DOMAIN log, MemberExists(log[i]), UpdateMember(log[i]),
         NEW u \in Users
  PROVE  Counter(dbBalance[u])' = Counter(dbBalance[u]) - Cost(log[i], u)
  <1>1. dbBalance \in [Users -> Int \cup {Absent}] /\ log[i] \in Task
    <2>1. log \in Seq(Task)
      BY CallTypes DEF Prepared
    <2>2. QED
      BY <2>1 DEF Prepared, Inductive, TypeOK, StoreTypeOK
  <1> DEFINE t == log[i]
             n == Sign(t) * t.amount
  <1>2. n \in Int /\ Cost(t, u) = IF t.user = u THEN -n ELSE 0
    BY <1>1 DEF Task, Sign, Cost
  <1>3. dbBalance' = [dbBalance EXCEPT ![t.user] = @ + n] /\ dbBalance[t.user] # Absent
    BY DEF UpdateMember, MemberExists
  <1> HIDE DEF n, t
  <1>4. CASE t.user = u
    <2>1. PICK b \in Int : b = dbBalance[u]
      BY <1>1, <1>3, <1>4
    <2>2. dbBalance'[u] = b + n /\ b + n # Absent /\ b # Absent
      BY <1>1, <1>2, <1>3, <1>4, <2>1, MarkerAssumption
    <2>3. Counter(dbBalance[u])' = b + n /\ Counter(dbBalance[u]) = b
      BY <2>1, <2>2 DEF Counter
    <2>4. QED
      BY <1>2, <1>4, <2>1, <2>3 DEF t
  <1>5. CASE t.user # u
    <2>1. Counter(dbBalance[u])' = Counter(dbBalance[u])
      BY <1>1, <1>3, <1>5 DEF Counter
    <2>2. Counter(dbBalance[u]) \in Int
      BY <1>1 DEF Counter
    <2>3. QED
      BY <1>2, <1>5, <2>1, <2>2 DEF t
  <1>6. QED
    BY <1>4, <1>5

\* Money given back is what the task cost, if the command takes effect.
LEMMA Repaid ==
  ASSUME Prepared, PricesWhole, RefundWallet, ReachTimes \subseteq {0, 1}, NEW u \in Users
  PROVE  /\ cur \in DOMAIN log /\ Cost(log[cur], u) \in Int
         /\ Counter(wallet[u])' \in {Counter(wallet[u]), Counter(wallet[u]) + Cost(log[cur], u)}
         /\ ReachTimes = {1} /\ Whole(wallet[u]) =>
              Counter(wallet[u])' = Counter(wallet[u]) + Cost(log[cur], u)
  <1>1. wpc = "refundWallet" /\ cur \in DOMAIN log
    BY CallTypes DEF RefundWallet, Prepared, Inductive, TypeOK, WorkerTypeOK
  <1>2. log[cur] \in Task
    <2>1. log \in Seq(Task)
      BY CallTypes DEF Prepared
    <2>2. QED
      BY <1>1, <2>1
  <1> DEFINE t == log[cur]
             n == -Sign(t) * Trunc(t.amount)
  <1>3. t.amount \in Int /\ Multiple(t.amount)
    BY <1>1, <1>2 DEF Prepared, AsPriced, Task
  <1>4. Trunc(t.amount) = t.amount
    BY <1>3, TruncMultiple
  <1>5. n \in Int /\ Cost(t, u) = IF t.user = u THEN n ELSE 0
    BY <1>2, <1>3, <1>4 DEF Sign, Cost
  <1>6. PICK k \in ReachTimes : wallet' = [wallet EXCEPT ![t.user] = IncrBy(@, n, k)]
    BY DEF RefundWallet
  <1> HIDE DEF n, t
  <1>7. CASE t.user = u
    <2>1. wallet'[u] = IncrBy(wallet[u], n, k)
      BY <1>6, <1>7, WalletTypes DEF Prepared
    <2>2. k \in {0, 1}
      BY <1>6
    <2>3. /\ Counter(wallet'[u]) \in {Counter(wallet[u]), Counter(wallet[u]) + n}
          /\ k = 1 /\ Whole(wallet[u]) => Counter(wallet'[u]) = Counter(wallet[u]) + n
      BY <1>5, <2>1, <2>2, WalletTypes DEF Prepared
    <2>4. QED
      BY <1>1, <1>5, <1>6, <1>7, <2>3 DEF t
  <1>8. CASE t.user # u
    <2>1. wallet'[u] = wallet[u]
      BY <1>6, <1>8, WalletTypes DEF Prepared
    <2>2. Counter(wallet[u]) \in Int
      BY WalletTypes DEF Prepared
    <2>3. QED
      BY <1>1, <1>5, <1>8, <2>1, <2>2 DEF t
  <1>9. QED
    BY <1>7, <1>8

\* A step of the worker keeps the purse covered.
LEMMA WorkerPurse ==
  ASSUME Prepared, Prepared', InHand, NoDoubles, PricesWhole, PickupsOnly, WorkerStep,
         NEW u \in Users, NEW d \in Int, Purse(u, Claims(Repaying)) <= Counter(dbBalance[u]) + d
  PROVE  Purse(u, Claims(Repaying))' <= Counter(dbBalance[u])' + d
  <1>1. UNCHANGED <<gatewayVars, log>> /\ WorkerNext /\ Inductive
    BY DEF WorkerStep, WorkerNext, Prepared
  <1>2. PICK S \in SUBSET DOMAIN log : S = Claims(Repaying)
    BY PromiseTypes DEF Claims, Live
  <1>3. PICK T : T = Claims(Repaying)'
    OBVIOUS
  <1>4. Purse(u, Claims(Repaying))' = Purse(u, T)'
    BY <1>3 DEF Purse, TaskMoney
  <1>5. /\ Counter(wallet[u]) \in Int /\ Counter(dbBalance[u]) \in Int /\ Purse(u, S) \in Int
        /\ Counter(wallet[u])' \in Int /\ Counter(dbBalance[u])' \in Int
        /\ Purse(u, S) <= Counter(dbBalance[u]) + d
    BY <1>2, PurseTypes DEF PursesTyped
  <1>6. T \in SUBSET DOMAIN log'
    BY <1>3 DEF Claims, Live
  <1>7. Purse(u, T)' \in Int
    BY <1>6, PurseTypes DEF PursesTyped
  <1>8. ASSUME wallet'[u] = wallet[u], UNCHANGED dbBalance, T \in SUBSET S
        PROVE  Purse(u, T)' <= Counter(dbBalance[u])' + d
    <2>1. Purse(u, T)' <= Purse(u, S)
      BY <1>1, <1>8, SamePurse
    <2>2. QED
      BY <1>5, <1>7, <1>8, <2>1
  <1>9. CASE StartRead \/ Deliver \/ ReadNil \/ ReadError \/ Stop \/ Ack
    <2>1. Claims(Repaying)' \subseteq Live /\ wallet' = wallet /\ UNCHANGED dbBalance
      <3>1. Repaying \in SUBSET Refunding
        BY DEF Repaying, Refunding
      <3>2. QED
        BY <1>1, <1>9, <3>1, ClaimsWait DEF dbVars
    <2>2. T \in SUBSET S
      BY <1>2, <1>3, <2>1 DEF Claims
    <2>3. QED
      BY <1>4, <1>8, <2>1, <2>2
  <1>10. CASE RefundStock
    <2>1. UNCHANGED <<log, history, cur, batch, rejected, cursor, rpos, wallet, dbBalance>>
          /\ wpc = "refundStock" /\ wpc' = "ack"
      BY <1>1, <1>10 DEF RefundStock, dbVars
    <2>2. T \in SUBSET S
      BY <1>2, <1>3, <2>1 DEF Claims, Live, Handled, Committed, Repaying
    <2>3. QED
      BY <1>4, <1>8, <2>1, <2>2
  <1>11. CASE Abort
    <2>1. PICK i \in batch : IsOldest(i) /\ Take(i) /\ rejected' = rejected \cup {i}
      BY <1>11 DEF Abort
    <2>2. wpc = "batch" /\ wpc' = "refundWallet" /\ UNCHANGED <<wallet, dbVars>>
      BY <1>11 DEF Abort
    <2>3. Handled' = Handled \cup {i}
      BY <2>1, <2>2 DEF Handled, Committed, dbVars
    <2>4. i \in Live /\ Live' \subseteq Live \ {i}
          /\ Claims(Repaying)' \subseteq Live' \cup (IF wpc' \in Repaying THEN {i} ELSE {})
      BY <1>1, <2>1, <2>2, <2>3, ClaimsTaken
    <2>5. T \in SUBSET S
      BY <1>2, <1>3, <2>4 DEF Claims
    <2>6. QED
      BY <1>4, <1>8, <2>2, <2>5 DEF dbVars
  <1>12. CASE Commit
    <2>1. PICK i \in batch : IsOldest(i) /\ Settleable(log[i]) /\ Book(i) /\ Take(i)
      BY <1>12 DEF Commit
    <2>2. wpc = "batch" /\ wpc' = "ack" /\ rejected' = rejected /\ wallet' = wallet
      BY <1>12 DEF Commit
    <2>3. Handled' = Handled \cup {i}
      BY <1>1, <2>1, <2>2, BookAdds DEF Handled
    <2>4. i \in Live /\ i \in DOMAIN log /\ Live' \subseteq Live \ {i}
          /\ Claims(Repaying)' \subseteq Live' \cup (IF wpc' \in Repaying THEN {i} ELSE {})
      BY <1>1, <2>1, <2>2, <2>3, ClaimsTaken
    <2>5. i \in S /\ T \in SUBSET (S \ {i})
      BY <1>2, <1>3, <2>2, <2>4 DEF Claims, Repaying
    <2>6. /\ Purse(u, T)' <= Purse(u, S) + (Counter(wallet[u])' - Counter(wallet[u]))
                              - Cost(log[i], u)
          /\ Cost(log[i], u) \in Int
      BY <1>1, <1>5, <2>5, TaskPurse
    <2>7. Counter(dbBalance[u])' = Counter(dbBalance[u]) - Cost(log[i], u)
      BY <2>1, <2>4, BookedMoney DEF Book, Settleable
    <2>8. Counter(wallet[u])' = Counter(wallet[u])
      BY <2>2
    <2>9. QED
      BY <1>4, <1>5, <1>7, <2>6, <2>7, <2>8
  <1>13. CASE RefundWallet
    <2>1. UNCHANGED <<log, history, cur, batch, rejected, cursor, rpos, dbBalance>>
          /\ wpc = "refundWallet" /\ wpc' = "refundStock"
      BY <1>1, <1>13 DEF RefundWallet, dbVars
    <2>2. ReachTimes \subseteq {0, 1}
      BY DEF ReachTimes, Times, NoDoubles
    <2>3. /\ cur \in DOMAIN log /\ Cost(log[cur], u) \in Int
          /\ Counter(wallet[u])' \in {Counter(wallet[u]), Counter(wallet[u]) + Cost(log[cur], u)}
      BY <1>13, <2>2, Repaid
    <2>4. Cost(log[cur], u) >= 0
      BY <2>3, CostTypes DEF Prepared
    <2>5. cur \in Handled
      BY <2>1 DEF InHand, Handled
    <2>6. cur \in S /\ T \in SUBSET (S \ {cur})
      BY <1>2, <1>3, <2>1, <2>3, <2>5 DEF Claims, Live, Handled, Committed, Repaying
    <2>7. Purse(u, T)' <= Purse(u, S) + (Counter(wallet[u])' - Counter(wallet[u]))
                            - Cost(log[cur], u)
      BY <1>1, <1>5, <2>6, TaskPurse
    <2>8. Counter(dbBalance[u])' = Counter(dbBalance[u])
      BY <2>1
    <2>9. QED
      BY <1>4, <1>5, <1>7, <2>3, <2>4, <2>7, <2>8
  <1>14. ~CommitLost
    BY DEF CommitLost, NoDoubles
  <1>15. QED
    BY <1>1, <1>9, <1>10, <1>11, <1>12, <1>13, <1>14 DEF WorkerNext, Settle

\* The end of the process takes calls and claims away; its start leaves the wallets.
LEMMA ProcessPurse ==
  ASSUME Prepared, Prepared', PickupsOnly, Process, NEW u \in Users,
         NEW d \in Int, Purse(u, Claims(Repaying)) <= Counter(dbBalance[u]) + d
  PROVE  Purse(u, Claims(Repaying))' <= Counter(dbBalance[u])' + d
  <1>1. PICK S \in SUBSET DOMAIN log : S = Claims(Repaying)
    BY PromiseTypes DEF Claims, Live
  <1>2. PICK T : T = Claims(Repaying)'
    OBVIOUS
  <1>3. Purse(u, Claims(Repaying))' = Purse(u, T)'
    BY <1>2 DEF Purse, TaskMoney
  <1>4. /\ UNCHANGED <<wallet, dbBalance, log>> /\ T \in SUBSET DOMAIN log'
        /\ Purse(u, S) <= Counter(dbBalance[u]) + d
    BY <1>1, <1>2 DEF Process, Signal, GracefulStop, Exit, Crash, Restart, cacheVars, dbVars,
       streamVars, Claims, Live
  <1>5. /\ Counter(wallet[u]) \in Int /\ Counter(dbBalance[u]) \in Int /\ HeldMoney(u) \in Int
        /\ TaskMoney(u, S) \in Int /\ Purse(u, S) \in Int /\ Purse(u, T)' \in Int
    BY <1>4, PurseTypes DEF PursesTyped
  <1>6. CASE Signal \/ GracefulStop
    <2>1. UNCHANGED <<gatewayVars, log, dbVars, workerVars>>
      BY <1>6 DEF Signal, GracefulStop, streamVars
    <2>2. T \in SUBSET S
      BY <1>1, <1>2, <2>1 DEF Claims, Live, Handled, Committed, workerVars, dbVars
    <2>3. Purse(u, T)' <= Purse(u, S)
      BY <1>4, <2>1, <2>2, SamePurse
    <2>4. QED
      BY <1>3, <1>4, <1>5, <2>3
  <1>7. CASE Exit \/ Crash \/ Restart
    <2>1. T = {}
      BY <1>2, <1>7 DEF Exit, Crash, Restart, StartId, Claims, Live, Repaying
    <2>2. TaskMoney(u, T)' = 0
      BY <2>1, SumNone DEF TaskMoney
    <2>3. 0 <= TaskMoney(u, S)
      <3>1. {} \in SUBSET S
        OBVIOUS
      <3>2. TaskMoney(u, {}) <= TaskMoney(u, S)
        BY <3>1, FewerCosts DEF Prepared
      <3>3. TaskMoney(u, {}) = 0
        BY SumNone DEF TaskMoney
      <3>4. QED
        BY <3>2, <3>3
    <2>4. HeldMoney(u)' \in Int /\ HeldMoney(u)' <= HeldMoney(u)
      <3>1. ASSUME NEW r \in Requests
            PROVE  MoneyOf(r, u)' <= MoneyOf(r, u)
        <4>1. /\ order' = order /\ line' = line
              /\ pc'[r] = pc[r] \/ pc'[r] = "dead"
          BY <1>7, CallTypes DEF Exit, Crash, Restart, gatewayVars, Prepared
        <4>2. MoneyOf(r, u) \in Int /\ MoneyOf(r, u) >= 0
          BY MoneyOfTypes DEF Prepared
        <4>3. CASE pc'[r] = pc[r]
          <5>1. MoneyOf(r, u)' = MoneyOf(r, u)
            BY <4>1, <4>3 DEF MoneyOf, Held, Pushing, Cart
          <5>2. QED
            BY <4>2, <5>1
        <4>4. CASE pc'[r] = "dead"
          <5>1. Held(r, {"undoWallet"})' = {}
            BY <4>4 DEF Held, Pushing
          <5>2. MoneyOf(r, u)' = 0
            BY <5>1, SumNone DEF MoneyOf
          <5>3. QED
            BY <4>2, <5>2
        <4>5. QED
          BY <4>1, <4>3, <4>4
      <3>2. QED
        BY <3>1, HeldMoneyTypes DEF Prepared
    <2>5. Counter(wallet[u])' = Counter(wallet[u])
      BY <1>4
    <2>6. Purse(u, T)' <= Purse(u, S)
      BY <1>5, <2>2, <2>3, <2>4, <2>5 DEF Purse
    <2>7. Counter(dbBalance[u])' = Counter(dbBalance[u])
      BY <1>4
    <2>8. QED
      BY <1>3, <1>4, <1>5, <2>6, <2>7
  <1>8. QED
    BY <1>6, <1>7 DEF Process

\* A step raises what a purse promises by no more than it raises the balance.
LEMMA PurseStep ==
  ASSUME Prepared, InHand, NoDoubles, PricesWhole, PickupsOnly, [Next]_vars,
         NEW u \in Users, NEW d \in Int, Purse(u, Claims(Repaying)) <= Counter(dbBalance[u]) + d
  PROVE  Prepared' /\ Purse(u, Claims(Repaying))' <= Counter(dbBalance[u])' + d
  <1>1. Prepared'
    BY InductiveStep, AddedUpStep, AsPricedStep DEF Prepared
  <1>2. PICK S \in SUBSET DOMAIN log : S = Claims(Repaying)
    BY DEF Claims, Live
  <1>3. PICK T : T = Claims(Repaying)'
    OBVIOUS
  <1>4. Purse(u, Claims(Repaying))' = Purse(u, T)' /\ T \in SUBSET DOMAIN log'
    BY <1>3 DEF Purse, TaskMoney, Claims, Live
  <1>5. /\ Counter(dbBalance[u]) \in Int /\ Purse(u, S) \in Int /\ Purse(u, T)' \in Int
        /\ Purse(u, S) <= Counter(dbBalance[u]) + d
    BY <1>1, <1>2, <1>4, PurseTypes DEF PursesTyped
  <1>6. CASE \E r \in Requests : (Begin(r) \/ Call(r)) /\ UNCHANGED <<dbVars, workerVars>>
    <2>1. PICK r \in Requests : (Begin(r) \/ Call(r)) /\ UNCHANGED <<dbVars, workerVars>>
      BY <1>6
    <2>2. T \in SUBSET (S \cup (IF log' = log THEN {} ELSE {Len(log) + 1}))
      <3>1. Handled' = Handled
        BY <2>1 DEF Handled, Committed, dbVars, workerVars
      <3>2. /\ \A i \in DOMAIN log' : i \in DOMAIN log \/ i = Len(log) + 1
            /\ log' = log \/ XAdd(r)
        BY <2>1, CallFrame, Added DEF Prepared
      <3>3. QED
        BY <1>2, <1>3, <2>1, <3>1, <3>2 DEF Claims, Live, workerVars
    <2>3. Purse(u, T)' <= Purse(u, S)
      BY <1>1, <2>1, <2>2, CallPurse
    <2>4. Counter(dbBalance[u])' = Counter(dbBalance[u])
      BY <2>1 DEF dbVars
    <2>5. QED
      BY <1>1, <1>4, <1>5, <2>3, <2>4
  <1>7. CASE WorkerStep
    BY <1>1, <1>7, WorkerPurse
  <1>8. CASE Process
    BY <1>1, <1>8, ProcessPurse
  <1>9. CASE UNCHANGED <<gatewayVars, log, wallet, dbVars, workerVars>>
    <2>1. T \in SUBSET S
      BY <1>2, <1>3, <1>9 DEF Claims, Live, Handled, Committed, workerVars, dbVars
    <2>2. Purse(u, T)' <= Purse(u, S)
      BY <1>9, <2>1, SamePurse
    <2>3. Counter(dbBalance[u])' = Counter(dbBalance[u])
      BY <1>9 DEF dbVars
    <2>4. QED
      BY <1>1, <1>4, <1>5, <2>2, <2>3
  <1>10. (\E v \in Users : Expire(v)) => UNCHANGED <<gatewayVars, log, wallet>>
    BY DEF Expire
  <1>11. UNCHANGED vars => UNCHANGED <<gatewayVars, log, wallet, dbVars, workerVars>>
    BY DEF vars, cacheVars, streamVars
  <1>12. QED
    BY <1>6, <1>7, <1>8, <1>9, <1>10, <1>11 DEF Next, GatewayStep, GatewayNext

\* WalletCovered with the task whose money is still to be given back.
PurseKept == \A u \in Users : Purse(u, Claims(Repaying)) <= Counter(dbBalance[u])

\* Every step keeps the purses covered.
LEMMA PurseKeptStep ==
  ASSUME Prepared, InHand, NoDoubles, PricesWhole, PickupsOnly, PurseKept, [Next]_vars
  PROVE  PurseKept' /\ Prepared'
  <1>1. Prepared'
    BY InductiveStep, AddedUpStep, AsPricedStep DEF Prepared
  <1>2. ASSUME NEW u \in Users
        PROVE  Purse(u, Claims(Repaying))' <= Counter(dbBalance[u])'
    <2>1. Counter(dbBalance[u]) \in Int /\ Counter(dbBalance[u])' \in Int
      BY <1>1, PurseTypes DEF PursesTyped
    <2>2. Purse(u, Claims(Repaying)) <= Counter(dbBalance[u]) + 0
      BY <2>1 DEF PurseKept
    <2>3. Purse(u, Claims(Repaying))' <= Counter(dbBalance[u])' + 0
      BY <2>2, PurseStep
    <2>4. QED
      BY <2>1, <2>3
  <1>3. QED
    BY <1>1, <1>2 DEF PurseKept

\* At the start nothing is held and nothing is queued.
LEMMA PurseInit ==
  ASSUME Init
  PROVE  /\ Prepared /\ InHand
         /\ \A u \in Users : /\ Purse(u, Claims(Repaying)) = Counter(OpeningWallet[u])
                             /\ Purse(u, Open(Repaying)) = Counter(OpeningWallet[u])
                             /\ Counter(dbBalance[u]) = Counter(OpeningBalance[u])
                             /\ Counter(wallet[u]) = Counter(OpeningWallet[u])
  <1>1. Prepared /\ InHand
    <2>1. AsPriced
      BY DEF Init, StoreInit, AsPriced
    <2>2. QED
      BY <2>1, InductiveInit, AddedUpInit DEF Prepared
  <1>2. ASSUME NEW u \in Users
        PROVE  /\ Purse(u, Claims(Repaying)) = Counter(OpeningWallet[u])
               /\ Purse(u, Open(Repaying)) = Counter(OpeningWallet[u])
               /\ Counter(dbBalance[u]) = Counter(OpeningBalance[u])
               /\ Counter(wallet[u]) = Counter(OpeningWallet[u])
    <2>1. HeldMoney(u) = 0
      BY <1>1, HeldMoneyTypes DEF Init, GatewayInit, InFlight, Prepared
    <2>2. Claims(Repaying) = {} /\ Open(Repaying) = {}
      BY DEF Init, StoreInit, WorkerInit, StartId, Claims, Live, Open, Repaying
    <2>3. TaskMoney(u, Claims(Repaying)) = 0 /\ TaskMoney(u, Open(Repaying)) = 0
      BY <2>2, SumNone DEF TaskMoney
    <2>4. wallet[u] = OpeningWallet[u] /\ dbBalance[u] = OpeningBalance[u]
      BY DEF Init, StoreInit
    <2>5. Counter(wallet[u]) \in Int
      BY <1>1, PurseTypes DEF PursesTyped
    <2>6. QED
      BY <2>1, <2>3, <2>4, <2>5 DEF Purse
  <1>3. QED
    BY <1>1, <1>2

\* No counter is above its balance at the start; all are at their balances, and whole.
OpensCovered == \A u \in Users : Counter(OpeningWallet[u]) <= Counter(OpeningBalance[u])
OpensExact ==
  \A u \in Users : OpeningWallet[u] = OpeningBalance[u] /\ Whole(OpeningWallet[u])

\* With carts of pickups at whole prices, the wallet counter never promises money that
\* the member does not have, or has promised to a call at work or to a task that the
\* worker can still come to: whatever crashes, shutdowns, restarts and lost replies do,
\* unless a command counts twice, a pipeline counts half, or a COMMIT is taken for a
\* failure.
THEOREM WalletIsCovered ==
  ASSUME NoDoubles, PricesWhole, PickupsOnly, OpensCovered
  PROVE  Spec => []WalletCovered
  <1>1. Init => Prepared /\ InHand /\ PurseKept
    <2> SUFFICES ASSUME Init
                 PROVE  Prepared /\ InHand /\ PurseKept
      OBVIOUS
    <2>1. QED
      BY PurseInit DEF PurseKept, OpensCovered
  <1>2. Prepared /\ InHand /\ PurseKept /\ [Next]_vars => Prepared' /\ InHand' /\ PurseKept'
    BY PurseKeptStep, InHandStep DEF Prepared
  <1>3. Prepared /\ PurseKept => WalletCovered
    <2> SUFFICES ASSUME Prepared, PurseKept, NEW u \in Users
                 PROVE  Counter(wallet[u]) + HeldMoney(u) + TaskMoney(u, Live)
                          <= Counter(dbBalance[u])
      BY DEF WalletCovered
    <2>1. PICK S \in SUBSET DOMAIN log : S = Claims(Repaying)
      BY DEF Claims, Live
    <2>2. PICK T \in SUBSET S : T = Live
      BY <2>1 DEF Claims
    <2>3. TaskMoney(u, T) <= TaskMoney(u, S)
      BY FewerCosts DEF Prepared
    <2>4. T \in SUBSET DOMAIN log
      OBVIOUS
    <2>5. /\ TaskMoney(u, T) \in Int /\ TaskMoney(u, S) \in Int /\ HeldMoney(u) \in Int
          /\ Counter(wallet[u]) \in Int /\ Counter(dbBalance[u]) \in Int
      BY <2>4, PurseTypes DEF PursesTyped
    <2>6. Purse(u, S) <= Counter(dbBalance[u])
      BY <2>1 DEF PurseKept
    <2>7. QED
      BY <2>2, <2>3, <2>5, <2>6 DEF Purse
  <1>4. QED
    BY <1>1, <1>2, <1>3, PTL DEF Spec

-----------------------------------------------------------------------------
\* No counter has a fraction.
WalletsWhole == \A u \in Users : Whole(wallet[u])

\* That is, each counts whole units.
LEMMA WholeIsMultiple ==
  ASSUME Inductive, NEW u \in Users
  PROVE  Whole(wallet[u]) <=> Multiple(Counter(wallet[u]))
  <1>1. Counter(wallet[u]) \in Int
    BY WalletTypes
  <1>2. QED
    BY <1>1, MultipleMod DEF Whole

\* So it is in the state that a step leads to.
LEMMA WholeStaysMultiple ==
  Inductive' => \A u \in Users : Multiple(Counter(wallet[u])') => Whole(wallet[u])'
  <1> DEFINE P == \A u \in Users : Multiple(Counter(wallet[u])) => Whole(wallet[u])
  <1>1. Inductive => P
    BY WholeIsMultiple
  <1> HIDE DEF P
  <1>2. Inductive' => P'
    BY <1>1, PTL
  <1>3. QED
    BY <1>2 DEF P, Multiple

\* With whole prices, nothing puts a fraction into a counter.
LEMMA WholeStep ==
  ASSUME Prepared, NoDoubles, PricesWhole, WalletsWhole, [Next]_vars
  PROVE  WalletsWhole'
  <1> SUFFICES ASSUME NEW u \in Users
               PROVE  Multiple(Counter(wallet[u])')
    BY InductiveStep, WholeStaysMultiple DEF Prepared, WalletsWhole
  <1>0. Counter(wallet[u]) \in Int /\ Multiple(Counter(wallet[u]))
    BY WholeIsMultiple, WalletTypes DEF Prepared, WalletsWhole
  <1>1. CASE wallet' = wallet
    BY <1>0, <1>1
  <1>2. ASSUME NEW r \in Requests, Reserve(r) \/ ReserveLost(r) \/ ReserveAgain(r)
        PROVE  Multiple(Counter(wallet[u])')
    <2>1. AtGate(r) /\ Deduct(r)
      BY <1>2 DEF Reserve, ReserveLost, ReserveAgain, AtGate
    <2>2. PICK a \in Int : Trunc(total[r]) = a /\ Multiple(a)
      <3>1. pc[r] \in Reserving
        BY <2>1 DEF AtGate, Reserving
      <3>2. QED
        BY <3>1, CartMoney DEF Prepared
    <2>3. wallet' = [wallet EXCEPT ![order[r].user] = Counter(@) - a]
      BY <2>1, <2>2 DEF Deduct
    <2>4. Counter(wallet[u]) - a \in Int /\ Multiple(Counter(wallet[u]) - a)
      <3> DEFINE c == Counter(wallet[u])
      <3> HIDE DEF c
      <3>1. c \in Int /\ Multiple(c)
        BY <1>0 DEF c
      <3>2. c - a \in Int /\ Multiple(c - a)
        BY <2>2, <3>1, MultipleOps
      <3>3. QED
        BY <3>2 DEF c
    <2>5. wallet'[u] = wallet[u] \/ wallet'[u] = Counter(wallet[u]) - a
      BY <2>3, WalletTypes DEF Prepared
    <2>6. wallet'[u] = Counter(wallet[u]) - a => Counter(wallet[u])' = Counter(wallet[u]) - a
      BY <2>4, MarkerAssumption DEF Counter
    <2>7. QED
      BY <1>0, <2>4, <2>5, <2>6
  <1>3. ASSUME NEW r \in Requests, UndoWallet(r)
        PROVE  Multiple(Counter(wallet[u])')
    <2>1. PICK x \in Times :
            wallet' = [wallet EXCEPT ![order[r].user] = IncrBy(@, Trunc(total[r]), x)]
      BY <1>3 DEF UndoWallet
    <2>2. x \in {0, 1}
      BY <2>1 DEF Times, NoDoubles
    <2>3. PICK a \in Int : Trunc(total[r]) = a /\ Multiple(a)
      <3>1. pc[r] \in Reserving
        BY <1>3 DEF UndoWallet, Reserving
      <3>2. QED
        BY <3>1, CartMoney DEF Prepared
    <2>4. wallet'[u] = wallet[u] \/ wallet'[u] = IncrBy(wallet[u], a, x)
      BY <2>1, <2>3, WalletTypes DEF Prepared
    <2>5. Counter(IncrBy(wallet[u], a, x)) \in {Counter(wallet[u]), Counter(wallet[u]) + a}
      BY <2>2, WalletTypes DEF Prepared
    <2>6. Multiple(Counter(wallet[u]) + a)
      BY <1>0, <2>3, MultipleOps
    <2>7. QED
      BY <1>0, <2>4, <2>5, <2>6
  <1>4. CASE RefundWallet
    <2>1. ReachTimes \subseteq {0, 1}
      BY DEF ReachTimes, Times, NoDoubles
    <2>2. /\ cur \in DOMAIN log
          /\ Counter(wallet[u])' \in {Counter(wallet[u]), Counter(wallet[u]) + Cost(log[cur], u)}
      BY <1>4, <2>1, Repaid
    <2>3. PICK m \in Int : m = log[cur].amount /\ Multiple(m)
      <3>1. log \in Seq(Task)
        BY CallTypes DEF Prepared
      <3>2. log[cur] \in Task
        BY <2>2, <3>1
      <3>3. QED
        BY <2>2, <3>2 DEF Prepared, AsPriced, Task
    <2>4. Cost(log[cur], u) \in {m, -m, 0}
      BY <2>3 DEF Cost, Sign
    <2>5. Multiple(Counter(wallet[u]) + Cost(log[cur], u))
      <3>1. m \in Int /\ -m \in Int /\ 0 \in Int /\ Multiple(m) /\ Multiple(0) /\ Multiple(-m)
        <4>1. \A x, q \in Int : Multiple(x) => Multiple(-x)
          BY MultipleOps
        <4>2. Multiple(-m)
          BY <2>3, <4>1
        <4>3. QED
          BY <2>3, <4>2, MultipleOps
      <3>2. Cost(log[cur], u) \in Int /\ Multiple(Cost(log[cur], u))
        BY <2>4, <3>1
      <3>3. QED
        BY <1>0, <3>2, MultipleOps
    <2>6. QED
      BY <1>0, <2>2, <2>5
  <1>5. ASSUME NEW r \in Requests, Begin(r) \/ Call(r)
        PROVE  \/ wallet' = wallet \/ Reserve(r) \/ ReserveLost(r) \/ ReserveAgain(r)
               \/ UndoWallet(r)
    BY <1>5 DEF Begin, Call, Acquire, Busy, AcquireFails, PriceLine, RejectLine, Priced, Refuse,
       XAdd, PushDone, PushFail, PushAgain, UndoStock, UndoDone, Release, cacheVars
  <1>6. CASE GatewayStep
    <2>1. (\E v \in Users : Expire(v)) => wallet' = wallet
      BY DEF Expire
    <2>2. QED
      BY <1>1, <1>2, <1>3, <1>5, <1>6, <2>1 DEF GatewayStep, GatewayNext
  <1>7. CASE WorkerStep
    BY <1>1, <1>4, <1>7 DEF WorkerStep, WorkerNext, Settle, StartRead, Deliver, ReadNil,
       ReadError, Stop, Commit, Abort, CommitLost, RefundStock, Ack
  <1>8. CASE Process \/ UNCHANGED vars
    BY <1>1, <1>8 DEF Process, Signal, GracefulStop, Exit, Crash, Restart, vars, cacheVars
  <1>9. QED
    BY <1>6, <1>7, <1>8 DEF Next

\* A step of the worker moves the purse as it moves the balance.
LEMMA WorkerBalance ==
  ASSUME Prepared, Prepared', InHand, "commit" \notin Faults, PricesWhole, WalletsWhole,
         ReachTimes = {1}, WorkerStep, NEW u \in Users,
         Purse(u, Open(Repaying)) = Counter(dbBalance[u])
  PROVE  Purse(u, Open(Repaying))' = Counter(dbBalance[u])'
  <1>1. UNCHANGED <<gatewayVars, log>> /\ WorkerNext /\ Inductive
    BY DEF WorkerStep, WorkerNext, Prepared
  <1>2. PICK S \in SUBSET DOMAIN log : S = Open(Repaying)
    BY DEF Open
  <1>3. PICK T : T = Open(Repaying)'
    OBVIOUS
  <1>4. Purse(u, Open(Repaying))' = Purse(u, T)'
    BY <1>3 DEF Purse, TaskMoney
  <1>5. /\ Counter(wallet[u]) \in Int /\ Counter(dbBalance[u]) \in Int
        /\ Counter(wallet[u])' \in Int /\ Counter(dbBalance[u])' \in Int
        /\ Purse(u, S) = Counter(dbBalance[u])
    BY <1>2, PurseTypes DEF PursesTyped
  <1>6. Repaying \in SUBSET Refunding
    BY DEF Repaying, Refunding
  <1>7. ASSUME wallet'[u] = wallet[u], UNCHANGED dbBalance, T = S
        PROVE  Purse(u, T)' = Counter(dbBalance[u])'
    <2>1. Purse(u, T)' = Purse(u, S)
      BY <1>1, <1>7, SamePurse
    <2>2. QED
      BY <1>5, <1>7, <2>1
  <1>8. CASE StartRead \/ Deliver \/ ReadNil \/ ReadError \/ Stop \/ Ack \/ RefundStock
    <2>1. UNCHANGED <<wallet, dbBalance>>
      BY <1>8 DEF StartRead, Deliver, ReadNil, ReadError, Stop, Ack, RefundStock, dbVars
    <2>2. "refundStock" \notin Repaying
      BY DEF Repaying
    <2>3. T = S
      BY <1>1, <1>2, <1>3, <1>6, <1>8, <2>2, OpenWaits
    <2>4. QED
      BY <1>4, <1>7, <2>1, <2>3
  <1>9. CASE Abort
    <2>1. PICK i \in batch : IsOldest(i) /\ Take(i) /\ rejected' = rejected \cup {i}
      BY <1>9 DEF Abort
    <2>2. wpc = "batch" /\ wpc' \in Repaying /\ UNCHANGED <<wallet, dbVars>>
      BY <1>9 DEF Abort, Repaying
    <2>3. Handled' = Handled \cup {i}
      BY <2>1, <2>2 DEF Handled, Committed, dbVars
    <2>4. T = S
      BY <1>1, <1>2, <1>3, <1>6, <2>1, <2>2, <2>3, OpenTaken
    <2>5. QED
      BY <1>4, <1>7, <2>2, <2>4 DEF dbVars
  <1>10. CASE Commit
    <2>1. PICK i \in batch : IsOldest(i) /\ Settleable(log[i]) /\ Book(i) /\ Take(i)
      BY <1>10 DEF Commit
    <2>2. wpc = "batch" /\ wpc' = "ack" /\ rejected' = rejected /\ wallet' = wallet
      BY <1>10 DEF Commit
    <2>3. Handled' = Handled \cup {i}
      BY <1>1, <2>1, <2>2, BookAdds DEF Handled
    <2>4. i \in S /\ i \in DOMAIN log /\ T = S \ {i}
      BY <1>1, <1>2, <1>3, <1>6, <2>1, <2>2, <2>3, OpenTaken
    <2>5. /\ Purse(u, T)' = Purse(u, S) + (Counter(wallet[u])' - Counter(wallet[u]))
                             - Cost(log[i], u)
          /\ Cost(log[i], u) \in Int
      BY <1>1, <1>5, <2>4, TaskPurse
    <2>6. Counter(dbBalance[u])' = Counter(dbBalance[u]) - Cost(log[i], u)
      BY <2>1, <2>4, BookedMoney DEF Book, Settleable
    <2>7. Counter(wallet[u])' = Counter(wallet[u])
      BY <2>2
    <2>8. QED
      BY <1>4, <1>5, <2>5, <2>6, <2>7
  <1>11. CASE RefundWallet
    <2>1. UNCHANGED <<log, history, cur, rejected, dbBalance>>
          /\ wpc \in Repaying /\ wpc' \notin Repaying
      BY <1>1, <1>11 DEF RefundWallet, dbVars, Repaying
    <2>2. cur \in S /\ T = S \ {cur}
      BY <1>1, <1>2, <1>3, <1>6, <2>1, OpenGone
    <2>3. /\ Cost(log[cur], u) \in Int
          /\ Counter(wallet[u])' = Counter(wallet[u]) + Cost(log[cur], u)
      BY <1>11, Repaid DEF WalletsWhole
    <2>4. Purse(u, T)' = Purse(u, S) + (Counter(wallet[u])' - Counter(wallet[u]))
                           - Cost(log[cur], u)
      BY <1>1, <1>5, <2>2, TaskPurse
    <2>5. Counter(dbBalance[u])' = Counter(dbBalance[u])
      BY <2>1
    <2>6. QED
      BY <1>4, <1>5, <2>3, <2>4, <2>5
  <1>12. ~CommitLost
    BY DEF CommitLost
  <1>13. QED
    BY <1>1, <1>8, <1>9, <1>10, <1>11, <1>12 DEF WorkerNext, Settle

\* WalletExact, in terms of the purse.
PurseExact == \A u \in Users : Purse(u, Open(Repaying)) = Counter(dbBalance[u])

\* Every step keeps the purses equal to the balances.
LEMMA PurseExactStep ==
  ASSUME Prepared, InHand, NothingLost, StillUp, PricesWhole, WalletsWhole, PurseExact,
         [Next]_vars
  PROVE  PurseExact' /\ Prepared' /\ StillUp' /\ WalletsWhole'
  <1>1. Prepared'
    BY InductiveStep, AddedUpStep, AsPricedStep DEF Prepared
  <1>2. /\ StillUp' /\ ~Process /\ ReachTimes = {1} /\ NoDoubles
        /\ {"redis", "rerun"} \cap Faults = {}
    BY StillUpStep DEF Prepared
  <1>3. WalletsWhole'
    BY <1>2, WholeStep
  <1>4. ASSUME NEW u \in Users
        PROVE  Purse(u, Open(Repaying))' = Counter(dbBalance[u])'
    <2>1. Purse(u, Open(Repaying)) = Counter(dbBalance[u])
      BY DEF PurseExact
    <2>2. PICK S \in SUBSET DOMAIN log : S = Open(Repaying)
      BY DEF Open
    <2>3. PICK T : T = Open(Repaying)'
      OBVIOUS
    <2>4. Purse(u, Open(Repaying))' = Purse(u, T)'
      BY <2>3 DEF Purse, TaskMoney
    <2>5. CASE \E r \in Requests : (Begin(r) \/ Call(r)) /\ UNCHANGED <<dbVars, workerVars>>
      <3>1. PICK r \in Requests : (Begin(r) \/ Call(r)) /\ UNCHANGED <<dbVars, workerVars>>
        BY <2>5
      <3>2. T = S \cup (IF log' = log THEN {} ELSE {Len(log) + 1})
        <4>1. CASE log' = log
          <5>1. Repaying \in SUBSET Refunding
            BY DEF Repaying, Refunding
          <5>2. T = S
            BY <2>2, <2>3, <3>1, <4>1, <5>1, OpenWaits DEF Prepared
          <5>3. QED
            BY <4>1, <5>2
        <4>2. CASE log' # log
          <5>1. XAdd(r)
            BY <3>1, <4>2, CallFrame DEF Prepared
          <5>2. T = S \cup {Len(log) + 1}
            BY <2>2, <2>3, <3>1, <5>1, OpenAdds DEF Prepared
          <5>3. QED
            BY <4>2, <5>2
        <4>3. QED
          BY <4>1, <4>2
      <3>3. Purse(u, T)' = Purse(u, S)
        <4>1. T \in SUBSET (S \cup (IF log' = log THEN {} ELSE {Len(log) + 1}))
          BY <3>2
        <4>2. QED
          BY <1>1, <1>2, <3>1, <3>2, <4>1, CallPurse DEF WalletsWhole
      <3>4. QED
        BY <2>1, <2>2, <2>4, <3>1, <3>3 DEF dbVars
    <2>6. CASE WorkerStep
      BY <1>1, <1>2, <2>1, <2>6, WorkerBalance DEF NoDoubles
    <2>7. CASE UNCHANGED <<gatewayVars, log, wallet, dbVars, workerVars>>
      <3>1. T = S
        BY <2>2, <2>3, <2>7 DEF Open, Handled, Committed, workerVars, dbVars
      <3>2. Purse(u, T)' = Purse(u, S)
        BY <2>7, <3>1, SamePurse
      <3>3. QED
        BY <2>1, <2>2, <2>4, <2>7, <3>2 DEF dbVars
    <2>8. (\E v \in Users : Expire(v)) => UNCHANGED <<gatewayVars, log, wallet>>
      BY DEF Expire
    <2>9. UNCHANGED vars => UNCHANGED <<gatewayVars, log, wallet, dbVars, workerVars>>
      BY DEF vars, cacheVars, streamVars
    <2>10. QED
      BY <1>2, <2>5, <2>6, <2>7, <2>8, <2>9 DEF Next, GatewayStep, GatewayNext
  <1>5. QED
    BY <1>1, <1>2, <1>3, <1>4 DEF PurseExact

\* While the process is up and no command is lost, and with whole prices and balances,
\* the wallet counter is off the balance by exactly what is held and what is queued.
THEOREM WalletIsExact ==
  ASSUME NothingLost, PricesWhole, OpensExact
  PROVE  Spec => []WalletExact
  <1>1. Init => Prepared /\ InHand /\ StillUp /\ WalletsWhole /\ PurseExact
    <2> SUFFICES ASSUME Init
                 PROVE  Prepared /\ InHand /\ StillUp /\ WalletsWhole /\ PurseExact
      OBVIOUS
    <2>1. StillUp /\ WalletsWhole
      BY DEF Init, StoreInit, StillUp, WalletsWhole, OpensExact
    <2>2. QED
      BY <2>1, PurseInit DEF PurseExact, OpensExact
  <1>2. Prepared /\ InHand /\ StillUp /\ WalletsWhole /\ PurseExact /\ [Next]_vars
          => Prepared' /\ InHand' /\ StillUp' /\ WalletsWhole' /\ PurseExact'
    BY PurseExactStep, InHandStep DEF Prepared
  <1>3. PurseExact => WalletExact
    BY DEF PurseExact, WalletExact, Purse, Repaying
  <1>4. QED
    BY <1>1, <1>2, <1>3, PTL DEF Spec

-----------------------------------------------------------------------------
\* No wallet counter is negative.
WalletsUp == \A u \in Users : Counter(wallet[u]) >= 0

\* The script takes what is there, and with carts of pickups a compensation only adds;
\* neither makes a wallet disappear.
LEMMA WalletsStayUp ==
  ASSUME Prepared, NoDoubles, PricesWhole, PickupsOnly, WalletsUp, [Next]_vars
  PROVE  WalletsUp' /\ \A u \in Users : wallet[u] # Absent => wallet'[u] # Absent
  <1>t. /\ Inductive /\ AddedUp /\ wallet \in [Users -> Int \cup {Absent}] /\ Absent \notin Int
        /\ \A u \in Users : Counter(wallet[u]) \in Int /\ Counter(wallet[u]) >= 0
        /\ \A r \in Requests : pc[r] # "idle" => order[r].user \in Users
    <2>1. wallet \in [Users -> Int \cup {Absent}] /\ Inductive /\ AddedUp
      BY CartTypes DEF Prepared
    <2>2. \A u \in Users : Counter(wallet[u]) \in Int
      BY <2>1, WalletTypes
    <2>3. \A r \in Requests : pc[r] # "idle" => order[r].user \in Users
      BY <2>1, CallTypes
    <2>4. QED
      BY <2>1, <2>2, <2>3, MarkerAssumption DEF WalletsUp
  <1>1. ASSUME NEW v \in Users, NEW b \in Int \cup {Absent}, wallet' = [wallet EXCEPT ![v] = b],
               Counter(b) >= 0, wallet[v] # Absent => b # Absent
        PROVE  WalletsUp' /\ \A u \in Users : wallet[u] # Absent => wallet'[u] # Absent
    <2>1. wallet'[v] = b /\ \A u \in Users \ {v} : wallet'[u] = wallet[u]
      BY <1>t, <1>1
    <2>2. \A u \in Users : Counter(wallet'[u]) >= 0
      BY <1>t, <1>1, <2>1
    <2>3. QED
      BY <1>1, <2>1, <2>2 DEF WalletsUp, Counter
  <1>2. ASSUME NEW r \in Requests, Reserve(r) \/ ReserveLost(r) \/ ReserveAgain(r)
        PROVE  WalletsUp' /\ \A u \in Users : wallet[u] # Absent => wallet'[u] # Absent
    <2>1. AtGate(r) /\ Affordable(r)
          /\ wallet' = [wallet EXCEPT ![order[r].user] = Counter(@) - Trunc(total[r])]
      BY <1>2 DEF Reserve, ReserveLost, ReserveAgain, AtGate, Passes, Deduct
    <2>2. pc[r] # "idle" /\ pc[r] \in Reserving
      BY <2>1 DEF AtGate, Reserving
    <2>3. PICK v \in Users : v = order[r].user
      BY <1>t, <2>2
    <2>4. PICK b \in Int : b = Counter(wallet[v]) - Trunc(total[r])
      BY <1>t, <2>2, CartMoney
    <2>5. b >= 0
      <3>1. Trunc(total[r]) \in Int
        BY <1>t, <2>2, CartMoney
      <3>2. QED
        BY <1>t, <2>1, <2>3, <2>4, <3>1 DEF Affordable
    <2>6. wallet' = [wallet EXCEPT ![v] = b] /\ Counter(b) = b /\ b # Absent
      BY <1>t, <2>1, <2>3, <2>4 DEF Counter
    <2>7. QED
      BY <1>1, <2>5, <2>6
  <1>3. ASSUME NEW v \in Users, NEW n \in Int, n >= 0, NEW k \in {0, 1},
               wallet' = [wallet EXCEPT ![v] = IncrBy(@, n, k)]
        PROVE  WalletsUp' /\ \A u \in Users : wallet[u] # Absent => wallet'[u] # Absent
    <2>1. PICK b \in Int \cup {Absent} : b = IncrBy(wallet[v], n, k)
      BY <1>t, <1>3, WalletTypes
    <2>2. Counter(b) >= 0
      <3>1. Counter(b) \in {Counter(wallet[v]), Counter(wallet[v]) + n}
        BY <1>t, <1>3, <2>1, WalletTypes
      <3>2. QED
        BY <1>t, <1>3, <3>1
    <2>3. wallet[v] # Absent => b # Absent
      <3>1. b = wallet[v] \/ b = Counter(wallet[v]) + k * n
        BY <2>1 DEF IncrBy
      <3>2. k * n \in Int
        BY <1>3
      <3>3. QED
        BY <1>t, <3>1, <3>2
    <2>4. wallet' = [wallet EXCEPT ![v] = b]
      BY <1>t, <1>3, <2>1
    <2>5. QED
      BY <1>1, <2>2, <2>3, <2>4
  <1>4. Times \subseteq {0, 1} /\ ReachTimes \subseteq {0, 1}
    BY DEF NoDoubles, Times, ReachTimes
  <1>5. ASSUME NEW r \in Requests, UndoWallet(r)
        PROVE  WalletsUp' /\ \A u \in Users : wallet[u] # Absent => wallet'[u] # Absent
    <2>1. PICK k \in {0, 1} :
            wallet' = [wallet EXCEPT ![order[r].user] = IncrBy(@, Trunc(total[r]), k)]
      BY <1>4, <1>5 DEF UndoWallet
    <2>2. pc[r] # "idle" /\ pc[r] \in Reserving
      BY <1>5 DEF UndoWallet, Reserving
    <2>3. Trunc(total[r]) \in Int /\ Trunc(total[r]) >= 0
      BY <1>t, <2>2, CartMoney
    <2>4. QED
      BY <1>t, <1>3, <2>1, <2>2, <2>3
  <1>6. CASE RefundWallet
    <2>1. cur \in DOMAIN log /\ log[cur] \in Task
      <3>1. cur \in DOMAIN log
        BY <1>6, CallTypes DEF RefundWallet, Prepared, Inductive, TypeOK, WorkerTypeOK
      <3>2. QED
        BY <1>t, <3>1, CallTypes
    <2>2. PICK v \in Users : v = log[cur].user
      BY <2>1 DEF Task
    <2>3. log[cur].amount \in Int /\ Multiple(log[cur].amount)
      BY <2>1 DEF Prepared, AsPriced, Task
    <2>4. Trunc(log[cur].amount) = log[cur].amount
      BY <2>3, TruncMultiple
    <2>5. Cost(log[cur], v) \in Int /\ Cost(log[cur], v) >= 0
      BY <2>1, CostTypes DEF Prepared
    <2>6. PICK n \in Int : n = -Sign(log[cur]) * Trunc(log[cur].amount)
      BY <2>1, <2>3, <2>4 DEF Sign
    <2>7. n >= 0
      BY <2>2, <2>4, <2>5, <2>6 DEF Cost
    <2>8. PICK k \in {0, 1} : wallet' = [wallet EXCEPT ![v] = IncrBy(@, n, k)]
      BY <1>4, <1>6, <2>2, <2>6 DEF RefundWallet
    <2>9. QED
      BY <1>3, <2>7, <2>8
  <1>7. CASE wallet' = wallet
    BY <1>7 DEF WalletsUp, Counter
  <1>8. ASSUME NEW r \in Requests, Begin(r) \/ Call(r)
        PROVE  \/ Reserve(r) \/ ReserveLost(r) \/ ReserveAgain(r) \/ UndoWallet(r)
               \/ wallet' = wallet
    BY <1>8 DEF Begin, Call, Acquire, Busy, AcquireFails, PriceLine, RejectLine, Priced,
       Refuse, XAdd, PushDone, PushFail, PushAgain, UndoStock, UndoDone, Release, cacheVars
  <1>9. CASE GatewayStep
    <2>1. (\E v \in Users : Expire(v)) => wallet' = wallet
      BY DEF Expire
    <2>2. QED
      BY <1>2, <1>5, <1>7, <1>8, <1>9, <2>1 DEF GatewayStep, GatewayNext
  <1>10. CASE WorkerStep
    BY <1>6, <1>7, <1>10 DEF WorkerStep, WorkerNext, Settle, StartRead, Deliver, ReadNil,
       ReadError, Stop, Commit, Abort, CommitLost, RefundStock, Ack
  <1>11. CASE Process \/ UNCHANGED vars
    BY <1>7, <1>11 DEF Process, Signal, GracefulStop, Exit, Crash, Restart, vars, cacheVars
  <1>12. QED
    BY <1>9, <1>10, <1>11 DEF Next

=============================================================================
