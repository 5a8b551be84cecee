------------------------- MODULE CredentialProxy_proofs -------------------------
(***************************************************************************)
(* What the credential proxy lets through, for all Claws, hosts and paths: *)
(* the routes of a config are the appended ones, each exactly once, in the *)
(* order generateProxyConfig sorts them; and the proxy decides on a        *)
(* request by one of the routes that match it; and the egress policies     *)
(* agree with those routes.                                                *)
(***************************************************************************)
EXTENDS CredentialProxy, FiniteSetTheorems, SequenceTheorems, WellFoundedInduction, TLAPS

-----------------------------------------------------------------------------
(* Numbers *)

\* A nonempty set of natural numbers has a least element.
LEMMA LeastElement ==
  ASSUME NEW T, T \subseteq Nat, T # {}
  PROVE  \E m \in T : \A k \in T : m <= k
  <1> DEFINE Less == {ss \in Nat \X Nat : ss[1] < ss[2]}
  <1>1. OpToRel(<, Nat) = Less
    BY Zenon DEF OpToRel
  <1>2. IsWellFoundedOn(Less, Nat)
    BY <1>1, NatLessThanWellFounded, Zenon
  <1> HIDE DEF Less
  <1>3. PICK x \in T : \A y \in T : ~ (<<y, x>> \in Less)
    BY <1>2, WFMin, Zenon
  <1>4. \A y \in T : y < x => <<y, x>> \in Less
    BY DEF Less
  <1>5. \A y \in T : ~ (y < x)
    BY <1>3, <1>4
  <1> QED
    BY <1>5

\* Min of a nonempty set of natural numbers is its least element.
LEMMA MinElement ==
  ASSUME NEW T, T \subseteq Nat, T # {}
  PROVE  Min(T) \in T /\ \A k \in T : Min(T) <= k
  BY LeastElement DEF Min

\* A nonempty finite set of natural numbers has a greatest element: one with the
\* fewest above it.
LEMMA GreatestElement ==
  ASSUME NEW T, T \subseteq Nat, T # {}, IsFiniteSet(T)
  PROVE  \E m \in T : \A k \in T : k <= m
  <1> DEFINE Above(x) == {y \in T : y > x}
             Counts == {Cardinality(Above(x)) : x \in T}
  <1>1. \A x \in T : IsFiniteSet(Above(x)) /\ Cardinality(Above(x)) \in Nat
    BY FS_Subset, FS_CardinalityType
  <1>2. Counts \subseteq Nat /\ Counts # {}
    BY <1>1
  <1>3. PICK n \in Counts : \A k \in Counts : n <= k
    BY <1>2, LeastElement
  <1>4. PICK m \in T : n = Cardinality(Above(m))
    BY <1>3
  <1>5. ASSUME NEW y \in T, y > m PROVE FALSE
    <2>0. ~ (y > y) /\ \A x \in T : x > y => x > m
      BY <1>5
    <2>1. Above(y) \in SUBSET Above(m) /\ y \in Above(m) /\ y \notin Above(y)
      BY <1>5, <2>0, Zenon
    <2>2. Cardinality(Above(y)) <= Cardinality(Above(m)) /\ Cardinality(Above(y)) # Cardinality(Above(m))
      BY <1>1, <2>1, FS_Subset
    <2>3. Cardinality(Above(m)) <= Cardinality(Above(y))
      BY <1>3, <1>4
    <2> QED
      BY <1>1, <2>2, <2>3
  <1> QED
    BY <1>5

-----------------------------------------------------------------------------
(* The order of the routes *)

\* The order of names is transitive, ...
LEMMA NameLessTrans ==
  ASSUME NEW a \in Seq(Nat), NEW b \in Seq(Nat), NEW c \in Seq(Nat), NameLess(a, b), NameLess(b, c)
  PROVE  NameLess(a, c)
  <1>1. PICK i \in DOMAIN b : /\ \A j \in 1..(i - 1) : j \in DOMAIN a /\ a[j] = b[j]
                              /\ i \in DOMAIN a => a[i] < b[i]
    BY DEF NameLess
  <1>2. PICK k \in DOMAIN c : /\ \A j \in 1..(k - 1) : j \in DOMAIN b /\ b[j] = c[j]
                              /\ k \in DOMAIN b => b[k] < c[k]
    BY DEF NameLess
  <1>3. CASE i < k
    <2>1. i \in DOMAIN c /\ b[i] = c[i]
      <3>1. i \in 1..(k - 1) /\ i \in 1..Len(c)
        BY <1>2, <1>3
      <3> QED
        BY <1>2, <3>1
    <2>2. \A j \in 1..(i - 1) : j \in DOMAIN a /\ a[j] = c[j]
      BY <1>1, <1>2, <1>3
    <2> QED
      BY <1>1, <2>1, <2>2 DEF NameLess
  <1>4. CASE i = k
    <2>1. \A j \in 1..(i - 1) : j \in DOMAIN a /\ a[j] = c[j]
      BY <1>1, <1>2, <1>4
    <2>2. i \in DOMAIN a => a[i] < c[i]
      BY <1>1, <1>2, <1>4
    <2> QED
      BY <1>4, <2>1, <2>2 DEF NameLess
  <1>5. CASE i > k
    <2>1. k \in DOMAIN a /\ a[k] = b[k] /\ k \in DOMAIN b
      BY <1>1, <1>2, <1>5
    <2>2. \A j \in 1..(k - 1) : j \in DOMAIN a /\ a[j] = c[j]
      BY <1>1, <1>2, <1>5
    <2> QED
      BY <1>2, <2>1, <2>2 DEF NameLess
  <1> QED
    BY <1>3, <1>4, <1>5

\* ... and puts no name before itself.
LEMMA NameLessIrreflexive ==
  ASSUME NEW a \in Seq(Nat)
  PROVE  ~ NameLess(a, a)
  BY DEF NameLess

\* Of two different names, the first place where they differ decides.
LEMMA NameLessTotal ==
  ASSUME NEW a \in Seq(Nat), NEW b \in Seq(Nat), a # b
  PROVE  NameLess(a, b) \/ NameLess(b, a)
  <1> DEFINE D == {i \in 1..(Len(a) + Len(b)) :
                      i \notin DOMAIN a \/ i \notin DOMAIN b \/ a[i] # b[i]}
  <1>1. D # {}
    <2> SUFFICES ASSUME D = {} PROVE FALSE
      OBVIOUS
    <2>1. \A i \in 1..(Len(a) + Len(b)) : i \in DOMAIN a /\ i \in DOMAIN b /\ a[i] = b[i]
      OBVIOUS
    <2> HIDE DEF D
    <2>2. Len(a) = Len(b)
      <3>1. CASE Len(a) < Len(b)
        BY <2>1, <3>1, Len(b) \in 1..(Len(a) + Len(b))
      <3>2. CASE Len(a) > Len(b)
        BY <2>1, <3>2, Len(a) \in 1..(Len(a) + Len(b))
      <3> QED
        BY <3>1, <3>2
    <2>3. \A i \in 1..Len(a) : a[i] = b[i]
      BY <2>1, <2>2
    <2> QED
      BY <2>2, <2>3, SeqEqual
  <1>2. D \subseteq Nat
    OBVIOUS
  <1>3. PICK m \in D : \A k \in D : m <= k
    BY <1>1, <1>2, LeastElement
  <1>4. \A j \in 1..(m - 1) : j \in DOMAIN a /\ j \in DOMAIN b /\ a[j] = b[j]
    BY <1>3
  <1>5. m \in DOMAIN a \/ m \in DOMAIN b
    <2>1. CASE m = 1
      <3>1. a # <<>> \/ b # <<>>
        OBVIOUS
      <3> QED
        BY <2>1, <3>1
    <2>2. CASE m > 1
      <3>1. m - 1 \in DOMAIN a /\ m - 1 \in DOMAIN b
        BY <1>4, <2>2
      <3> QED
        BY <1>3, <3>1
    <2> QED
      BY <1>3, <2>1, <2>2
  <1>6. CASE m \notin DOMAIN a
    BY <1>4, <1>5, <1>6 DEF NameLess
  <1>7. CASE m \notin DOMAIN b
    BY <1>4, <1>5, <1>7 DEF NameLess
  <1>8. CASE m \in DOMAIN a /\ m \in DOMAIN b
    <2>1. a[m] < b[m] \/ b[m] < a[m]
      BY <1>3, <1>8
    <2> QED
      BY <1>4, <1>8, <2>1 DEF NameLess
  <1> QED
    BY <1>6, <1>7, <1>8

\* DomainLess is a strict total order of names with ports.
LEMMA DomainLessOrder ==
  ASSUME NEW a \in Names, NEW b \in Names, NEW c \in Names
  PROVE  /\ ~ DomainLess(a, a)
         /\ DomainLess(a, b) /\ DomainLess(b, c) => DomainLess(a, c)
         /\ a # b => DomainLess(a, b) \/ DomainLess(b, a)
  <1> USE DEF Names
  <1>1. ~ NameLess(a.name, a.name)
    BY NameLessIrreflexive
  <1>2. NameLess(a.name, b.name) /\ NameLess(b.name, c.name) => NameLess(a.name, c.name)
    BY NameLessTrans
  <1>3. a.name # b.name => NameLess(a.name, b.name) \/ NameLess(b.name, a.name)
    BY NameLessTotal
  <1>4. a.name = b.name /\ a.port = b.port => a = b
    OBVIOUS
  <1>5. a.port \in Nat /\ b.port \in Nat /\ c.port \in Nat
    OBVIOUS
  <1> QED
    BY <1>1, <1>2, <1>3, <1>4, <1>5 DEF DomainLess

\* Every injector has a rank.
LEMMA InjectorRankType ==
  ASSUME NEW inj \in Types
  PROVE  InjectorRank(inj) \in Nat
  <1>1. DOMAIN Injectors = 1..9
    BY DEF Injectors
  <1>2. \E i \in DOMAIN Injectors : Injectors[i] = inj
    BY DEF Types, ToSet
  <1> QED
    BY <1>1, <1>2 DEF InjectorRank

\* Routes that routeLess does not tell apart.
SameKey(a, b) ==
    /\ a.domain = b.domain
    /\ (a.paths # <<>>) = (b.paths # <<>>)
    /\ InjectorRank(a.injector) = InjectorRank(b.injector)

Sortable(r) == r.domain \in Names /\ r.injector \in Types

\* routeLess orders routes strictly, and those it does not tell apart are alike to it.
LEMMA RouteLessOrder ==
  ASSUME NEW a, NEW b, NEW c, Sortable(a), Sortable(b), Sortable(c)
  PROVE  /\ routeLess(a, b) => ~ routeLess(b, a)
         /\ routeLess(a, b) /\ routeLess(b, c) => routeLess(a, c)
         /\ routeLess(a, b) \/ routeLess(b, a) \/ SameKey(a, b)
         /\ SameKey(a, b) => ~ routeLess(a, b)
         /\ routeLess(a, b) /\ SameKey(b, c) => routeLess(a, c)
         /\ SameKey(a, b) /\ routeLess(b, c) => routeLess(a, c)
         /\ SameKey(a, b) /\ SameKey(b, c) => SameKey(a, c)
  <1>1. /\ InjectorRank(a.injector) \in Nat /\ InjectorRank(b.injector) \in Nat
        /\ InjectorRank(c.injector) \in Nat
    BY InjectorRankType DEF Sortable
  <1>2. a.domain \in Names /\ b.domain \in Names /\ c.domain \in Names
    BY DEF Sortable
  <1>3. ~ DomainLess(a.domain, a.domain) /\ ~ DomainLess(b.domain, b.domain)
    BY <1>2, DomainLessOrder
  <1>4. /\ DomainLess(a.domain, b.domain) => ~ DomainLess(b.domain, a.domain)
        /\ DomainLess(a.domain, b.domain) /\ DomainLess(b.domain, c.domain) => DomainLess(a.domain, c.domain)
        /\ a.domain # b.domain => DomainLess(a.domain, b.domain) \/ DomainLess(b.domain, a.domain)
    BY <1>2, <1>3, DomainLessOrder
  <1> QED
    BY <1>1, <1>3, <1>4 DEF routeLess, SameKey

\* Routes and their places, of which the order leaves no two undecided.
Orderable(placed) ==
    /\ IsFiniteSet(placed)
    /\ \A c \in placed : Sortable(c.route) /\ c.at \in Nat \X Nat
    /\ \A c, d \in placed : c.at = d.at /\ c.route.domain = d.route.domain => c = d

\* The place where it was appended decides between routes that routeLess leaves equal.
LEMMA BeforeOrder ==
  ASSUME NEW placed, Orderable(placed), NEW a \in placed, NEW b \in placed, NEW c \in placed
  PROVE  /\ ~ Before(a, a)
         /\ Before(a, b) /\ Before(b, c) => Before(a, c)
         /\ a # b => Before(a, b) \/ Before(b, a)
  <1> DEFINE Appended(x, y) == \/ x.at[1] < y.at[1]
                               \/ x.at[1] = y.at[1] /\ x.at[2] < y.at[2]
             Suffix(x) == IsSuffixDomain(x.route.domain)
  <1>1. /\ Sortable(a.route) /\ Sortable(b.route) /\ Sortable(c.route)
        /\ a.at \in Nat \X Nat /\ b.at \in Nat \X Nat /\ c.at \in Nat \X Nat
    BY DEF Orderable
  <1>2. /\ ~ Appended(a, a)
        /\ Appended(a, b) /\ Appended(b, c) => Appended(a, c)
        /\ a.at # b.at => Appended(a, b) \/ Appended(b, a)
    BY <1>1
  <1>3. /\ SameKey(a.route, b.route) => Suffix(a) = Suffix(b)
        /\ SameKey(a.route, b.route) => a.route.domain = b.route.domain
        /\ SameKey(a.route, a.route)
    BY DEF SameKey
  <1>4. a # b => a.at # b.at \/ a.route.domain # b.route.domain
    BY DEF Orderable
  <1>5. \A x \in {a, b, c}, y \in {a, b, c} :
           Before(x, y) <=> \/ ~ Suffix(x) /\ Suffix(y)
                            \/ /\ Suffix(x) = Suffix(y)
                               /\ \/ routeLess(x.route, y.route)
                                  \/ ~ routeLess(y.route, x.route) /\ Appended(x, y)
    BY DEF Before
  <1>6. \A x \in {a, b, c}, y \in {a, b, c} :
           /\ routeLess(x.route, y.route) \/ routeLess(y.route, x.route) \/ SameKey(x.route, y.route)
           /\ SameKey(x.route, y.route) => ~ routeLess(x.route, y.route) /\ ~ routeLess(y.route, x.route)
           /\ routeLess(x.route, y.route) => ~ routeLess(y.route, x.route)
    <2> TAKE x \in {a, b, c}, y \in {a, b, c}
    <2>1. Sortable(x.route) /\ Sortable(y.route)
      BY <1>1
    <2>2. SameKey(x.route, y.route) => SameKey(y.route, x.route)
      BY DEF SameKey
    <2> QED
      BY <2>1, <2>2, RouteLessOrder
  <1>7. /\ routeLess(a.route, b.route) /\ routeLess(b.route, c.route) => routeLess(a.route, c.route)
        /\ routeLess(a.route, b.route) /\ SameKey(b.route, c.route) => routeLess(a.route, c.route)
        /\ SameKey(a.route, b.route) /\ routeLess(b.route, c.route) => routeLess(a.route, c.route)
        /\ SameKey(a.route, b.route) /\ SameKey(b.route, c.route) => SameKey(a.route, c.route)
    BY <1>1, RouteLessOrder
  <1> HIDE DEF Appended, Suffix
  <1>8. ~ Before(a, a)
    BY <1>2, <1>3, <1>5, <1>6
  <1>9. ASSUME Before(a, b), Before(b, c) PROVE Before(a, c)
    <2>1. CASE Suffix(a) # Suffix(b) \/ Suffix(b) # Suffix(c)
      <3>1. ~ Suffix(a) /\ Suffix(c)
        BY <1>5, <1>9, <2>1 DEF Suffix, IsSuffixDomain
      <3> QED
        BY <1>5, <3>1
    <2>2. CASE Suffix(a) = Suffix(b) /\ Suffix(b) = Suffix(c)
      <3>1. routeLess(a.route, b.route) \/ (SameKey(a.route, b.route) /\ Appended(a, b))
        BY <1>5, <1>6, <1>9, <2>2
      <3>2. routeLess(b.route, c.route) \/ (SameKey(b.route, c.route) /\ Appended(b, c))
        BY <1>5, <1>6, <1>9, <2>2
      <3>3. routeLess(a.route, c.route) \/ (SameKey(a.route, c.route) /\ Appended(a, c))
        BY <1>2, <1>7, <3>1, <3>2
      <3> QED
        BY <1>5, <1>6, <2>2, <3>3
    <2> QED
      BY <2>1, <2>2
  <1>10. ASSUME a # b PROVE Before(a, b) \/ Before(b, a)
    <2>1. CASE Suffix(a) # Suffix(b)
      BY <1>5, <2>1 DEF Suffix, IsSuffixDomain
    <2>2. CASE Suffix(a) = Suffix(b) /\ ~ SameKey(a.route, b.route)
      BY <1>5, <1>6, <2>2
    <2>3. CASE SameKey(a.route, b.route)
      <3>1. Appended(a, b) \/ Appended(b, a)
        BY <1>2, <1>3, <1>4, <1>10, <2>3
      <3> QED
        BY <1>3, <1>5, <1>6, <2>3, <3>1
    <2> QED
      BY <2>1, <2>2, <2>3
  <1> QED
    BY <1>8, <1>9, <1>10

\* Each of the appended routes is in the config, and nothing else: the number of
\* routes before one tells all of them apart and takes every value.
LEMMA SortedRoutes ==
  ASSUME NEW placed, Orderable(placed)
  PROVE  LET sorted == SortRoutes(placed)
         IN  /\ Cardinality(placed) \in Nat /\ DOMAIN sorted = 1..Cardinality(placed)
             /\ \A k \in DOMAIN sorted : \E c \in placed : sorted[k] = c.route
             /\ \A c \in placed : \E k \in DOMAIN sorted : sorted[k] = c.route
  <1> DEFINE n == Cardinality(placed)
             Earlier(c) == {d \in placed : Before(d, c)}
             rank == [c \in placed |-> Cardinality(Earlier(c))]
             at == [k \in 1..n |-> CHOOSE c \in placed : rank[c] = k - 1]
             sorted == SortRoutes(placed)
  <1>1. IsFiniteSet(placed) /\ n \in Nat
    BY FS_CardinalityType DEF Orderable
  <1>2. DOMAIN sorted = 1..n /\ \A k \in 1..n : sorted[k] = at[k].route
    BY DEF SortRoutes
  <1>3. \A c \in placed : Earlier(c) \in SUBSET placed /\ IsFiniteSet(Earlier(c)) /\ rank[c] \in Nat
    BY <1>1, FS_Subset, FS_CardinalityType
  <1>4. \A c \in placed : rank[c] \in 0..(n - 1)
    <2> TAKE c \in placed
    <2>1. c \notin Earlier(c)
      BY BeforeOrder
    <2>2. rank[c] <= n /\ rank[c] # n
      BY <1>1, <1>3, <2>1, FS_Subset
    <2> QED
      BY <1>1, <1>3, <2>2
  <1>5. ASSUME NEW c \in placed, NEW d \in placed, Before(c, d) PROVE rank[c] < rank[d]
    <2>1. Earlier(c) \in SUBSET Earlier(d)
      BY <1>5, BeforeOrder
    <2>2. c \in Earlier(d) /\ c \notin Earlier(c)
      BY <1>5, BeforeOrder
    <2>3. rank[c] <= rank[d] /\ rank[c] # rank[d]
      BY <1>3, <2>1, <2>2, FS_Subset
    <2> QED
      BY <1>3, <2>3
  <1>6. \A c, d \in placed : c # d => rank[c] # rank[d]
    <2> SUFFICES ASSUME NEW c \in placed, NEW d \in placed, c # d PROVE rank[c] # rank[d]
      OBVIOUS
    <2>1. Before(c, d) \/ Before(d, c)
      BY BeforeOrder
    <2>2. rank[c] < rank[d] \/ rank[d] < rank[c]
      BY <1>5, <2>1
    <2> QED
      BY <1>3, <2>2
  <1>7. rank \in Injection(placed, 0..(n - 1))
    BY <1>4, <1>6 DEF Injection, IsInjective
  <1>8. IsFiniteSet(0..(n - 1)) /\ Cardinality(0..(n - 1)) = n
    BY <1>1, FS_Interval
  <1>9. rank \in Surjection(placed, 0..(n - 1))
    BY <1>7, <1>8, FS_Injection
  <1>10. \A k \in 0..(n - 1) : \E c \in placed : rank[c] = k
    BY <1>9 DEF Surjection
  <1> HIDE DEF rank, n
  <1>11. \A k \in 1..n : at[k] \in placed /\ rank[at[k]] = k - 1
    <2> TAKE k \in 1..n
    <2>1. k - 1 \in 0..(n - 1)
      BY <1>1
    <2> QED
      BY <1>10, <2>1
  <1>12. \A c \in placed : rank[c] + 1 \in 1..n /\ at[rank[c] + 1] = c
    <2> TAKE c \in placed
    <2>1. rank[c] + 1 \in 1..n /\ (rank[c] + 1) - 1 = rank[c]
      BY <1>1, <1>4
    <2> QED
      BY <1>6, <1>11, <2>1
  <1> HIDE DEF at, sorted
  <1>13. Cardinality(placed) \in Nat /\ DOMAIN sorted = 1..Cardinality(placed)
    BY <1>1, <1>2 DEF n
  <1>14. \A k \in DOMAIN sorted : \E c \in placed : sorted[k] = c.route
    BY <1>2, <1>11
  <1>15. \A c \in placed : \E k \in DOMAIN sorted : sorted[k] = c.route
    BY <1>2, <1>12
  <1> QED
    BY <1>13, <1>14, <1>15 DEF sorted

-----------------------------------------------------------------------------
(* Domains *)

\* The elements of a reversed sequence.
LEMMA ReverseFacts ==
  ASSUME NEW s \in Seq(Nat)
  PROVE  /\ Reverse(s) \in Seq(Nat) /\ Len(Reverse(s)) = Len(s)
         /\ \A i \in 1..Len(s) : Reverse(s)[i] = s[Len(s) - i + 1]
  <1>1. \A i \in 1..Len(s) : s[(Len(s) - i) + 1] \in Nat
    <2> TAKE i \in 1..Len(s)
    <2>1. (Len(s) - i) + 1 \in 1..Len(s)
      OBVIOUS
    <2> QED
      BY <2>1
  <1>2. Reverse(s) \in [1..Len(s) -> Nat]
    BY <1>1 DEF Reverse
  <1> QED
    BY <1>2 DEF Reverse

\* Counting from the end of a sequence and from the end of its suffix.
LEMMA Indices ==
  ASSUME NEW k \in Int, NEW n \in Int, NEW m \in Int, n = m - k + 1, NEW i \in 1..n
  PROVE  n - i + 1 \in 1..(m - k + 1) /\ k + (n - i + 1) - 1 = m - i + 1
  OBVIOUS

\* A nonempty suffix is what stands from some place on.
LEMMA SuffixPlace ==
  ASSUME NEW s \in Seq(Nat), NEW t \in Seq(Nat), s # <<>>
  PROVE  IsSuffix(s, t) <=> \E k \in DOMAIN t : SubSeq(t, k, Len(t)) = s
  <1> DEFINE n == Len(s)
             m == Len(t)
             a == SubSeq(Reverse(s), 1, n)
             b == SubSeq(Reverse(t), 1, n)
  <1>1. n \in Nat \ {0} /\ m \in Nat
    OBVIOUS
  <1>2. IsSuffix(s, t) <=> n <= m /\ a = b
    BY ReverseFacts DEF IsSuffix, IsPrefix
  <1>3. a \in Seq(Nat) /\ Len(a) = n /\ \A i \in 1..n : a[i] = s[n - i + 1]
    <2>1. \A i \in 1..n : Reverse(s)[i] \in Nat
      BY ReverseFacts
    <2>2. a \in Seq(Nat) /\ Len(a) = n /\ \A i \in 1..n : a[i] = Reverse(s)[i]
      BY <1>1, <2>1, SubSeqProperties
    <2> HIDE DEF a
    <2> QED
      BY <2>2, ReverseFacts
  <1>4. n <= m => b \in Seq(Nat) /\ Len(b) = n /\ \A i \in 1..n : b[i] = t[m - i + 1]
    <2> SUFFICES ASSUME n <= m PROVE b \in Seq(Nat) /\ Len(b) = n /\ \A i \in 1..n : b[i] = t[m - i + 1]
      OBVIOUS
    <2>1. \A i \in 1..n : i \in 1..m /\ Reverse(t)[i] \in Nat
      BY ReverseFacts
    <2>2. b \in Seq(Nat) /\ Len(b) = n /\ \A i \in 1..n : b[i] = Reverse(t)[i]
      BY <1>1, <2>1, SubSeqProperties
    <2> HIDE DEF b
    <2> QED
      BY <2>1, <2>2, ReverseFacts
  <1> HIDE DEF a, b
  <1>5. ASSUME NEW k \in DOMAIN t
        PROVE  /\ SubSeq(t, k, m) \in Seq(Nat) /\ Len(SubSeq(t, k, m)) = m - k + 1
               /\ \A i \in 1..(m - k + 1) : SubSeq(t, k, m)[i] = t[k + i - 1]
    <2>1. \A i \in k..m : t[i] \in Nat
      OBVIOUS
    <2> QED
      BY <2>1, SubSeqProperties
  <1>6. ASSUME IsSuffix(s, t) PROVE \E k \in DOMAIN t : SubSeq(t, k, m) = s
    <2> DEFINE k == m - n + 1
    <2>1. n <= m /\ a = b /\ k \in DOMAIN t /\ m - k + 1 = n
      BY <1>1, <1>2, <1>6
    <2>2. ASSUME NEW i \in 1..n PROVE SubSeq(t, k, m)[i] = s[i]
      <3>1. n - i + 1 \in 1..n /\ n - (n - i + 1) + 1 = i /\ m - (n - i + 1) + 1 = k + i - 1
        BY <1>1, <2>1
      <3>2. a[n - i + 1] = s[i] /\ b[n - i + 1] = t[k + i - 1]
        BY <1>3, <1>4, <2>1, <3>1
      <3>3. SubSeq(t, k, m)[i] = t[k + i - 1]
        BY <1>5, <2>1
      <3> QED
        BY <2>1, <3>2, <3>3
    <2>3. SubSeq(t, k, m) \in Seq(Nat) /\ Len(SubSeq(t, k, m)) = n
      BY <1>5, <2>1
    <2>4. SubSeq(t, k, m) = s
      <3> HIDE DEF k
      <3> QED
        BY <2>2, <2>3, SeqEqual
    <2> QED
      BY <2>1, <2>4
  <1>7. ASSUME NEW k \in DOMAIN t, SubSeq(t, k, m) = s PROVE IsSuffix(s, t)
    <2>0. k \in Int /\ n \in Int /\ m \in Int
      BY <1>1
    <2>1. n = m - k + 1 /\ n <= m
      BY <1>5, <1>7
    <2>2. ASSUME NEW i \in 1..n PROVE a[i] = b[i]
      <3>1. n - i + 1 \in 1..(m - k + 1) /\ k + (n - i + 1) - 1 = m - i + 1
        BY <2>0, <2>1, Indices
      <3>2. s[n - i + 1] = t[m - i + 1]
        BY <1>5, <1>7, <3>1
      <3> QED
        BY <1>3, <1>4, <2>1, <3>2
    <2>3. a = b
      BY <1>3, <1>4, <2>1, <2>2, SeqEqual
    <2> QED
      BY <1>2, <2>1, <2>3
  <1> QED
    BY <1>6, <1>7

\* The tail of a sequence is what stands from its second place on.
LEMMA TailPlace ==
  ASSUME NEW s \in Seq(Nat), Len(s) > 1
  PROVE  /\ Tail(s) \in Seq(Nat) /\ Tail(s) # <<>>
         /\ 2 \in DOMAIN s /\ SubSeq(s, 2, Len(s)) = Tail(s)
  <1>1. s # <<>>
    OBVIOUS
  <1>2. Tail(s) \in Seq(Nat) /\ Len(Tail(s)) = Len(s) - 1
    BY <1>1, HeadTailProperties
  <1>3. SubSeq(s, 2, Len(s)) = Tail(s)
    BY <1>1, TailIsSubSeq
  <1>4. PICK n \in Nat : n = Len(s) /\ n > 1
    OBVIOUS
  <1>5. Len(Tail(s)) # 0
    <2>1. Len(Tail(s)) = n - 1
      BY <1>2, <1>4, Zenon
    <2>2. n - 1 # 0
      BY <1>4
    <2> QED
      BY <2>1, <2>2, Zenon
  <1>6. Len(<<>>) = 0
    OBVIOUS
  <1>7. Tail(s) # <<>>
    BY <1>5, <1>6, Zenon
  <1> QED
    BY <1>2, <1>3, <1>7

\* What follows the dot of a suffix domain.
LEMMA SuffixTail ==
  ASSUME NEW d \in Names, IsDomain(d), IsSuffixDomain(d)
  PROVE  /\ Tail(d.name) \in Seq(Nat) /\ Tail(d.name) # <<>>
         /\ \E k \in DOMAIN d.name : SubSeq(d.name, k, Len(d.name)) = Tail(d.name)
  <1>1. d.name \in Seq(Nat) /\ Len(d.name) > 1
    BY DEF Names, IsDomain
  <1> QED
    BY <1>1, TailPlace

\* A route matches the hosts under its domain.
LEMMA MatchesUnder ==
  ASSUME NEW d \in Names, IsDomain(d), NEW h \in Names
  PROVE  domainMatches(d, h) <=> Under(h, d)
  <1>0. h.name \in Seq(Nat)
    BY DEF Names
  <1>1. CASE IsSuffixDomain(d)
    <2>1. IsSuffix(Tail(d.name), h.name) <=>
             \E k \in DOMAIN h.name : SubSeq(h.name, k, Len(h.name)) = Tail(d.name)
      BY <1>0, <1>1, SuffixTail, SuffixPlace
    <2>2. h.name = d.name => \E k \in DOMAIN h.name : SubSeq(h.name, k, Len(h.name)) = Tail(d.name)
      BY <1>1, SuffixTail
    <2> QED
      BY <1>1, <2>1, <2>2 DEF domainMatches, Under
  <1>2. CASE ~ IsSuffixDomain(d)
    <2>1. d.port # 0 => (h = d <=> h.name = d.name /\ h.port = d.port)
      BY DEF Names
    <2> QED
      BY <1>2, <2>1 DEF domainMatches, Under
  <1> QED
    BY <1>1, <1>2

-----------------------------------------------------------------------------
(* Credentials *)

\* The credentials with their defaults, and those for GitHub.
Strings == STRING \cup {None, "", "openai", "github-api", "github-git"}

Resolved ==
    [name : Strings, type : Types, domain : Names, provider : Strings, channel : Strings,
     paths : Seq(Seq(STRING)), headers : BOOLEAN, key : BOOLEAN, token : Strings,
     clusters : SUBSET Names]

\* What WellFormed says of a credential, and holds with its defaults too.
Sound(c) ==
    /\ c \in Resolved
    /\ c.name \notin {None, "websearch"}
    /\ IsDomain(c.domain)
    /\ c.channel \in DOMAIN Channels \cup {None}
    /\ IsFiniteSet(c.clusters)
    /\ c.clusters # {} => c.type = "kubernetes"
    /\ \A s \in c.clusters : ~ IsSuffixDomain(s) /\ s.port # 0

\* The absent host has the type of a name.
LEMMA NoHostFacts == NoHost \in Names /\ ~ IsSuffixDomain(NoHost) /\ IsDomain(NoHost)
  <1>1. <<>> \in Seq(Nat)
    OBVIOUS
  <1> QED
    BY <1>1 DEF NoHost, Names, IsSuffixDomain, IsDomain

\* The types that the proofs name.
LEMMA TypesFacts ==
  /\ "" \in Types /\ "basic" \in Types /\ "bearer" \in Types
  /\ "kubernetes" \in Types /\ "none" \in Types
  <1>0. DOMAIN Injectors = 1..9
    BY DEF Injectors
  <1>1. \A i \in 1..9 : Injectors[i] \in Types
    BY <1>0 DEF Types, ToSet
  <1>2. /\ Injectors[1] = "" /\ Injectors[3] = "basic" /\ Injectors[4] = "bearer"
        /\ Injectors[6] = "kubernetes" /\ Injectors[7] = "none"
    BY DEF Injectors
  <1>3. /\ Injectors[1] \in Types /\ Injectors[3] \in Types /\ Injectors[4] \in Types
        /\ Injectors[6] \in Types /\ Injectors[7] \in Types
    BY <1>1
  <1> QED
    BY <1>2, <1>3

\* The defaults of a channel keep a credential sound, ...
LEMMA ChannelDefaultsSound ==
  ASSUME NEW c, Sound(c), c.channel # None
  PROVE  Sound(resolveChannelDefaults(c)) /\ resolveChannelDefaults(c).name = c.name
  <1> DEFINE d == Channels[c.channel]
             type == OrElse(c.type, "", d.type)
             domain == OrElse(c.domain, NoHost, d.domain)
             token == OrElse(c.token, "", d.token)
             key == c.key \/ d.key
             r == resolveChannelDefaults(c)
  <1>1. c.channel \in DOMAIN Channels
    BY DEF Sound
  <1>2. /\ d.type \in Types /\ d.domain \in Names /\ d.token \in STRING /\ d.key \in BOOLEAN
        /\ IsDomain(d.domain)
    BY <1>1, ChannelsAssumption
  <1>3. c \in Resolved
    BY DEF Sound
  <1>4. /\ c.type \in Types /\ c.domain \in Names /\ c.token \in Strings /\ c.key \in BOOLEAN
    BY <1>3 DEF Resolved
  <1>5. type \in Types /\ domain \in Names /\ IsDomain(domain) /\ token \in Strings
    BY <1>2, <1>4 DEF OrElse, Sound, Strings
  <1>6. key \in BOOLEAN
    BY <1>2, <1>4
  <1>7. r = [c EXCEPT !.type = type, !.domain = domain, !.token = token, !.key = key]
    BY DEF resolveChannelDefaults
  <1>t. c.type = "kubernetes" => type = "kubernetes"
    BY DEF OrElse
  <1> HIDE DEF d, type, domain, token, key, r
  <1>8. r \in Resolved
    BY <1>3, <1>5, <1>6, <1>7 DEF Resolved
  <1>9. /\ r.name = c.name /\ r.domain = domain /\ r.channel = c.channel /\ r.clusters = c.clusters
        /\ r.type = type
    BY <1>3, <1>7 DEF Resolved
  <1>10. r.name = c.name /\ Sound(r)
    BY <1>5, <1>8, <1>9, <1>t DEF Sound
  <1> QED
    BY <1>10 DEF r

\* ... and so do those of a provider.
LEMMA ProviderDefaultsSound ==
  ASSUME NEW c, Sound(c)
  PROVE  Sound(resolveProviderDefaults(c)) /\ resolveProviderDefaults(c).name = c.name
  <1> DEFINE p == canonicalProviderID(c.provider)
             known == p \in DOMAIN Providers
             type == IF known THEN OrElse(c.type, "", Providers[p].type) ELSE c.type
             found == CASE type \in {"api_key", "bearer"} /\ known -> Providers[p].domain
                        [] type = "gcp" -> GoogleAPIs
                        [] OTHER -> NoHost
             domain == OrElse(c.domain, NoHost, found)
             key == c.key \/ (type = "api_key" /\ known /\ Providers[p].header)
             r == resolveProviderDefaults(c)
  <1>1. c \in Resolved
    BY DEF Sound
  <1>2. c.type \in Types /\ c.domain \in Names /\ c.key \in BOOLEAN /\ c.provider \in Strings
    BY <1>1 DEF Resolved
  <1>3. p \in Strings
    BY <1>2 DEF canonicalProviderID, Strings
  <1>4. known => /\ Providers[p].type \in Types /\ Providers[p].domain \in Names
                 /\ Providers[p].header \in BOOLEAN /\ IsDomain(Providers[p].domain)
    BY ProvidersAssumption
  <1>5. r = [c EXCEPT !.provider = p, !.type = type, !.domain = domain, !.key = key]
    BY DEF resolveProviderDefaults
  <1> HIDE DEF p
  <1>6. type \in Types
    BY <1>2, <1>4 DEF OrElse
  <1>7. key \in BOOLEAN
    BY <1>2, <1>4
  <1>8. found \in Names /\ IsDomain(found)
    <2> HIDE DEF type
    <2>1. CASE type \in {"api_key", "bearer"} /\ known
      <3>1. type # "gcp"
        BY <2>1
      <3> QED
        BY <1>4, <2>1, <3>1
    <2>2. CASE type = "gcp"
      <3>1. ~ (type \in {"api_key", "bearer"})
        BY <2>2
      <3>2. GoogleAPIs \in Names /\ IsDomain(GoogleAPIs)
        BY DomainsAssumption
      <3> QED
        BY <2>2, <3>1, <3>2
    <2>3. CASE type # "gcp" /\ ~ (type \in {"api_key", "bearer"} /\ known)
      BY <2>3, NoHostFacts
    <2> QED
      BY <2>1, <2>2, <2>3
  <1>t. c.type = "kubernetes" => type = "kubernetes"
    BY DEF OrElse
  <1> HIDE DEF found, type, known, key
  <1>9. domain \in Names /\ IsDomain(domain)
    BY <1>2, <1>8 DEF OrElse, Sound
  <1> HIDE DEF domain, r
  <1>10. r \in Resolved
    BY <1>1, <1>3, <1>5, <1>6, <1>7, <1>9 DEF Resolved
  <1>11. /\ r.name = c.name /\ r.domain = domain /\ r.channel = c.channel /\ r.clusters = c.clusters
         /\ r.type = type
    BY <1>1, <1>5 DEF Resolved
  <1>12. r.name = c.name /\ Sound(r)
    BY <1>9, <1>10, <1>11, <1>t DEF Sound
  <1> QED
    BY <1>12 DEF r

\* The declared credentials are sound once their defaults are in.
LEMMA DeclaredFacts ==
  ASSUME NEW spec, WellFormed(spec)
  PROVE  /\ Declared(spec) \in Seq(Resolved)
         /\ \A i \in DOMAIN Declared(spec) : Sound(Declared(spec)[i])
  <1>1. DOMAIN spec.creds = 1..Len(spec.creds) /\ Len(spec.creds) \in Nat
    BY DEF WellFormed
  <1>2. \A i \in DOMAIN spec.creds : Sound(spec.creds[i])
    <2> TAKE i \in DOMAIN spec.creds
    <2>1. spec.creds[i] \in Credentials /\ spec.creds[i] \in ToSet(spec.creds)
      BY <1>1 DEF WellFormed, ToSet
    <2>2. spec.creds[i] \in Resolved
      BY <2>1 DEF Credentials, Resolved, Strings
    <2> QED
      BY <2>1, <2>2 DEF WellFormed, Sound
  <1>3. \A i \in DOMAIN spec.creds : Sound(withDefaults(spec.creds[i]))
    BY <1>2, ChannelDefaultsSound, ProviderDefaultsSound DEF withDefaults
  <1>4. DOMAIN Declared(spec) = 1..Len(spec.creds) /\ \A i \in DOMAIN Declared(spec) : Sound(Declared(spec)[i])
    BY <1>1, <1>3 DEF Declared
  <1>5. Declared(spec) \in [1..Len(spec.creds) -> Resolved]
    <2>1. \A i \in 1..Len(spec.creds) : withDefaults(spec.creds[i]) \in Resolved
      BY <1>1, <1>3 DEF Sound
    <2> QED
      BY <1>1, <2>1 DEF Declared
  <1>6. Declared(spec) \in Seq(Resolved)
    BY <1>1, <1>5
  <1> QED
    BY <1>4, <1>6

\* The entries for the GitHub repositories are paths.
LEMMA GithubPathsType ==
  ASSUME NEW repos \in Seq([plain : Seq(STRING), git : Seq(STRING)])
  PROVE  githubAllowedPaths(repos) \in Seq(Seq(STRING))
  <1> DEFINE n == Len(repos)
             total == 2 * n
             Repo == [plain : Seq(STRING), git : Seq(STRING)]
  <1>1. n \in Nat /\ total \in Nat
    OBVIOUS
  <1>2. \A j \in 1..n : repos[j].plain \in Seq(STRING) /\ repos[j].git \in Seq(STRING)
    <2> TAKE j \in 1..n
    <2>1. repos \in Seq(Repo)
      OBVIOUS
    <2> HIDE DEF Repo
    <2>2. repos[j] \in Repo
      BY <2>1
    <2> QED
      BY <2>2 DEF Repo
  <1>3. ASSUME NEW k \in 1..total
        PROVE  (IF k % 2 = 1 THEN repos[(k + 1) \div 2].plain ELSE repos[k \div 2].git) \in Seq(STRING)
    <2>1. k % 2 = 1 => (k + 1) \div 2 \in 1..n
      BY <1>1
    <2>2. k % 2 # 1 => k \div 2 \in 1..n
      BY <1>1
    <2> HIDE DEF n
    <2> QED
      BY <1>2, <2>1, <2>2
  <1>4. githubAllowedPaths(repos) \in [1..total -> Seq(STRING)]
    BY <1>3 DEF githubAllowedPaths
  <1> HIDE DEF total
  <1> QED
    BY <1>1, <1>4

\* A credential with nothing but a name, a type and a domain.
LEMMA CredentialFacts ==
  ASSUME NEW name \in Strings, NEW type \in Types, NEW domain \in Names
  PROVE  /\ Credential(name, type, domain) \in Resolved
         /\ Credential(name, type, domain).name = name
         /\ Credential(name, type, domain).domain = domain
         /\ Credential(name, type, domain).channel = None
         /\ Credential(name, type, domain).clusters = {}
  <1>1. <<>> \in Seq(Seq(STRING)) /\ None \in Strings /\ "" \in Strings
    BY EmptySeq DEF Strings
  <1> QED
    BY <1>1 DEF Credential, Resolved

\* The two credentials for GitHub, before their paths.
LEMMA GithubCredentials ==
  /\ Credential("github-api", "bearer", GithubAPI) \in Resolved
  /\ Credential("github-api", "bearer", GithubAPI).name = "github-api"
  /\ Credential("github-api", "bearer", GithubAPI).domain = GithubAPI
  /\ Credential("github-api", "bearer", GithubAPI).channel = None
  /\ Credential("github-api", "bearer", GithubAPI).clusters = {}
  /\ Credential("github-git", "basic", GithubGit) \in Resolved
  /\ Credential("github-git", "basic", GithubGit).name = "github-git"
  /\ Credential("github-git", "basic", GithubGit).domain = GithubGit
  /\ Credential("github-git", "basic", GithubGit).channel = None
  /\ Credential("github-git", "basic", GithubGit).clusters = {}
  <1>1. GithubAPI \in Names /\ GithubGit \in Names
    BY DomainsAssumption
  <1>2. "github-api" \in Strings /\ "github-git" \in Strings
    BY DEF Strings
  <1>3. "bearer" \in Types /\ "basic" \in Types
    BY TypesFacts
  <1> QED
    BY <1>1, <1>2, <1>3, CredentialFacts

\* A sequence with one element or none.
LEMMA AtMostOne ==
  ASSUME NEW S, NEW e \in S, NEW s, s = <<>> \/ s = <<e>>
  PROVE  s \in Seq(S) /\ Len(s) \in 0..1 /\ \A i \in DOMAIN s : i = 1 /\ s[i] = e /\ s # <<>>
  <1>1. CASE s = <<>>
    BY <1>1
  <1>2. CASE s = <<e>>
    <2>1. Len(s) = 1 /\ s[1] = e /\ DOMAIN s = 1..1
      BY <1>2
    <2>2. s \in Seq(S)
      BY <1>2
    <2> QED
      BY <1>2, <2>1, <2>2
  <1> QED
    BY <1>1, <1>2

\* The credentials for GitHub are sound, and their names are not taken.
LEMMA GithubFacts ==
  ASSUME NEW spec, WellFormed(spec)
  PROVE  LET gh == githubRepoAccessCredentials(spec)
         IN  /\ gh \in Seq(Resolved)
             /\ \A i \in DOMAIN gh : Sound(gh[i]) /\ \A d \in ToSet(Declared(spec)) : d.name # gh[i].name
             /\ \A i, j \in DOMAIN gh : i # j => gh[i].name # gh[j].name
  <1> DEFINE paths == githubAllowedPaths(spec.repos)
             api == Credential("github-api", "bearer", GithubAPI)
             git == [Credential("github-git", "basic", GithubGit) EXCEPT !.paths = paths]
             free(c) == \A d \in ToSet(Declared(spec)) : d.name # c.name /\ d.domain # c.domain
             gh == githubRepoAccessCredentials(spec)
             x == IF "api" \in spec.github /\ free(api) THEN <<api>> ELSE <<>>
             y == IF "git" \in spec.github /\ free(git) THEN <<git>> ELSE <<>>
  <1>1. paths \in Seq(Seq(STRING)) /\ <<>> \in Seq(Seq(STRING))
    BY GithubPathsType, EmptySeq DEF WellFormed
  <1>2. /\ GithubAPI \in Names /\ IsDomain(GithubAPI) /\ GithubGit \in Names /\ IsDomain(GithubGit)
        /\ "github-api" \in Strings /\ "github-git" \in Strings
    BY DomainsAssumption DEF Strings
  <1>4. gh = x \o y
    BY DEF githubRepoAccessCredentials
  <1> HIDE DEF api, git, paths, gh
  <1>5. /\ api \in Resolved /\ api.name = "github-api" /\ api.domain = GithubAPI
        /\ api.channel = None /\ api.clusters = {}
    BY GithubCredentials DEF api
  <1>6. /\ git \in Resolved /\ git.name = "github-git" /\ git.domain = GithubGit
        /\ git.channel = None /\ git.clusters = {}
    <2> DEFINE plain == Credential("github-git", "basic", GithubGit)
    <2>1. /\ plain \in Resolved /\ plain.name = "github-git" /\ plain.domain = GithubGit
          /\ plain.channel = None /\ plain.clusters = {}
      BY GithubCredentials
    <2>2. git = [plain EXCEPT !.paths = paths]
      BY DEF git
    <2> HIDE DEF plain
    <2> QED
      BY <1>1, <2>1, <2>2 DEF Resolved
  <1>7. IsFiniteSet({})
    BY FS_EmptySet
  <1>8. Sound(api) /\ Sound(git)
    BY <1>2, <1>5, <1>6, <1>7 DEF Sound, None
  <1>9. /\ x \in Seq(Resolved) /\ \A i \in DOMAIN x : i = 1 /\ x[i] = api /\ free(api)
        /\ y \in Seq(Resolved) /\ \A i \in DOMAIN y : i = 1 /\ y[i] = git /\ free(git)
        /\ Len(x) \in 0..1 /\ Len(y) \in 0..1
    <2>1. \/ x = <<>>
          \/ x = <<api>> /\ free(api)
      OBVIOUS
    <2>2. \/ y = <<>>
          \/ y = <<git>> /\ free(git)
      OBVIOUS
    <2> HIDE DEF x, y, free
    <2>3. x \in Seq(Resolved) /\ Len(x) \in 0..1 /\ \A i \in DOMAIN x : i = 1 /\ x[i] = api /\ x # <<>>
      BY <1>5, <2>1, AtMostOne
    <2>4. y \in Seq(Resolved) /\ Len(y) \in 0..1 /\ \A i \in DOMAIN y : i = 1 /\ y[i] = git /\ y # <<>>
      BY <1>6, <2>2, AtMostOne
    <2> QED
      BY <2>1, <2>2, <2>3, <2>4
  <1> HIDE DEF x, y
  <1>10. /\ gh \in Seq(Resolved) /\ DOMAIN gh = 1..(Len(x) + Len(y))
         /\ \A i \in DOMAIN gh : \/ i \in DOMAIN x /\ gh[i] = x[i]
                                 \/ i - Len(x) \in DOMAIN y /\ gh[i] = y[i - Len(x)]
    BY <1>4, <1>9, ConcatProperties
  <1>11. \A i \in DOMAIN gh : \/ i = 1 /\ gh[i] = api /\ free(api)
                              \/ i = Len(x) + 1 /\ gh[i] = git /\ free(git)
    BY <1>9, <1>10
  <1>12. \A i \in DOMAIN gh : Sound(gh[i]) /\ \A d \in ToSet(Declared(spec)) : d.name # gh[i].name
    BY <1>8, <1>11
  <1>13. \A i, j \in DOMAIN gh : i # j => gh[i].name # gh[j].name
    BY <1>5, <1>6, <1>11
  <1> QED
    BY <1>10, <1>12, <1>13 DEF gh

\* The credentials the routes are made from are sound, and a valid Claw's have
\* different names.
LEMMA ResolvedFacts ==
  ASSUME NEW spec, WellFormed(spec)
  PROVE  LET creds == resolveCredentials(spec)
         IN  /\ creds \in Seq(Resolved)
             /\ \A i \in DOMAIN creds : Sound(creds[i])
             /\ credentialsValid(spec) =>
                   \A i, j \in DOMAIN creds : i # j => creds[i].name # creds[j].name
  <1> DEFINE x == Declared(spec)
             y == githubRepoAccessCredentials(spec)
             creds == resolveCredentials(spec)
  <1>1. /\ x \in Seq(Resolved) /\ y \in Seq(Resolved) /\ \A i \in DOMAIN x : Sound(x[i]) /\ x[i] \in ToSet(x)
        /\ \A i \in DOMAIN y : Sound(y[i]) /\ \A d \in ToSet(x) : d.name # y[i].name
        /\ \A i, j \in DOMAIN y : i # j => y[i].name # y[j].name
    BY DeclaredFacts, GithubFacts DEF ToSet
  <1>2. credentialsValid(spec) => \A i, j \in DOMAIN x : i # j => x[i].name # x[j].name
    BY DEF credentialsValid
  <1>3. creds = x \o y
    BY DEF resolveCredentials
  <1> HIDE DEF x, y, creds
  <1>4. /\ creds \in Seq(Resolved) /\ DOMAIN creds = 1..(Len(x) + Len(y))
        /\ \A i \in DOMAIN creds : \/ i \in DOMAIN x /\ creds[i] = x[i]
                                   \/ i - Len(x) \in DOMAIN y /\ creds[i] = y[i - Len(x)]
    BY <1>1, <1>3, ConcatProperties
  <1>5. \A i \in DOMAIN creds : Sound(creds[i])
    BY <1>1, <1>4
  <1>6. ASSUME credentialsValid(spec), NEW i \in DOMAIN creds, NEW j \in DOMAIN creds, i # j
        PROVE  creds[i].name # creds[j].name
    <2>1. i - Len(x) # j - Len(x)
      BY <1>1, <1>4, <1>6
    <2> QED
      BY <1>1, <1>2, <1>4, <1>6, <2>1
  <1> QED
    BY <1>4, <1>5, <1>6 DEF creds

-----------------------------------------------------------------------------
(* The routes of a credential *)

\* The values of a function on a finite set.
LEMMA FiniteImage ==
  ASSUME NEW S, IsFiniteSet(S), NEW f, DOMAIN f = S
  PROVE  IsFiniteSet({f[x] : x \in S})
  <1> DEFINE T == {f[x] : x \in S}
             g == [x \in S |-> f[x]]
  <1>1. g \in Surjection(S, T)
    BY DEF Surjection
  <1> QED
    BY <1>1, FS_Surjection

ClusterRoute(c, r) ==
    /\ c.type = "kubernetes" /\ r.domain \in c.clusters
    /\ r.injector = "kubernetes" /\ r.cred = c.name /\ r.prefix = "" /\ r.paths = <<>>

OwnRoute(c, r) ==
    /\ c.type # "kubernetes" /\ c.domain # NoHost
    /\ r.domain = c.domain /\ r.paths = c.paths
    /\ r.injector = c.type /\ r.cred = IF c.type = "none" THEN None ELSE c.name
    /\ r.prefix # "" => r.upstream = resolveProviderInfo(c)

CompanionRoute(c, r) ==
    /\ r \in ToSet(generateCompanionRoutes(c)) /\ r.domain \in Names /\ IsDomain(r.domain)
    /\ r.injector = "none" /\ r.cred = None /\ r.prefix = "" /\ r.paths = <<>>

\* The fields of a passthrough route.
LEMMA PassthroughFacts ==
  ASSUME NEW d
  PROVE  /\ Passthrough(d).domain = d /\ Passthrough(d).injector = "none"
         /\ Passthrough(d).cred = None /\ Passthrough(d).prefix = ""
         /\ Passthrough(d).paths = <<>>
  BY DEF Passthrough, Route

\* The routes of a channel's companions.
LEMMA Companions ==
  ASSUME NEW c, Sound(c)
  PROVE  /\ \E n \in Nat : DOMAIN generateCompanionRoutes(c) = 1..n
         /\ \A i \in DOMAIN generateCompanionRoutes(c) : CompanionRoute(c, generateCompanionRoutes(c)[i])
  <1> DEFINE s == generateCompanionRoutes(c)
             d == Channels[c.channel].companions
  <1>1. CASE c.channel = None
    <2>1. s = <<>>
      BY <1>1 DEF generateCompanionRoutes
    <2> QED
      BY <2>1
  <1>2. CASE c.channel # None
    <2>1. c.channel \in DOMAIN Channels
      BY <1>2 DEF Sound
    <2>2. d \in Seq(Names) /\ \A i \in DOMAIN d : IsDomain(d[i])
      BY <2>1, ChannelsAssumption
    <2>3. s = [i \in DOMAIN d |-> Passthrough(d[i])]
      BY <1>2 DEF generateCompanionRoutes
    <2> HIDE DEF d
    <2>4. \A i \in DOMAIN s : s[i] = Passthrough(d[i]) /\ d[i] \in Names /\ IsDomain(d[i]) /\ s[i] \in ToSet(s)
      BY <2>2, <2>3 DEF ToSet
    <2>5. Len(d) \in Nat /\ DOMAIN s = 1..Len(d)
      BY <2>2, <2>3
    <2> HIDE DEF s
    <2>6. \A i \in DOMAIN s : /\ s[i].domain = d[i] /\ s[i].injector = "none"
                              /\ s[i].cred = None /\ s[i].prefix = "" /\ s[i].paths = <<>>
      <3> TAKE i \in DOMAIN s
      <3>1. s[i] = Passthrough(d[i])
        BY <2>4
      <3> QED
        BY <3>1, PassthroughFacts, Zenon
    <2>7. \A i \in DOMAIN s : CompanionRoute(c, s[i])
      BY <2>4, <2>6 DEF CompanionRoute, s
    <2> QED
      BY <2>5, <2>7 DEF s
  <1> QED
    BY <1>1, <1>2

\* The fields of a credential's route.
LEMMA BuiltRoute ==
  ASSUME NEW c
  PROVE  /\ buildCredentialRoute(c).domain = c.domain
         /\ buildCredentialRoute(c).paths = c.paths
         /\ buildCredentialRoute(c).prefix = ""
         /\ buildCredentialRoute(c).injector = IF c.type = "kubernetes" THEN "" ELSE c.type
         /\ buildCredentialRoute(c).cred = IF c.type = "none" THEN None ELSE c.name
  BY DEF buildCredentialRoute, Route

\* A kubeconfig gives each of its clusters a route.
LEMMA ClusterRoutes ==
  ASSUME NEW c, Sound(c), c.type = "kubernetes", NEW g \in Nat
  PROVE  /\ IsFiniteSet(RoutesOf(c, g))
         /\ \A x \in RoutesOf(c, g) : x.at = <<g, 0>> /\ ClusterRoute(c, x.route)
         /\ \A x, y \in RoutesOf(c, g) : x.route.domain = y.route.domain => x = y
         /\ \A s \in c.clusters : \E x \in RoutesOf(c, g) : x.route.domain = s
  <1> DEFINE f == [s \in c.clusters |->
                      Placed(g, 0, [Route(s, "kubernetes", c.name)
                                      EXCEPT !.headers = c.headers, !.servers = c.clusters])]
  <1>1. RoutesOf(c, g) = {f[s] : s \in c.clusters}
    BY DEF RoutesOf
  <1>2. ASSUME NEW s \in c.clusters
        PROVE  /\ f[s].at = <<g, 0>> /\ f[s].route.domain = s
               /\ f[s].route.injector = "kubernetes" /\ f[s].route.cred = c.name
               /\ f[s].route.prefix = "" /\ f[s].route.paths = <<>>
    BY DEF Placed, Route
  <1>3. DOMAIN f = c.clusters
    OBVIOUS
  <1> HIDE DEF f
  <1>4. IsFiniteSet(RoutesOf(c, g))
    BY <1>1, <1>3, FiniteImage DEF Sound
  <1>5. \A x \in RoutesOf(c, g) : x.at = <<g, 0>> /\ ClusterRoute(c, x.route)
    <2> TAKE x \in RoutesOf(c, g)
    <2>1. PICK s \in c.clusters : x = f[s]
      BY <1>1
    <2> QED
      BY <1>2, <2>1, Zenon DEF ClusterRoute
  <1>6. \A x, y \in RoutesOf(c, g) : x.route.domain = y.route.domain => x = y
    <2> TAKE x, y \in RoutesOf(c, g)
    <2>1. PICK s \in c.clusters : x = f[s]
      BY <1>1
    <2>2. PICK t \in c.clusters : y = f[t]
      BY <1>1
    <2>3. x.route.domain = s /\ y.route.domain = t
      BY <1>2, <2>1, <2>2, Zenon
    <2> QED
      BY <2>1, <2>2, <2>3, Zenon
  <1>7. \A s \in c.clusters : \E x \in RoutesOf(c, g) : x.route.domain = s
    BY <1>1, <1>2
  <1> QED
    BY <1>4, <1>5, <1>6, <1>7

\* A credential's route is its own with and without a gateway prefix.
LEMMA OwnRouteFacts ==
  ASSUME NEW c, c.type # "kubernetes", c.domain # NoHost, NEW r,
         \/ r = buildCredentialRoute(c)
         \/ r = [buildCredentialRoute(c) EXCEPT !.prefix = c.name, !.upstream = resolveProviderInfo(c)]
  PROVE  OwnRoute(c, r)
  <1> DEFINE u == resolveProviderInfo(c)
             injector == IF c.type = "kubernetes" THEN "" ELSE c.type
             cred == IF c.type = "none" THEN None ELSE c.name
  <1>1. injector = c.type
    OBVIOUS
  <1>2. CASE r = buildCredentialRoute(c)
    <2>1. r.domain = c.domain /\ r.paths = c.paths /\ r.prefix = "" /\ r.injector = injector /\ r.cred = cred
      BY <1>2, BuiltRoute, Zenon
    <2> QED
      BY <1>1, <2>1 DEF OwnRoute
  <1>3. CASE r = [buildCredentialRoute(c) EXCEPT !.prefix = c.name, !.upstream = u]
    <2> HIDE DEF u
    <2>1. /\ r.domain = c.domain /\ r.paths = c.paths /\ r.injector = injector /\ r.cred = cred
          /\ r.upstream = u
      BY <1>3 DEF buildCredentialRoute, Route
    <2> QED
      BY <1>1, <2>1 DEF OwnRoute, u
  <1> QED
    BY <1>2, <1>3

\* Any other credential has a route for its domain, if it has one, and its
\* companions.
LEMMA OwnRoutes ==
  ASSUME NEW c, Sound(c), c.type # "kubernetes", NEW g \in Nat
  PROVE  /\ IsFiniteSet(RoutesOf(c, g))
         /\ \A x \in RoutesOf(c, g) : /\ \E n \in Nat : x.at = <<g, n>>
                                      /\ OwnRoute(c, x.route) \/ CompanionRoute(c, x.route)
         /\ \A x, y \in RoutesOf(c, g) : x.at = y.at => x = y
         /\ c.domain # NoHost => \E x \in RoutesOf(c, g) : OwnRoute(c, x.route)
  <1> DEFINE gateway == c.provider # None /\ c.type # "path_token" /\ ~ usesVertexSDK(c)
             u == resolveProviderInfo(c)
             own == IF gateway THEN [buildCredentialRoute(c) EXCEPT !.prefix = c.name, !.upstream = u]
                    ELSE buildCredentialRoute(c)
             s == generateCompanionRoutes(c)
             f == [i \in DOMAIN s |-> Placed(g, i, s[i])]
             A == {Placed(g, 0, own) : d \in {c.domain} \ {NoHost}}
             B == {f[i] : i \in DOMAIN s}
  <1>1. RoutesOf(c, g) = A \cup B
    BY DEF RoutesOf
  <1>2. PICK n \in Nat : DOMAIN s = 1..n
    BY Companions
  <1>3. \A i \in DOMAIN s : CompanionRoute(c, s[i])
    BY Companions
  <1>4. c.domain # NoHost => OwnRoute(c, own)
    BY OwnRouteFacts
  <1> HIDE DEF own
  <1>5. \A x \in A : c.domain # NoHost /\ x.at = <<g, 0>> /\ x.route = own
    BY DEF Placed
  <1>6. c.domain # NoHost => \E x \in A : x.route = own
    <2>1. c.domain # NoHost => Placed(g, 0, own) \in A
      OBVIOUS
    <2>2. Placed(g, 0, own).route = own
      BY DEF Placed
    <2> QED
      BY <2>1, <2>2, Zenon
  <1> HIDE DEF s
  <1>7. \A i \in DOMAIN s : f[i].at = <<g, i>> /\ f[i].route = s[i]
    BY DEF Placed
  <1>8. DOMAIN f = DOMAIN s
    OBVIOUS
  <1> HIDE DEF f
  <1>9. IsFiniteSet(A)
    <2>1. A \in SUBSET {Placed(g, 0, own)} /\ IsFiniteSet({Placed(g, 0, own)})
      BY FS_Singleton
    <2> HIDE DEF A
    <2> QED
      BY <2>1, FS_Subset
  <1>10. IsFiniteSet(B)
    <2>1. IsFiniteSet(1..n)
      BY FS_Interval
    <2> QED
      BY <1>2, <1>8, <2>1, FiniteImage
  <1>11. IsFiniteSet(RoutesOf(c, g))
    <2> HIDE DEF A, B
    <2> QED
      BY <1>1, <1>9, <1>10, FS_Union
  <1>12. \A x \in B : \E i \in 1..n : x = f[i] /\ x.at = <<g, i>> /\ x.route = s[i]
    BY <1>2, <1>7
  <1>13. \A x, y \in A : x = y
    OBVIOUS
  <1> HIDE DEF A, B
  <1>14. \A x \in RoutesOf(c, g) : /\ \E k \in Nat : x.at = <<g, k>>
                                   /\ OwnRoute(c, x.route) \/ CompanionRoute(c, x.route)
    <2> TAKE x \in RoutesOf(c, g)
    <2>1. CASE x \in A
      BY <1>4, <1>5, <2>1
    <2>2. CASE x \in B
      <3>1. PICK i \in 1..n : x.at = <<g, i>> /\ x.route = s[i]
        BY <1>12, <2>2
      <3>2. i \in Nat
        BY <1>2
      <3> QED
        BY <1>2, <1>3, <3>1, <3>2
    <2> QED
      BY <1>1, <2>1, <2>2
  <1>15. \A x, y \in RoutesOf(c, g) : x.at = y.at => x = y
    <2> SUFFICES ASSUME NEW x \in RoutesOf(c, g), NEW y \in RoutesOf(c, g), x.at = y.at PROVE x = y
      OBVIOUS
    <2>1. \A k \in 1..n : k # 0
      BY <1>2
    <2>2. CASE x \in A /\ y \in A
      BY <1>13, <2>2
    <2>3. CASE x \in B /\ y \in B
      BY <1>12, <2>3
    <2>4. CASE x \in A /\ y \in B
      BY <1>5, <1>12, <2>1, <2>4
    <2>5. CASE x \in B /\ y \in A
      BY <1>5, <1>12, <2>1, <2>5
    <2> QED
      BY <1>1, <2>2, <2>3, <2>4, <2>5
  <1>16. c.domain # NoHost => \E x \in RoutesOf(c, g) : OwnRoute(c, x.route)
    BY <1>1, <1>4, <1>6
  <1> QED
    BY <1>11, <1>14, <1>15, <1>16

-----------------------------------------------------------------------------
(* The routes of a config *)

BuiltinRoute(spec, r) ==
    /\ \E i \in DOMAIN Builtins : Builtins[i].domain = r.domain
    /\ r.domain \in spec.builtins
    /\ r.injector = "none" /\ r.cred = None /\ r.prefix = ""
    /\ r.paths \in Seq(Seq(STRING))

SearchRoute(spec, r) ==
    /\ r.domain = spec.search.domain /\ r.domain # NoHost
    /\ r.injector = spec.search.injector /\ r.prefix = "" /\ r.paths = <<>>
    /\ r.cred = IF r.injector = "none" THEN None ELSE "websearch"

\* The route of an MCP server: without a credential, or with the one it references.
ServerRoute(spec, r) ==
    /\ ~ domainCovered(r.domain, Covered(spec))
    /\ r.injector \in Types /\ (r.injector = "none" => r.cred = None)
    /\ r.prefix = "" /\ r.paths = <<>>
    /\ \E m \in spec.mcp :
          /\ m.host = r.domain
          /\ \/ r.cred = None
             \/ /\ m.ref = r.cred
                /\ \E c \in ToSet(resolveCredentials(spec)) : c.name = r.cred

CredentialRoute(spec, r) ==
    \E c \in ToSet(resolveCredentials(spec)) : ClusterRoute(c, r) \/ OwnRoute(c, r) \/ CompanionRoute(c, r)

Accounted(spec, r) ==
    BuiltinRoute(spec, r) \/ SearchRoute(spec, r) \/ ServerRoute(spec, r) \/ CredentialRoute(spec, r)

\* A set of placed routes that are accounted for, at most one for each domain at
\* each place of a group.
Part(spec, placed, group) ==
    /\ IsFiniteSet(placed)
    /\ \A x \in placed : (\E n \in Nat : x.at = <<group, n>>) /\ Accounted(spec, x.route)
    /\ \A x, y \in placed : x.at = y.at /\ x.route.domain = y.route.domain => x = y

\* The built-in domains are names without a leading dot.
LEMMA BuiltinsType ==
  \A i \in DOMAIN Builtins : /\ Builtins[i].domain \in Names /\ ~ IsSuffixDomain(Builtins[i].domain)
                             /\ Builtins[i].paths \in Seq(Seq(STRING))
  <1> DEFINE B == [domain : Names, paths : Seq(Seq(STRING))]
  <1> TAKE i \in DOMAIN Builtins
  <1>1. Builtins \in Seq(B)
    BY BuiltinsAssumption
  <1> HIDE DEF B
  <1>2. Builtins[i] \in B
    BY <1>1
  <1> QED
    BY <1>2, BuiltinsAssumption DEF B

\* The built-in routes are accounted for, ...
LEMMA BuiltinPart ==
  ASSUME NEW spec
  PROVE  Part(spec, {Placed(0, i, [Passthrough(Builtins[i].domain) EXCEPT !.paths = Builtins[i].paths])
                        : i \in builtinRoutes(spec)}, 0)
  <1> DEFINE f == [i \in builtinRoutes(spec) |->
                     Placed(0, i, [Passthrough(Builtins[i].domain) EXCEPT !.paths = Builtins[i].paths])]
             P == {f[i] : i \in builtinRoutes(spec)}
  <1>1. builtinRoutes(spec) \in SUBSET (1..Len(Builtins)) /\ Len(Builtins) \in Nat
    BY BuiltinsAssumption DEF builtinRoutes, filterBuiltinPassthroughs
  <1>2. IsFiniteSet(builtinRoutes(spec))
    <2>1. PICK n \in Nat : builtinRoutes(spec) \in SUBSET (1..n)
      BY <1>1
    <2>2. IsFiniteSet(1..n)
      BY FS_Interval
    <2> QED
      BY <2>1, <2>2, FS_Subset
  <1>3. ASSUME NEW i \in builtinRoutes(spec)
        PROVE  f[i].at = <<0, i>> /\ i \in Nat /\ BuiltinRoute(spec, f[i].route)
    <2> DEFINE d == Builtins[i].domain
               paths == Builtins[i].paths
    <2>0. paths \in Seq(Seq(STRING))
      BY BuiltinsType DEF builtinRoutes, filterBuiltinPassthroughs
    <2>1. i \in DOMAIN Builtins /\ d \in spec.builtins
      BY DEF builtinRoutes, filterBuiltinPassthroughs
    <2>2. f[i].at = <<0, i>> /\ f[i].route = [Passthrough(d) EXCEPT !.paths = paths]
      BY DEF Placed
    <2> HIDE DEF f, d, paths
    <2>3. \A r : r = [Passthrough(d) EXCEPT !.paths = paths] =>
                    /\ r.domain = d /\ r.injector = "none" /\ r.cred = None /\ r.prefix = ""
                    /\ r.paths = paths
      BY DEF Passthrough, Route
    <2>4. /\ f[i].route.domain = d /\ f[i].route.injector = "none" /\ f[i].route.cred = None
          /\ f[i].route.prefix = "" /\ f[i].route.paths = paths
      BY <2>2, <2>3, Zenon
    <2>5. i \in Nat
      BY <1>1
    <2>6. BuiltinRoute(spec, f[i].route)
      BY <2>0, <2>1, <2>4, Zenon DEF BuiltinRoute, d
    <2> QED
      BY <2>2, <2>5, <2>6
  <1>4. DOMAIN f = builtinRoutes(spec)
    OBVIOUS
  <1>5. P = {Placed(0, i, [Passthrough(Builtins[i].domain) EXCEPT !.paths = Builtins[i].paths])
               : i \in builtinRoutes(spec)}
    OBVIOUS
  <1> HIDE DEF f
  <1>6. IsFiniteSet(P)
    BY <1>2, <1>4, FiniteImage
  <1>7. \A x \in P : (\E n \in Nat : x.at = <<0, n>>) /\ Accounted(spec, x.route)
    BY <1>3 DEF Accounted
  <1>8. \A x, y \in P : x.at = y.at => x = y
    BY <1>3
  <1> HIDE DEF P
  <1>9. Part(spec, P, 0)
    BY <1>6, <1>7, <1>8 DEF Part
  <1> QED
    BY <1>5, <1>9

\* ... and so is the route of the web search, ...
LEMMA SearchPart ==
  ASSUME NEW spec
  PROVE  Part(spec, {Placed(1, 0, webSearchRoute(spec.search)) : d \in searchDomains(spec)}, 1)
  <1> DEFINE e == Placed(1, 0, webSearchRoute(spec.search))
             P == {e : d \in searchDomains(spec)}
  <1>1. P \in SUBSET {e} /\ IsFiniteSet({e})
    BY FS_Singleton
  <1>2. P # {} => spec.search.domain # NoHost
    BY DEF searchDomains
  <1>3. e.at = <<1, 0>> /\ e.route = webSearchRoute(spec.search)
    BY DEF Placed
  <1>4. /\ webSearchRoute(spec.search).domain = spec.search.domain
        /\ webSearchRoute(spec.search).injector = spec.search.injector
        /\ webSearchRoute(spec.search).prefix = "" /\ webSearchRoute(spec.search).paths = <<>>
        /\ webSearchRoute(spec.search).cred = IF spec.search.injector = "none" THEN None ELSE "websearch"
    BY DEF webSearchRoute, Route
  <1> HIDE DEF e
  <1>5. P # {} => SearchRoute(spec, e.route)
    BY <1>2, <1>3, <1>4 DEF SearchRoute
  <1> HIDE DEF P
  <1>6. IsFiniteSet(P)
    BY <1>1, FS_Subset
  <1>7. Part(spec, P, 1)
    BY <1>1, <1>3, <1>5, <1>6 DEF Part, Accounted
  <1> QED
    BY <1>7 DEF P, e

\* The hosts of MCP servers that get a route are finitely many and not covered.
LEMMA HostsOfServers ==
  ASSUME NEW spec, WellFormed(spec)
  PROVE  /\ IsFiniteSet(credentialHosts(spec)) /\ IsFiniteSet(passthroughHosts(spec))
         /\ \A h \in credentialHosts(spec) \cup passthroughHosts(spec) :
               ~ domainCovered(h, Covered(spec)) /\ \E m \in spec.mcp : m.host = h
  <1> DEFINE f == [m \in spec.mcp |-> m.host]
             H == {f[m] : m \in spec.mcp}
  <1>1. IsFiniteSet(H)
    <2>1. IsFiniteSet(spec.mcp) /\ DOMAIN f = spec.mcp
      BY DEF WellFormed
    <2> HIDE DEF f
    <2> QED
      BY <2>1, FiniteImage
  <1>2. credentialHosts(spec) \in SUBSET H /\ passthroughHosts(spec) \in SUBSET H
    BY DEF credentialHosts, passthroughHosts, mcpHosts, Refs
  <1>3. \A h \in H : \E m \in spec.mcp : m.host = h
    OBVIOUS
  <1>4. \A h \in credentialHosts(spec) : ~ domainCovered(h, Covered(spec))
    BY DEF credentialHosts, mcpHosts
  <1>5. \A h \in passthroughHosts(spec) : ~ domainCovered(h, Covered(spec))
    <2> TAKE h \in passthroughHosts(spec)
    <2>1. ~ domainCovered(h, Covered(spec) \cup credentialHosts(spec))
      BY DEF passthroughHosts, mcpHosts
    <2> QED
      BY <2>1 DEF domainCovered
  <1> HIDE DEF H
  <1>6. IsFiniteSet(credentialHosts(spec)) /\ IsFiniteSet(passthroughHosts(spec))
    BY <1>1, <1>2, FS_Subset
  <1> QED
    BY <1>2, <1>3, <1>4, <1>5, <1>6

\* Placed routes of hosts of MCP servers, one for each.
LEMMA HostsPart ==
  ASSUME NEW spec, NEW group \in Nat, NEW S, IsFiniteSet(S), NEW f, DOMAIN f = S,
         \A h \in S : /\ f[h].at = <<group, 0>> /\ f[h].route.domain = h
                      /\ ServerRoute(spec, f[h].route)
  PROVE  Part(spec, {f[h] : h \in S}, group)
  <1> DEFINE P == {f[h] : h \in S}
  <1>1. IsFiniteSet(P)
    BY FiniteImage
  <1>2. \A x \in P : \E h \in S : /\ x = f[h] /\ x.at = <<group, 0>> /\ x.route.domain = h
                                  /\ ServerRoute(spec, x.route)
    OBVIOUS
  <1> HIDE DEF P
  <1>3. \A x \in P : (\E n \in Nat : x.at = <<group, n>>) /\ Accounted(spec, x.route)
    <2>1. 0 \in Nat
      OBVIOUS
    <2> QED
      BY <1>2, <2>1, Zenon DEF Accounted
  <1>4. \A x, y \in P : x.at = y.at /\ x.route.domain = y.route.domain => x = y
    <2> TAKE x, y \in P
    <2>1. PICK h \in S : x = f[h] /\ x.route.domain = h
      BY <1>2, Zenon
    <2>2. PICK k \in S : y = f[k] /\ y.route.domain = k
      BY <1>2, Zenon
    <2> QED
      BY <2>1, <2>2, Zenon
  <1>5. Part(spec, P, group)
    BY <1>1, <1>3, <1>4 DEF Part
  <1> QED
    BY <1>5 DEF P

\* ... those of MCP servers without a credential, ...
LEMMA PassthroughPart ==
  ASSUME NEW spec, WellFormed(spec)
  PROVE  Part(spec, {Placed(3, 0, Passthrough(h)) : h \in passthroughHosts(spec)}, 3)
  <1> DEFINE S == passthroughHosts(spec)
             f == [h \in S |-> Placed(3, 0, Passthrough(h))]
  <1>1. ASSUME NEW h \in S
        PROVE  f[h].at = <<3, 0>> /\ f[h].route.domain = h /\ ServerRoute(spec, f[h].route)
    <2>1. f[h].at = <<3, 0>> /\ f[h].route = Passthrough(h)
      BY DEF Placed
    <2> HIDE DEF f
    <2>2. /\ f[h].route.domain = h /\ f[h].route.injector = "none" /\ f[h].route.cred = None
          /\ f[h].route.prefix = "" /\ f[h].route.paths = <<>>
      BY <2>1, PassthroughFacts, Zenon
    <2>3. ~ domainCovered(h, Covered(spec)) /\ \E m \in spec.mcp : m.host = h
      BY HostsOfServers
    <2>4. ServerRoute(spec, f[h].route)
      BY <2>2, <2>3, TypesFacts, Zenon DEF ServerRoute
    <2> QED
      BY <2>1, <2>2, <2>4
  <1>2. IsFiniteSet(S) /\ DOMAIN f = S
    BY HostsOfServers
  <1>3. {Placed(3, 0, Passthrough(h)) : h \in S} = {f[h] : h \in S}
    OBVIOUS
  <1> HIDE DEF f, S
  <1>4. Part(spec, {f[h] : h \in S}, 3)
    BY <1>1, <1>2, HostsPart
  <1> QED
    BY <1>3, <1>4 DEF S

\* The fields of the route that borrows a credential for an MCP server.
LEMMA McpRoute ==
  ASSUME NEW c, NEW h
  PROVE  /\ mcpCredentialRoute(c, h).domain = h /\ mcpCredentialRoute(c, h).prefix = ""
         /\ mcpCredentialRoute(c, h).paths = <<>>
         /\ mcpCredentialRoute(c, h).injector = IF c.type = "kubernetes" THEN "" ELSE c.type
         /\ mcpCredentialRoute(c, h).cred = IF c.type = "none" THEN None ELSE c.name
  BY DEF mcpCredentialRoute, buildCredentialRoute, Route

\* Each of the credentials is sound and has typed fields.
LEMMA ToSetFacts ==
  ASSUME NEW spec, WellFormed(spec), NEW c \in ToSet(resolveCredentials(spec))
  PROVE  /\ Sound(c) /\ c.type \in Types /\ c.domain \in Names /\ c.clusters \in SUBSET Names
         /\ c.paths \in Seq(Seq(STRING))
  <1>1. Sound(c)
    BY ResolvedFacts DEF ToSet
  <1>2. c \in Resolved
    BY <1>1 DEF Sound
  <1> QED
    BY <1>1, <1>2 DEF Resolved

\* ... those of MCP servers with one, ...
LEMMA CredentialHostsPart ==
  ASSUME NEW spec, WellFormed(spec), NEW server \in FirstServers(spec),
         \A m \in Refs(spec) : \E c \in ToSet(resolveCredentials(spec)) : c.name = m.ref
  PROVE  Part(spec, {Placed(2, 0, mcpCredentialRoute(credByName(spec, server[h].ref), h))
                        : h \in credentialHosts(spec)}, 2)
  <1> DEFINE S == credentialHosts(spec)
             f == [h \in S |-> Placed(2, 0, mcpCredentialRoute(credByName(spec, server[h].ref), h))]
  <1>1. ASSUME NEW h \in S
        PROVE  f[h].at = <<2, 0>> /\ f[h].route.domain = h /\ ServerRoute(spec, f[h].route)
    <2> DEFINE c == credByName(spec, server[h].ref)
    <2>1. f[h].at = <<2, 0>> /\ f[h].route = mcpCredentialRoute(c, h)
      BY DEF Placed
    <2> HIDE DEF f
    <2>2. server[h] \in Refs(spec) /\ server[h].host = h
      BY DEF FirstServers
    <2>3. server[h] \in spec.mcp
      BY <2>2 DEF Refs
    <2>4. c \in ToSet(resolveCredentials(spec)) /\ c.name = server[h].ref
      BY <2>2 DEF credByName
    <2> HIDE DEF c
    <2>5. c.type \in Types
      BY <2>4, ToSetFacts
    <2> DEFINE injector == IF c.type = "kubernetes" THEN "" ELSE c.type
               cred == IF c.type = "none" THEN None ELSE c.name
    <2>6. /\ f[h].route.domain = h /\ f[h].route.prefix = "" /\ f[h].route.paths = <<>>
          /\ f[h].route.injector = injector /\ f[h].route.cred = cred
      <3> DEFINE r == mcpCredentialRoute(c, h)
      <3>1. r.domain = h /\ r.prefix = "" /\ r.paths = <<>> /\ r.injector = injector /\ r.cred = cred
        BY McpRoute
      <3>2. f[h].route = r
        BY <2>1
      <3> HIDE DEF r, injector, cred
      <3> QED
        BY <3>1, <3>2, Zenon
    <2>7. f[h].route.injector \in Types /\ (f[h].route.injector = "none" => f[h].route.cred = None)
      BY <2>5, <2>6, TypesFacts
    <2>8. f[h].route.cred = None \/ f[h].route.cred = c.name
      BY <2>6
    <2>9. ~ domainCovered(h, Covered(spec))
      BY HostsOfServers
    <2>10. ServerRoute(spec, f[h].route)
      BY <2>2, <2>3, <2>4, <2>6, <2>7, <2>8, <2>9, Zenon DEF ServerRoute
    <2> QED
      BY <2>1, <2>6, <2>10
  <1>2. IsFiniteSet(S) /\ DOMAIN f = S
    BY HostsOfServers
  <1>3. {Placed(2, 0, mcpCredentialRoute(credByName(spec, server[h].ref), h)) : h \in S} = {f[h] : h \in S}
    OBVIOUS
  <1> HIDE DEF f, S
  <1>4. Part(spec, {f[h] : h \in S}, 2)
    BY <1>1, <1>2, HostsPart
  <1> QED
    BY <1>3, <1>4 DEF S

\* ... and those of each credential.
LEMMA CredentialPart ==
  ASSUME NEW spec, WellFormed(spec), NEW c \in ToSet(resolveCredentials(spec)), NEW g \in Nat
  PROVE  Part(spec, RoutesOf(c, g), g)
  <1> DEFINE P == RoutesOf(c, g)
  <1>1. Sound(c)
    BY ToSetFacts
  <1>2. CASE c.type = "kubernetes"
    <2>1. /\ IsFiniteSet(P) /\ \A x \in P : x.at = <<g, 0>> /\ ClusterRoute(c, x.route)
          /\ \A x, y \in P : x.route.domain = y.route.domain => x = y
      BY <1>1, <1>2, ClusterRoutes
    <2> HIDE DEF P
    <2>2. \A x \in P : Accounted(spec, x.route)
      BY <2>1, Zenon DEF Accounted, CredentialRoute
    <2>3. Part(spec, P, g)
      BY <2>1, <2>2 DEF Part
    <2> QED
      BY <2>3 DEF P
  <1>3. CASE c.type # "kubernetes"
    <2>1. /\ IsFiniteSet(P)
          /\ \A x \in P : (\E n \in Nat : x.at = <<g, n>>) /\ (OwnRoute(c, x.route) \/ CompanionRoute(c, x.route))
          /\ \A x, y \in P : x.at = y.at => x = y
      BY <1>1, <1>3, OwnRoutes
    <2> HIDE DEF P
    <2>2. \A x \in P : Accounted(spec, x.route)
      BY <2>1, Zenon DEF Accounted, CredentialRoute
    <2>3. Part(spec, P, g)
      BY <2>1, <2>2 DEF Part
    <2> QED
      BY <2>3 DEF P
  <1> QED
    BY <1>2, <1>3

\* The host of a URL is no suffix domain.
LEMMA HostNameFacts ==
  ASSUME NEW h, IsHostName(h)
  PROVE  ~ IsSuffixDomain(h) /\ h.port = 0
  <1>1. 1 \in DOMAIN h.name /\ h.name[1] \in Labels
    BY DEF IsHostName
  <1> QED
    BY <1>1 DEF IsHostName, IsSuffixDomain, Labels

\* A route that is accounted for can be sorted, and carries no credential when it
\* injects none.
LEMMA AccountedFacts ==
  ASSUME NEW spec, WellFormed(spec), NEW r, Accounted(spec, r)
  PROVE  /\ Sortable(r) /\ IsDomain(r.domain) /\ (r.injector = "none" => r.cred = None)
         /\ r.paths \in Seq(Seq(STRING))
  <1>0. <<>> \in Seq(Seq(STRING))
    BY EmptySeq
  <1>1. CASE BuiltinRoute(spec, r)
    BY <1>1, BuiltinsType, TypesFacts DEF BuiltinRoute, Sortable, IsDomain
  <1>2. CASE SearchRoute(spec, r)
    BY <1>0, <1>2 DEF WellFormed, SearchRoute, Sortable, IsDomain
  <1>3. CASE ServerRoute(spec, r)
    <2>1. r.domain \in Names /\ IsHostName(r.domain)
      BY <1>3 DEF WellFormed, ServerRoute
    <2> QED
      BY <1>0, <1>3, <2>1, HostNameFacts DEF ServerRoute, Sortable, IsDomain
  <1>4. CASE CredentialRoute(spec, r)
    <2>1. PICK c \in ToSet(resolveCredentials(spec)) :
             ClusterRoute(c, r) \/ OwnRoute(c, r) \/ CompanionRoute(c, r)
      BY <1>4 DEF CredentialRoute
    <2>2. /\ Sound(c) /\ c.type \in Types /\ c.domain \in Names /\ c.clusters \in SUBSET Names
          /\ c.paths \in Seq(Seq(STRING))
      BY ToSetFacts
    <2>3. CASE ClusterRoute(c, r)
      BY <1>0, <2>2, <2>3, TypesFacts DEF ClusterRoute, Sound, Sortable, IsDomain
    <2>4. CASE OwnRoute(c, r)
      BY <2>2, <2>4 DEF OwnRoute, Sound, Sortable
    <2>5. CASE CompanionRoute(c, r)
      BY <1>0, <2>5, TypesFacts DEF CompanionRoute, Sortable
    <2> QED
      BY <2>1, <2>3, <2>4, <2>5
  <1> QED
    BY <1>1, <1>2, <1>3, <1>4 DEF Accounted

Parts(spec, S, P, U) ==
    /\ IsFiniteSet(S) /\ S \subseteq Nat /\ DOMAIN P = S
    /\ \A g \in S : Part(spec, P[g], g)
    /\ \A x : x \in U <=> \E g \in S : x \in P[g]

\* Parts of different groups make an orderable whole.
LEMMA PartsTogether ==
  ASSUME NEW spec, WellFormed(spec), NEW S, NEW P, NEW U, Parts(spec, S, P, U)
  PROVE  Orderable(U) /\ \A x \in U : Accounted(spec, x.route)
  <1> USE DEF Parts
  <1> DEFINE Ps == {P[g] : g \in S}
  <1>1. IsFiniteSet(U)
    <2>1. IsFiniteSet(Ps)
      BY FiniteImage
    <2>2. \A T \in Ps : IsFiniteSet(T)
      BY DEF Part
    <2> HIDE DEF Ps
    <2>3. IsFiniteSet(UNION Ps)
      BY <2>1, <2>2, FS_UNION
    <2>4. U = UNION Ps
      BY Zenon DEF Ps
    <2> QED
      BY <2>3, <2>4
  <1>2. \A x \in U : \E g \in S : x \in P[g]
    OBVIOUS
  <1>3. \A x \in U : Accounted(spec, x.route) /\ x.at \in Nat \X Nat
    <2> TAKE x \in U
    <2>1. PICK g \in S : x \in P[g]
      BY <1>2
    <2>2. PICK n \in Nat : x.at = <<g, n>>
      BY <2>1 DEF Part
    <2>3. x.at \in Nat \X Nat
      <3>1. g \in Nat
        OBVIOUS
      <3> QED
        BY <2>2, <3>1
    <2>4. Accounted(spec, x.route)
      BY <2>1 DEF Part
    <2> QED
      BY <2>3, <2>4
  <1>4. \A x \in U : Sortable(x.route)
    BY <1>3, AccountedFacts
  <1>5. \A x, y \in U : x.at = y.at /\ x.route.domain = y.route.domain => x = y
    <2> SUFFICES ASSUME NEW x \in U, NEW y \in U, x.at = y.at, x.route.domain = y.route.domain PROVE x = y
      BY Zenon
    <2>1. PICK g \in S : x \in P[g]
      BY <1>2
    <2>2. PICK k \in S : y \in P[k]
      BY <1>2
    <2>3. PICK n \in Nat : x.at = <<g, n>>
      BY <2>1 DEF Part
    <2>4. PICK m \in Nat : y.at = <<k, m>>
      BY <2>2 DEF Part
    <2>5. g = k
      <3>1. <<g, n>> = <<k, m>>
        BY <2>3, <2>4, Zenon
      <3> QED
        BY <3>1
    <2>6. y \in P[g]
      BY <2>2, <2>5
    <2> QED
      BY <2>1, <2>6, Zenon DEF Part
  <1>6. Orderable(U)
    BY <1>1, <1>3, <1>4, <1>5, Zenon DEF Orderable
  <1> QED
    BY <1>3, <1>6

\* What is appended can be ordered and is accounted for, and every credential has
\* its routes there.
LEMMA PlacedFacts ==
  ASSUME NEW spec, WellFormed(spec), NEW server \in FirstServers(spec),
         \A m \in Refs(spec) : \E c \in ToSet(resolveCredentials(spec)) : c.name = m.ref
  PROVE  /\ Orderable(PlacedRoutes(spec, server))
         /\ \A x \in PlacedRoutes(spec, server) : Accounted(spec, x.route)
         /\ \A c \in ToSet(resolveCredentials(spec)) :
               \E g \in Nat : RoutesOf(c, g) \subseteq PlacedRoutes(spec, server)
  <1> DEFINE creds == resolveCredentials(spec)
             A0 == {Placed(0, i, [Passthrough(Builtins[i].domain) EXCEPT !.paths = Builtins[i].paths])
                      : i \in builtinRoutes(spec)}
             A1 == {Placed(1, 0, webSearchRoute(spec.search)) : d \in searchDomains(spec)}
             A2 == {Placed(2, 0, mcpCredentialRoute(credByName(spec, server[h].ref), h))
                      : h \in credentialHosts(spec)}
             A3 == {Placed(3, 0, Passthrough(h)) : h \in passthroughHosts(spec)}
             n == Len(creds)
             S == 0..(3 + n)
             P == [g \in S |-> IF g = 0 THEN A0 ELSE IF g = 1 THEN A1 ELSE IF g = 2 THEN A2
                               ELSE IF g = 3 THEN A3 ELSE RoutesOf(creds[g - 3], g)]
             U == UNION {P[g] : g \in S}
             L == UNION {RoutesOf(creds[i], 3 + i) : i \in DOMAIN creds}
  <1>1. n \in Nat /\ DOMAIN creds = 1..n
    BY ResolvedFacts
  <1>2. Part(spec, A0, 0) /\ Part(spec, A1, 1) /\ Part(spec, A2, 2) /\ Part(spec, A3, 3)
    BY BuiltinPart, SearchPart, CredentialHostsPart, PassthroughPart
  <1>3. PlacedRoutes(spec, server) = A0 \cup A1 \cup A2 \cup A3 \cup L
    BY DEF PlacedRoutes
  <1>4. \A i \in 1..n : creds[i] \in ToSet(creds)
    BY <1>1 DEF ToSet
  <1> HIDE DEF A0, A1, A2, A3, creds, n
  <1>5. ASSUME NEW g \in S PROVE Part(spec, P[g], g)
    <2>1. CASE g \in 0..3
      BY <1>2, <2>1
    <2>2. CASE g \notin 0..3
      <3>1. g - 3 \in 1..n /\ g \in Nat /\ P[g] = RoutesOf(creds[g - 3], g)
        BY <1>1, <2>2
      <3>2. creds[g - 3] \in ToSet(creds)
        BY <1>4, <3>1
      <3>3. Part(spec, RoutesOf(creds[g - 3], g), g)
        BY <3>1, <3>2, CredentialPart DEF creds
      <3> QED
        BY <3>1, <3>3
    <2> QED
      BY <2>1, <2>2
  <1>6. IsFiniteSet(S) /\ S \subseteq Nat /\ DOMAIN P = S
    BY <1>1, FS_Interval
  <1>7. U = A0 \cup A1 \cup A2 \cup A3 \cup L
    <2>1. /\ 0 \in S /\ 1 \in S /\ 2 \in S /\ 3 \in S
          /\ P[0] = A0 /\ P[1] = A1 /\ P[2] = A2 /\ P[3] = A3
      BY <1>1
    <2>2. \A i \in DOMAIN creds : 3 + i \in S /\ P[3 + i] = RoutesOf(creds[i], 3 + i)
      <3> TAKE i \in DOMAIN creds
      <3>1. 3 + i \in S /\ 3 + i \notin 0..3 /\ (3 + i) - 3 = i
        BY <1>1
      <3> QED
        BY <3>1
    <2>3. \A g \in S : g \in 0..3 \/ (g - 3 \in DOMAIN creds /\ 3 + (g - 3) = g)
      BY <1>1
    <2>4. \A g \in S : g \in {0, 1, 2, 3} \/ (g - 3 \in DOMAIN creds /\ P[g] = RoutesOf(creds[g - 3], 3 + (g - 3)))
      BY <2>2, <2>3
    <2> HIDE DEF P, S
    <2>5. ASSUME NEW x \in U PROVE x \in A0 \cup A1 \cup A2 \cup A3 \cup L
      <3>1. PICK g \in S : x \in P[g]
        OBVIOUS
      <3>2. CASE g \in {0, 1, 2, 3}
        BY <2>1, <3>1, <3>2
      <3>3. CASE g - 3 \in DOMAIN creds /\ P[g] = RoutesOf(creds[g - 3], 3 + (g - 3))
        <4>1. PICK i \in DOMAIN creds : x \in RoutesOf(creds[i], 3 + i)
          BY <3>1, <3>3, Zenon
        <4>2. x \in L
          BY <4>1, Zenon
        <4> QED
          BY <4>2, Zenon
      <3> QED
        BY <2>4, <3>2, <3>3
    <2>6. ASSUME NEW x \in L PROVE x \in U
      <3>1. PICK i \in DOMAIN creds : x \in RoutesOf(creds[i], 3 + i)
        BY Zenon
      <3>2. 3 + i \in S /\ x \in P[3 + i]
        BY <2>2, <3>1, Zenon
      <3> QED
        BY <3>2, Zenon
    <2>7. A0 \subseteq U /\ A1 \subseteq U /\ A2 \subseteq U /\ A3 \subseteq U
      BY <2>1
    <2> HIDE DEF U, L
    <2> QED
      BY <2>5, <2>6, <2>7, Zenon
  <1>8. Orderable(U) /\ \A x \in U : Accounted(spec, x.route)
    <2>1. \A g \in S : Part(spec, P[g], g)
      BY <1>5
    <2>2. \A x : x \in U <=> \E g \in S : x \in P[g]
      <3> HIDE DEF P, S
      <3> QED
        BY Zenon
    <2> HIDE DEF P, S, U
    <2>3. Parts(spec, S, P, U)
      BY <1>6, <2>1, <2>2 DEF Parts
    <2> QED
      BY <2>3, PartsTogether
  <1>9. \A c \in ToSet(creds) : \E g \in Nat : RoutesOf(c, g) \subseteq L
    <2> TAKE c \in ToSet(creds)
    <2>1. PICK i \in DOMAIN creds : c = creds[i]
      BY DEF ToSet
    <2>2. 3 + i \in Nat
      BY <1>1
    <2>3. RoutesOf(c, 3 + i) \subseteq L
      BY <2>1, Zenon
    <2> QED
      BY <2>2, <2>3
  <1> HIDE DEF U, L
  <1>10. PlacedRoutes(spec, server) = U /\ L \subseteq U
    BY <1>3, <1>7, Zenon
  <1>11. \A c \in ToSet(creds) : \E g \in Nat : RoutesOf(c, g) \subseteq U
    BY <1>9, <1>10, Zenon
  <1> QED
    BY <1>8, <1>10, <1>11 DEF creds

\* The routes of a config: accounted for, and none that a credential needs missing.
GoodRoutes(spec, routes) ==
    /\ \E n \in Nat : DOMAIN routes = 1..n
    /\ \A k \in DOMAIN routes : Accounted(spec, routes[k])
    /\ \A c \in ToSet(resolveCredentials(spec)) :
          /\ (c.type # "kubernetes" /\ c.domain # NoHost) => \E k \in DOMAIN routes : OwnRoute(c, routes[k])
          /\ c.type = "kubernetes" => \A s \in c.clusters : \E k \in DOMAIN routes : routes[k].domain = s

\* What generateProxyConfig returns for a Claw.
LEMMA ConfigFacts ==
  ASSUME NEW spec, WellFormed(spec), NEW routes \in generateProxyConfig(spec)
  PROVE  GoodRoutes(spec, routes)
  <1>1. \A m \in Refs(spec) : \E c \in ToSet(resolveCredentials(spec)) : c.name = m.ref
    BY DEF generateProxyConfig
  <1>2. PICK f \in FirstServers(spec) : routes = SortRoutes(PlacedRoutes(spec, f))
    BY <1>1 DEF generateProxyConfig
  <1> DEFINE placed == PlacedRoutes(spec, f)
  <1>3. /\ Orderable(placed) /\ \A x \in placed : Accounted(spec, x.route)
        /\ \A c \in ToSet(resolveCredentials(spec)) : \E g \in Nat : RoutesOf(c, g) \subseteq placed
    BY <1>1, PlacedFacts
  <1>4. routes = SortRoutes(placed)
    BY <1>2
  <1> HIDE DEF placed
  <1>5. /\ Cardinality(placed) \in Nat /\ DOMAIN routes = 1..Cardinality(placed)
        /\ \A k \in DOMAIN routes : \E x \in placed : routes[k] = x.route
        /\ \A x \in placed : \E k \in DOMAIN routes : routes[k] = x.route
    BY <1>3, <1>4, SortedRoutes
  <1>6. \A k \in DOMAIN routes : Accounted(spec, routes[k])
    BY <1>3, <1>5, Zenon
  <1>7. ASSUME NEW c \in ToSet(resolveCredentials(spec)), c.type # "kubernetes", c.domain # NoHost
        PROVE  \E k \in DOMAIN routes : OwnRoute(c, routes[k])
    <2>1. PICK g \in Nat : RoutesOf(c, g) \subseteq placed
      BY <1>3
    <2>2. PICK x \in RoutesOf(c, g) : OwnRoute(c, x.route)
      BY <1>7, ToSetFacts, OwnRoutes
    <2> QED
      BY <1>5, <2>1, <2>2, Zenon
  <1>8. ASSUME NEW c \in ToSet(resolveCredentials(spec)), c.type = "kubernetes", NEW s \in c.clusters
        PROVE  \E k \in DOMAIN routes : routes[k].domain = s
    <2>1. PICK g \in Nat : RoutesOf(c, g) \subseteq placed
      BY <1>3
    <2>2. PICK x \in RoutesOf(c, g) : x.route.domain = s
      BY <1>8, ToSetFacts, ClusterRoutes
    <2> QED
      BY <1>5, <2>1, <2>2, Zenon
  <1> QED
    BY <1>5, <1>6, <1>7, <1>8 DEF GoodRoutes

-----------------------------------------------------------------------------
(* Choosing a route *)

\* The routes of the best tier, and what keeps a route out of it.
LEMMA TierFacts ==
  ASSUME NEW routes, NEW h, NEW i \in matchingRoutes(routes, h)
  PROVE  /\ i \in DOMAIN routes /\ domainMatches(routes[i].domain, h)
         /\ \A k \in DOMAIN routes :
               /\ routes[k].domain = routes[i].domain => k \in matchingRoutes(routes, h)
               /\ ( /\ domainMatches(routes[k].domain, h)
                    /\ ~ IsSuffixDomain(routes[k].domain) /\ routes[k].domain.port # 0 ) =>
                        routes[i].domain.port # 0
  <1> DEFINE matches == {k \in DOMAIN routes : domainMatches(routes[k].domain, h)}
             suffix == {k \in matches : IsSuffixDomain(routes[k].domain)}
             portExact == {k \in matches \ suffix : routes[k].domain.port # 0}
             exact == matches \ (suffix \cup portExact)
  <1>1. matchingRoutes(routes, h) =
           IF portExact # {} THEN portExact ELSE IF exact # {} THEN exact ELSE suffix
    BY DEF matchingRoutes
  <1>2. \/ portExact # {} /\ matchingRoutes(routes, h) = portExact
        \/ portExact = {} /\ matchingRoutes(routes, h) = exact
        \/ portExact = {} /\ matchingRoutes(routes, h) = suffix
    BY <1>1
  <1>3. i \in matches
    BY <1>2
  <1>4. ASSUME NEW k \in DOMAIN routes, routes[k].domain = routes[i].domain
        PROVE  k \in matchingRoutes(routes, h)
    <2>1. k \in matches
      BY <1>3, <1>4
    <2>2. /\ k \in suffix <=> i \in suffix
          /\ k \in portExact <=> i \in portExact
          /\ k \in exact <=> i \in exact
      BY <1>3, <1>4, <2>1
    <2> HIDE DEF portExact, exact, suffix
    <2> QED
      BY <1>2, <2>2
  <1>5. ASSUME NEW k \in DOMAIN routes, domainMatches(routes[k].domain, h),
               ~ IsSuffixDomain(routes[k].domain), routes[k].domain.port # 0
        PROVE  routes[i].domain.port # 0
    <2>1. k \in portExact
      BY <1>5
    <2>2. i \in portExact
      BY <1>2, <2>1
    <2> QED
      BY <2>2
  <1> QED
    BY <1>3, <1>4, <1>5

\* The length of an entry is a number.
LEMMA EntryLenType ==
  ASSUME NEW e \in Seq(STRING)
  PROVE  EntryLen(e) \in Nat
  <1> DEFINE D == {k \in DOMAIN e : e[k] # ""}
  <1>1. PICK n \in Nat : n = Len(e) /\ DOMAIN e = 1..n
    OBVIOUS
  <1>2. IsFiniteSet(1..n) /\ D \in SUBSET (1..n)
    <2>1. IsFiniteSet(1..n)
      BY FS_Interval
    <2> QED
      BY <1>1, <2>1
  <1> HIDE DEF D
  <1>3. Cardinality(D) \in Nat
    BY <1>2, FS_Subset, FS_CardinalityType
  <1>4. EntryLen(e) = n + Cardinality(D)
    BY <1>1 DEF EntryLen, D
  <1> QED
    BY <1>3, <1>4

\* The lengths of the entries that match a path.
Lengths(r, p) == {EntryLen(e) : e \in {e \in ToSet(r.paths) : pathEntryMatches(p, e)}}

\* Finitely many entries match a path.
LEMMA LengthsFacts ==
  ASSUME NEW r, NEW p, r.paths \in Seq(Seq(STRING))
  PROVE  IsFiniteSet(Lengths(r, p)) /\ Lengths(r, p) \subseteq Nat
  <1> DEFINE E == {e \in ToSet(r.paths) : pathEntryMatches(p, e)}
             f == [e \in E |-> EntryLen(e)]
  <1>1. \A e \in ToSet(r.paths) : e \in Seq(STRING)
    BY DEF ToSet
  <1>2. Lengths(r, p) \subseteq Nat
    BY <1>1, EntryLenType DEF Lengths
  <1>3. PICK n \in Nat : DOMAIN r.paths = 1..n
    OBVIOUS
  <1>4. IsFiniteSet(1..n)
    BY FS_Interval
  <1>5. IsFiniteSet({r.paths[k] : k \in 1..n})
    BY <1>3, <1>4, FiniteImage
  <1>6. E \in SUBSET {r.paths[k] : k \in 1..n}
    BY <1>3 DEF ToSet
  <1>7. IsFiniteSet(E)
    BY <1>5, <1>6, FS_Subset
  <1>8. Lengths(r, p) = {f[e] : e \in E} /\ DOMAIN f = E
    BY DEF Lengths
  <1> HIDE DEF f, E
  <1>9. IsFiniteSet(Lengths(r, p))
    BY <1>7, <1>8, FiniteImage
  <1> QED
    BY <1>2, <1>9

\* Min chooses from a set of positions.
LEMMA MinChoice ==
  ASSUME NEW T, T # {}, NEW n \in Nat, T \subseteq 1..n
  PROVE  Min(T) \in T
  <1>1. T \subseteq Nat
    OBVIOUS
  <1> QED
    BY <1>1, MinElement

\* MatchRoute answers with a route of the best tier; when entries of several match
\* the path, with one whose longest entry is as long as any.
LEMMA MatchRouteFacts ==
  ASSUME NEW routes, NEW n \in Nat, DOMAIN routes = 1..n,
         \A k \in DOMAIN routes : routes[k].paths \in Seq(Seq(STRING)),
         NEW h, NEW p, MatchRoute(routes, h, p) # 0
  PROVE  LET i == MatchRoute(routes, h, p)
         IN  /\ i \in matchingRoutes(routes, h)
             /\ p # <<>> =>
                  \A k \in matchingRoutes(routes, h) : \A m \in Lengths(routes[k], p) :
                      \E l \in Lengths(routes[i], p) : l >= m
  <1> DEFINE i == MatchRoute(routes, h, p)
             matches == matchingRoutes(routes, h)
             lengths(k) == Lengths(routes[k], p)
             allowing == {k \in matches : lengths(k) # {}}
             best == {k \in allowing : \A j \in allowing : \A m \in lengths(j) : \E l \in lengths(k) : l >= m}
             catchAll == {k \in matches : routes[k].paths = <<>>}
  <1>1. i = IF matches = {} THEN 0
            ELSE IF Cardinality(matches) = 1 \/ p = <<>> THEN Min(matches)
            ELSE IF best # {} THEN Min(best)
            ELSE IF catchAll # {} THEN Min(catchAll)
            ELSE 0
    BY DEF MatchRoute, Lengths
  <1>2. matches \subseteq 1..n
    BY TierFacts
  <1>3. \A k \in matches : IsFiniteSet(lengths(k)) /\ lengths(k) \subseteq Nat
    BY <1>2, LengthsFacts
  <1>4. IsFiniteSet(matches)
    <2>1. IsFiniteSet(1..n)
      BY FS_Interval
    <2>2. matches \in SUBSET (1..n)
      BY <1>2
    <2> QED
      BY <2>1, <2>2, FS_Subset
  <1> HIDE DEF i, matches, lengths
  <1>5. allowing # {} => best # {}
    <2> SUFFICES ASSUME allowing # {} PROVE best # {}
      OBVIOUS
    <2> DEFINE f == [k \in allowing |-> lengths(k)]
               Ls == {f[k] : k \in allowing}
               U == UNION Ls
    <2>1. allowing \in SUBSET matches
      OBVIOUS
    <2>2. IsFiniteSet(allowing)
      BY <1>4, <2>1, FS_Subset
    <2>3. IsFiniteSet(Ls)
      <3>1. DOMAIN f = allowing
        OBVIOUS
      <3> HIDE DEF f, allowing
      <3> QED
        BY <2>2, <3>1, FiniteImage
    <2>4. \A T \in Ls : IsFiniteSet(T) /\ T \subseteq Nat /\ T # {}
      BY <1>3
    <2>5. IsFiniteSet(U)
      <3> HIDE DEF Ls
      <3> QED
        BY <2>3, <2>4, FS_UNION
    <2>6. U \subseteq Nat
      <3> HIDE DEF Ls
      <3> QED
        BY <2>4
    <2>7. PICK a \in allowing : TRUE
      OBVIOUS
    <2>8. U # {}
      <3>1. f[a] \in Ls /\ f[a] # {}
        BY <2>7
      <3> HIDE DEF Ls, f
      <3> QED
        BY <3>1
    <2>9. PICK top \in U : \A x \in U : x <= top
      <3> HIDE DEF U
      <3> QED
        BY <2>5, <2>6, <2>8, GreatestElement
    <2>10. PICK k \in allowing : top \in lengths(k)
      OBVIOUS
    <2>11. \A j \in allowing : lengths(j) \subseteq U
      OBVIOUS
    <2> HIDE DEF U
    <2>12. \A j \in allowing : \A m \in lengths(j) : m <= top /\ m \in Nat /\ top \in Nat
      BY <2>6, <2>9, <2>11
    <2>13. \A j \in allowing : \A m \in lengths(j) : top >= m
      BY <2>12
    <2>14. k \in best
      <3> HIDE DEF allowing
      <3> QED
        BY <2>10, <2>13
    <2> QED
      BY <2>14
  <1>6. CASE p = <<>>
    <2>1. i = Min(matches) /\ matches # {}
      BY <1>1, <1>6 DEF i
    <2>2. i \in matches
      BY <1>2, <2>1, MinChoice
    <2> QED
      BY <1>6, <2>2 DEF i, matches
  <1>7. CASE p # <<>> /\ Cardinality(matches) = 1
    <2>1. i = Min(matches) /\ matches # {}
      BY <1>1, <1>7 DEF i
    <2>2. i \in matches
      BY <1>2, <2>1, MinChoice
    <2>3. PICK x : matches = {x}
      BY <1>4, <1>7, FS_Singleton
    <2>4. \A k \in matches : k = i
      BY <2>2, <2>3
    <2>5. \A k \in matches : \A m \in lengths(k) : m \in lengths(i) /\ m >= m
      BY <1>3, <2>4
    <2>6. \A k \in matches : \A m \in lengths(k) : \E l \in lengths(i) : l >= m
      BY <2>5, Zenon
    <2> QED
      BY <2>2, <2>6 DEF i, matches, lengths
  <1>8. CASE p # <<>> /\ Cardinality(matches) # 1
    <2>1. CASE best # {}
      <3>1. i = Min(best) /\ best \subseteq 1..n
        BY <1>1, <1>2, <1>8, <2>1 DEF i
      <3>2. i \in best
        <4> HIDE DEF best
        <4> QED
          BY <2>1, <3>1, MinChoice
      <3>3. \A k \in matches : \A m \in lengths(k) : \E l \in lengths(i) : l >= m
        BY <3>2
      <3> QED
        BY <3>2, <3>3 DEF i, matches, lengths
    <2>2. CASE best = {}
      <3>1. \A k \in matches : lengths(k) = {}
        BY <1>5, <2>2
      <3>2. i = Min(catchAll) /\ catchAll # {} /\ catchAll \subseteq 1..n
        BY <1>1, <1>2, <1>8, <2>2 DEF i
      <3>3. i \in catchAll
        <4> HIDE DEF catchAll
        <4> QED
          BY <3>2, MinChoice
      <3> QED
        BY <3>1, <3>3 DEF i, matches, lengths
    <2> QED
      BY <2>1, <2>2
  <1> QED
    BY <1>6, <1>7, <1>8

\* A tier without path restrictions has a route for every path.
LEMMA OpenTier ==
  ASSUME NEW routes, NEW n \in Nat, DOMAIN routes = 1..n, NEW h, NEW p,
         matchingRoutes(routes, h) # {}, \A k \in matchingRoutes(routes, h) : routes[k].paths = <<>>
  PROVE  MatchRoute(routes, h, p) # 0
  <1> DEFINE i == MatchRoute(routes, h, p)
             matches == matchingRoutes(routes, h)
             allowing == {k \in matches : Lengths(routes[k], p) # {}}
             best == {k \in allowing : \A j \in allowing : \A m \in Lengths(routes[j], p) :
                                           \E l \in Lengths(routes[k], p) : l >= m}
             catchAll == {k \in matches : routes[k].paths = <<>>}
  <1>1. i = IF matches = {} THEN 0
            ELSE IF Cardinality(matches) = 1 \/ p = <<>> THEN Min(matches)
            ELSE IF best # {} THEN Min(best)
            ELSE IF catchAll # {} THEN Min(catchAll)
            ELSE 0
    BY DEF MatchRoute, Lengths
  <1>2. matches \subseteq 1..n
    BY TierFacts
  <1>3. \A k \in matches : Lengths(routes[k], p) = {}
    <2>1. ToSet(<<>>) = {}
      BY DEF ToSet
    <2> QED
      BY <2>1 DEF Lengths
  <1>4. best = {} /\ catchAll = matches
    BY <1>3
  <1>5. Min(matches) \in matches
    <2> HIDE DEF matches
    <2> QED
      BY <1>2, MinChoice DEF matches
  <1>6. i = Min(matches)
    <2> HIDE DEF i, best, catchAll
    <2> QED
      BY <1>1, <1>4
  <1>7. i \in 1..n
    BY <1>2, <1>5, <1>6
  <1> QED
    BY <1>7

-----------------------------------------------------------------------------
(* The proxy at work *)

Served(routes) ==
    credentialsValid(claw) /\ validateMcpCredentialRefBypass(claw) /\ routes \in generateProxyConfig(claw)

\* What the proxy handler sent on, by the route MatchRoute chose.
SentByProxy ==
    LET i == MatchRoute(proxy.routes, out.host, out.path)
    IN  /\ out.via = "proxy" /\ out.host \in Hosts /\ out.path \in Paths
        /\ i # 0 /\ PathAllowed(proxy.routes[i], out.path) /\ out.cred = proxy.routes[i].cred

\* What the gateway handler sent on, by a route with a prefix.
SentByGateway ==
    /\ out.via = "gateway"
    /\ \E i \in DOMAIN proxy.routes : /\ proxy.routes[i].prefix # ""
                                      /\ out.host = proxy.routes[i].upstream
                                      /\ out.cred = proxy.routes[i].cred

\* The inductive invariant: what is loaded is a config of the Claw, and the
\* connection and the last request are as its routes decide.
Inv ==
    /\ claw \in Claws
    /\ config.set => Served(config.routes)
    /\ proxy.up => Served(proxy.routes)
    /\ conn.mode = "mitm" => conn.host \in Hosts
    /\ conn.mode = "tunnel" => /\ proxy.up /\ conn.host \in Hosts
                               /\ MatchRoute(proxy.routes, conn.host, <<>>) # 0
                               /\ ~ NeedsMITMForHost(proxy.routes, conn.host)
    /\ Sent => proxy.up /\ (SentByProxy \/ SentByGateway)

\* What Serve sends on.
LEMMA ServeFacts ==
  ASSUME NEW i, NEW h, NEW p, NEW via, NEW host, NEW path,
         NEW x \in Serve(i, h, p, via, host, path), x.kind = "forwarded"
  PROVE  x.via = via /\ x.host = host /\ x.path = path /\ x.cred = proxy.routes[i].cred
  <1> DEFINE r == proxy.routes[i]
             sent == [Answer("forwarded", via, i) EXCEPT !.host = host, !.path = path, !.cred = r.cred]
  <1>1. x = sent \/ x = Answer("vended", via, i) \/ x = Answer("badGateway", via, i)
    BY DEF Serve
  <1>2. Answer("vended", via, i).kind = "vended" /\ Answer("badGateway", via, i).kind = "badGateway"
    BY DEF Answer
  <1>3. x = sent
    <2> HIDE DEF sent
    <2> QED
      BY <1>1, <1>2
  <1>4. sent.via = via /\ sent.host = host /\ sent.path = path /\ sent.cred = r.cred
    BY DEF Answer
  <1> HIDE DEF sent
  <1> QED
    BY <1>3, <1>4

\* The answers that send nothing on.
LEMMA AnswerKinds ==
  ASSUME NEW via, NEW i
  PROVE  /\ Answer("blocked", via, i).kind = "blocked" /\ Answer("pathBlocked", via, i).kind = "pathBlocked"
         /\ Answer("healthy", via, i).kind = "healthy" /\ Answer("refused", via, i).kind = "refused"
  BY DEF Answer

\* What the proxy handler sends on, it sends as its routes decide.
LEMMA ProxyAnswersFacts ==
  ASSUME NEW h \in Hosts, NEW p \in Paths, out' \in ProxyAnswers(h, p), proxy' = proxy, Sent'
  PROVE  SentByProxy'
  <1> DEFINE i == MatchRoute(proxy.routes, h, p)
  <1>0. out'.kind = "forwarded"
    BY DEF Sent
  <1>1. \/ out' = Answer("blocked", "proxy", 0)
        \/ out' = Answer("pathBlocked", "proxy", i)
        \/ i # 0 /\ PathAllowed(proxy.routes[i], p) /\ out' \in Serve(i, h, p, "proxy", h, p)
    BY DEF ProxyAnswers
  <1> HIDE DEF i
  <1>2. i # 0 /\ PathAllowed(proxy.routes[i], p) /\ out' \in Serve(i, h, p, "proxy", h, p)
    BY <1>0, <1>1, AnswerKinds
  <1>3. out'.via = "proxy" /\ out'.host = h /\ out'.path = p /\ out'.cred = proxy.routes[i].cred
    BY <1>0, <1>2, ServeFacts
  <1> QED
    BY <1>2, <1>3, Zenon DEF SentByProxy, i

\* Inv holds at first, before there is a config, ...
LEMMA InvInit == Init => Inv
  <1> SUFFICES ASSUME Init PROVE Inv
    OBVIOUS
  <1>1. claw \in Claws /\ config.set = FALSE /\ proxy.up = FALSE
    BY DEF Init
  <1>2. conn.mode = "none" /\ out.kind = "idle"
    BY DEF Init, NoConn, Idle, Answer
  <1> QED
    BY <1>1, <1>2 DEF Inv, Sent

\* ... and no step of the operator, of the proxy or of the gateway's requests breaks it.
LEMMA InvStep == Inv /\ [Next]_vars => Inv'
  <1> SUFFICES ASSUME Inv, [Next]_vars PROVE Inv'
    OBVIOUS
  <1>1. CASE applyProxyResources
    <2>1. UNCHANGED <<claw, proxy, conn, out>>
      BY <1>1 DEF applyProxyResources
    <2>2. config'.set => Served(config.routes)'
      BY <1>1 DEF applyProxyResources, Served
    <2>3. proxy.up => Served(proxy.routes)'
      BY <2>1 DEF Inv, Served
    <2>4. Sent' => proxy'.up /\ (SentByProxy \/ SentByGateway)'
      BY <2>1 DEF Inv, Sent, SentByProxy, SentByGateway
    <2> QED
      BY <2>1, <2>2, <2>3, <2>4 DEF Inv
  <1>2. CASE Start
    <2>1. /\ config.set /\ UNCHANGED <<claw, config>> /\ conn' = NoConn /\ out' = Idle
          /\ \/ proxy' = [up |-> TRUE, routes |-> config.routes]
             \/ proxy' = [up |-> FALSE, routes |-> <<>>]
      BY <1>2 DEF Start
    <2>2. conn'.mode = "none" /\ out'.kind = "idle"
      BY <2>1 DEF NoConn, Idle, Answer
    <2>3. Served(config.routes)'
      BY <2>1 DEF Inv, Served
    <2>4. proxy'.up => Served(proxy.routes)'
      BY <2>1, <2>3 DEF Served
    <2> QED
      BY <2>1, <2>2, <2>3, <2>4 DEF Inv, Sent
  <1>3. ASSUME NEW h \in Hosts, Connect(h) PROVE Inv'
    <2>1. proxy.up /\ UNCHANGED <<claw, config, proxy>> /\ out' = Idle
      BY <1>3 DEF Connect
    <2>2. /\ conn'.host = h
          /\ conn'.mode = "tunnel" => /\ MatchRoute(proxy.routes, h, <<>>) # 0
                                      /\ ~ NeedsMITMForHost(proxy.routes, h)
      BY <1>3 DEF Connect
    <2>3. out'.kind = "idle"
      BY <2>1 DEF Idle, Answer
    <2>4. Served(config.routes)' = Served(config.routes) /\ Served(proxy.routes)' = Served(proxy.routes)
      BY <2>1 DEF Served
    <2> QED
      BY <2>1, <2>2, <2>3, <2>4 DEF Inv, Sent
  <1>4. ASSUME NEW p \in Paths, MitmRequest(p) PROVE Inv'
    <2>1. /\ proxy.up /\ UNCHANGED <<claw, config, proxy, conn>>
          /\ conn.mode = "mitm" /\ out' \in ProxyAnswers(conn.host, p)
      BY <1>4 DEF MitmRequest
    <2>2. conn.host \in Hosts
      BY <2>1 DEF Inv
    <2>3. Sent' => SentByProxy'
      BY <2>1, <2>2, ProxyAnswersFacts
    <2>4. Served(config.routes)' = Served(config.routes) /\ Served(proxy.routes)' = Served(proxy.routes)
      BY <2>1 DEF Served
    <2> QED
      BY <2>1, <2>3, <2>4 DEF Inv
  <1>5. ASSUME NEW h \in Hosts \cup {NoHost}, NEW p \in Paths, Handle(h, p) PROVE Inv'
    <2> DEFINE i == MatchRouteByPath(proxy.routes, p)
    <2>1. proxy.up /\ UNCHANGED <<claw, config, proxy>> /\ conn' = NoConn
      BY <1>5 DEF Handle
    <2>2. \/ out' = Answer("healthy", "", 0)
          \/ i # 0 /\ out' \in serveGateway(i, h, p)
          \/ out' = Answer("refused", "", 0)
          \/ h # NoHost /\ out' \in ProxyAnswers(h, p)
      BY <1>5 DEF Handle
    <2> HIDE DEF i
    <2>3. ASSUME Sent' PROVE (SentByProxy \/ SentByGateway)'
      <3>0. out'.kind = "forwarded"
        BY <2>3 DEF Sent
      <3>1. CASE i # 0 /\ out' \in serveGateway(i, h, p)
        <4> DEFINE matches == {k \in DOMAIN proxy.routes : /\ proxy.routes[k].prefix # ""
                                                           /\ proxy.routes[k].upstream # NoHost
                                                           /\ proxy.routes[k].prefix = p[1]}
        <4>1. matches # {} /\ i = Min(matches)
          BY <3>1 DEF MatchRouteByPath, i
        <4>2. PICK n \in Nat : DOMAIN proxy.routes = 1..n
          BY <2>1, ClawsAssumption, ConfigFacts DEF Inv, Served, GoodRoutes
        <4>3. matches \subseteq 1..n
          BY <4>2
        <4>4. i \in matches
          <5> HIDE DEF matches
          <5> QED
            BY <4>1, <4>3, MinChoice
        <4>5. out' \in Serve(i, h, p, "gateway", proxy.routes[i].upstream, stripPrefix(p))
          BY <3>1 DEF serveGateway
        <4>6. /\ out'.via = "gateway" /\ out'.host = proxy.routes[i].upstream
              /\ out'.cred = proxy.routes[i].cred
          BY <3>0, <4>5, ServeFacts
        <4>7. i \in DOMAIN proxy.routes /\ proxy.routes[i].prefix # ""
          BY <4>4
        <4> QED
          BY <2>1, <4>6, <4>7 DEF SentByGateway
      <3>2. CASE h # NoHost /\ out' \in ProxyAnswers(h, p)
        BY <2>1, <2>3, <3>2, ProxyAnswersFacts
      <3>3. CASE out' = Answer("healthy", "", 0) \/ out' = Answer("refused", "", 0)
        BY <3>0, <3>3, AnswerKinds
      <3> QED
        BY <2>2, <3>1, <3>2, <3>3
    <2>4. conn'.mode = "none"
      BY <2>1 DEF NoConn
    <2>5. Served(config.routes)' = Served(config.routes) /\ Served(proxy.routes)' = Served(proxy.routes)
      BY <2>1 DEF Served
    <2> QED
      BY <2>1, <2>3, <2>4, <2>5 DEF Inv
  <1>6. CASE UNCHANGED vars
    BY <1>6 DEF vars, Inv, Served, Sent, SentByProxy, SentByGateway
  <1> QED
    BY <1>1, <1>2, <1>3, <1>4, <1>5, <1>6 DEF Next

\* The proxy only ever runs on a config of the Claw and does what its routes decide
\* (generateProxyConfig, Start, Connect, ServeHTTP).
THEOREM Invariance == Spec => []Inv
  <1> QED
    BY InvInit, InvStep, PTL DEF Spec

-----------------------------------------------------------------------------
(* The routes that a request may take *)

\* What Inv says of the loaded routes.
LEMMA LoadedFacts ==
  ASSUME Inv, proxy.up
  PROVE  /\ WellFormed(claw) /\ GoodRoutes(claw, proxy.routes)
         /\ \A k \in DOMAIN proxy.routes :
               /\ Accounted(claw, proxy.routes[k]) /\ Sortable(proxy.routes[k])
               /\ IsDomain(proxy.routes[k].domain) /\ proxy.routes[k].paths \in Seq(Seq(STRING))
               /\ proxy.routes[k].injector = "none" => proxy.routes[k].cred = None
         /\ \A c, d \in Creds : c.name = d.name => c = d
  <1>1. WellFormed(claw) /\ Served(proxy.routes)
    BY ClawsAssumption DEF Inv
  <1>2. GoodRoutes(claw, proxy.routes)
    BY <1>1, ConfigFacts DEF Served
  <1>3. \A k \in DOMAIN proxy.routes : Accounted(claw, proxy.routes[k])
    BY <1>2 DEF GoodRoutes
  <1>4. \A k \in DOMAIN proxy.routes :
           /\ Sortable(proxy.routes[k])
           /\ IsDomain(proxy.routes[k].domain) /\ proxy.routes[k].paths \in Seq(Seq(STRING))
           /\ proxy.routes[k].injector = "none" => proxy.routes[k].cred = None
    BY <1>1, <1>3, AccountedFacts
  <1>5. \A c, d \in Creds : c.name = d.name => c = d
    <2> DEFINE s == resolveCredentials(claw)
    <2>1. \A i, j \in DOMAIN s : i # j => s[i].name # s[j].name
      BY <1>1, ResolvedFacts DEF Served
    <2>2. \A c \in Creds : \E i \in DOMAIN s : c = s[i]
      BY DEF Creds, ToSet
    <2> HIDE DEF s
    <2> QED
      BY <2>1, <2>2
  <1> QED
    BY <1>1, <1>2, <1>3, <1>4, <1>5

\* The route of a host, and where it comes from.
LEMMA RouteOfHost ==
  ASSUME Inv, proxy.up, NEW h \in Hosts, NEW p, MatchRoute(proxy.routes, h, p) # 0
  PROVE  LET i == MatchRoute(proxy.routes, h, p)
         IN  /\ i \in matchingRoutes(proxy.routes, h) /\ i \in DOMAIN proxy.routes
             /\ Under(h, proxy.routes[i].domain)
             /\ Accounted(claw, proxy.routes[i])
             /\ p # <<>> =>
                  \A k \in matchingRoutes(proxy.routes, h) : \A m \in Lengths(proxy.routes[k], p) :
                      \E l \in Lengths(proxy.routes[i], p) : l >= m
  <1> DEFINE i == MatchRoute(proxy.routes, h, p)
  <1>1. PICK n \in Nat : DOMAIN proxy.routes = 1..n
    BY LoadedFacts DEF GoodRoutes
  <1>2. \A k \in DOMAIN proxy.routes : proxy.routes[k].paths \in Seq(Seq(STRING))
    BY LoadedFacts
  <1>3. /\ i \in matchingRoutes(proxy.routes, h)
        /\ p # <<>> =>
              \A k \in matchingRoutes(proxy.routes, h) : \A m \in Lengths(proxy.routes[k], p) :
                  \E l \in Lengths(proxy.routes[i], p) : l >= m
    BY <1>1, <1>2, MatchRouteFacts
  <1> HIDE DEF i
  <1>4. i \in DOMAIN proxy.routes /\ domainMatches(proxy.routes[i].domain, h)
    BY <1>3, TierFacts
  <1>5. proxy.routes[i].domain \in Names /\ IsDomain(proxy.routes[i].domain) /\ Accounted(claw, proxy.routes[i])
    BY <1>4, LoadedFacts DEF Sortable
  <1>6. Under(h, proxy.routes[i].domain)
    BY <1>4, <1>5, MatchesUnder, RequestsAssumption
  <1> QED
    BY <1>3, <1>4, <1>5, <1>6 DEF i

\* What CONNECT decides agrees with what is decided for each request.
THEOREM TunnelAlwaysTransparent == Spec => []TunnelTransparent
  <1>1. Inv => TunnelTransparent
    <2> SUFFICES ASSUME Inv, conn.mode = "tunnel", NEW p \in Paths
                 PROVE  LET i == MatchRoute(proxy.routes, conn.host, p)
                        IN  /\ i # 0 /\ PathAllowed(proxy.routes[i], p)
                            /\ proxy.routes[i].cred = None /\ ~ proxy.routes[i].headers
      BY DEF TunnelTransparent
    <2> DEFINE h == conn.host
               i == MatchRoute(proxy.routes, h, p)
    <2>1. /\ proxy.up /\ h \in Hosts /\ MatchRoute(proxy.routes, h, <<>>) # 0
          /\ ~ NeedsMITMForHost(proxy.routes, h)
      BY DEF Inv
    <2>2. \A k \in matchingRoutes(proxy.routes, h) :
             /\ proxy.routes[k].injector = "none" /\ proxy.routes[k].paths = <<>>
             /\ ~ proxy.routes[k].headers
      BY <2>1 DEF NeedsMITMForHost, NeedsMITM
    <2>3. PICK n \in Nat : DOMAIN proxy.routes = 1..n
      BY <2>1, LoadedFacts DEF GoodRoutes
    <2>4. matchingRoutes(proxy.routes, h) # {}
      BY <2>1, RouteOfHost
    <2>5. i # 0
      BY <2>2, <2>3, <2>4, OpenTier
    <2>6. i \in matchingRoutes(proxy.routes, h) /\ i \in DOMAIN proxy.routes
      BY <2>1, <2>5, RouteOfHost
    <2>7. proxy.routes[i].cred = None
      BY <2>1, <2>2, <2>6, LoadedFacts
    <2> HIDE DEF i
    <2>8. PathAllowed(proxy.routes[i], p) /\ ~ proxy.routes[i].headers
      BY <2>2, <2>6 DEF PathAllowed
    <2> QED
      BY <2>5, <2>7, <2>8 DEF i
  <1> QED
    BY <1>1, Invariance, PTL

\* Where a route with a domain over a host may come from, in terms of the Claw.
LEMMA Origin ==
  ASSUME Inv, proxy.up, NEW h \in Hosts, NEW r, Accounted(claw, r), Under(h, r.domain)
  PROVE  \/ BuiltinRoute(claw, r) /\ Open(h)
         \/ SearchRoute(claw, r) /\ Open(h)
         \/ ServerRoute(claw, r) /\ \E m \in claw.mcp : /\ m.host = r.domain /\ m.host.name = h.name
                                                        /\ \/ r.cred = None
                                                           \/ /\ m.ref = r.cred
                                                              /\ \E c \in Creds : c.name = r.cred
         \/ \E c \in Creds : ClusterRoute(c, r) /\ MeantFor(c, h)
         \/ \E c \in Creds : OwnRoute(c, r) /\ MeantFor(c, h)
         \/ Open(h) /\ \E c \in Creds : CompanionRoute(c, r)
  <1>0. WellFormed(claw)
    BY LoadedFacts
  <1>1. CASE BuiltinRoute(claw, r)
    <2>1. Open(h)
      BY <1>1 DEF BuiltinRoute, Open
    <2> QED
      BY <1>1, <2>1
  <1>2. CASE SearchRoute(claw, r)
    <2>1. Open(h)
      BY <1>2 DEF SearchRoute, Open
    <2> QED
      BY <1>2, <2>1
  <1>3. CASE ServerRoute(claw, r)
    <2>1. PICK m \in claw.mcp : /\ m.host = r.domain
                                /\ \/ r.cred = None
                                   \/ /\ m.ref = r.cred
                                      /\ \E c \in Creds : c.name = r.cred
      BY <1>3 DEF ServerRoute, Creds
    <2>2. m.host.name = h.name
      BY <1>0, <2>1, HostNameFacts DEF WellFormed, Under
    <2> QED
      BY <1>3, <2>1, <2>2
  <1>4. CASE CredentialRoute(claw, r)
    <2>1. PICK c \in Creds : ClusterRoute(c, r) \/ OwnRoute(c, r) \/ CompanionRoute(c, r)
      BY <1>4 DEF CredentialRoute, Creds
    <2>2. Sound(c) /\ c.clusters \in SUBSET Names
      BY <1>0, ToSetFacts DEF Creds
    <2>3. CASE ClusterRoute(c, r)
      <3>1. r.domain \in c.clusters /\ r.domain \in Names /\ ~ IsSuffixDomain(r.domain) /\ r.domain.port # 0
        BY <2>2, <2>3 DEF ClusterRoute, Sound
      <3>2. h.name = r.domain.name /\ h.port = r.domain.port
        BY <3>1 DEF Under
      <3>3. h \in Names
        BY RequestsAssumption
      <3>4. h = r.domain
        BY <3>1, <3>2, <3>3 DEF Names
      <3>5. MeantFor(c, h)
        BY <2>3, <3>1, <3>4 DEF MeantFor, ClusterRoute
      <3> QED
        BY <2>3, <3>5
    <2>4. CASE OwnRoute(c, r)
      <3>1. MeantFor(c, h)
        BY <2>4 DEF MeantFor, OwnRoute
      <3> QED
        BY <2>4, <3>1
    <2>5. CASE CompanionRoute(c, r)
      <3>1. Open(h)
        BY <2>5 DEF Open, CompanionRoute
      <3> QED
        BY <2>5, <3>1
    <2> QED
      BY <2>1, <2>3, <2>4, <2>5
  <1> QED
    BY <1>1, <1>2, <1>3, <1>4 DEF Accounted

\* Only what the Claw declares, or leaves open, is tunnelled or forwarded to.
THEOREM AllowlistAlwaysEnforced == Spec => []AllowlistEnforced
  <1>1. Inv => AllowlistEnforced
    <2> SUFFICES ASSUME Inv,
                        NEW h \in (IF Sent /\ out.via = "proxy" THEN {out.host} ELSE {})
                                  \cup (IF conn.mode = "tunnel" THEN {conn.host} ELSE {})
                 PROVE  \/ Open(h)
                        \/ \E c \in Creds : MeantFor(c, h)
                        \/ \E m \in claw.mcp : m.host.name = h.name
      BY DEF AllowlistEnforced
    <2>1. proxy.up /\ h \in Hosts /\ \E p : MatchRoute(proxy.routes, h, p) # 0
      <3>1. CASE Sent /\ out.via = "proxy" /\ h = out.host
        BY <3>1 DEF Inv, SentByProxy, SentByGateway
      <3>2. CASE conn.mode = "tunnel" /\ h = conn.host
        BY <3>2 DEF Inv
      <3> QED
        BY <3>1, <3>2
    <2>2. PICK p : MatchRoute(proxy.routes, h, p) # 0
      BY <2>1
    <2> DEFINE r == proxy.routes[MatchRoute(proxy.routes, h, p)]
    <2>3. Accounted(claw, r) /\ Under(h, r.domain)
      BY <2>1, <2>2, RouteOfHost
    <2> HIDE DEF r
    <2> QED
      BY <2>1, <2>3, Origin
  <1> QED
    BY <1>1, Invariance, PTL

\* The upstream of a gateway route is one the credential is meant for.
LEMMA UpstreamFacts ==
  ASSUME NEW c, Sound(c), c.type # "kubernetes", c.domain # NoHost,
         NEW u, u = resolveProviderInfo(c)
  PROVE  \/ MeantFor(c, u)
         \/ c.type = "gcp" /\ u = Vertex
         \/ IsSuffixDomain(c.domain) /\ c.provider \in DOMAIN Providers /\ u = Providers[c.provider].domain
  <1> DEFINE d == c.domain
             based == c.provider \in DOMAIN Providers /\ Providers[c.provider].base
  <1>0. c \in Resolved
    BY DEF Sound
  <1>1. d \in Names /\ IsDomain(d)
    BY <1>0 DEF Sound, Resolved
  <1>2. CASE c.type = "gcp"
    <2>1. u = Vertex
      BY <1>2 DEF resolveProviderInfo
    <2> QED
      BY <1>2, <2>1
  <1>3. CASE c.type # "gcp" /\ ~ IsSuffixDomain(d)
    <2>1. u = d
      BY <1>3 DEF resolveProviderInfo
    <2> QED
      BY <1>1, <2>1 DEF MeantFor, Under
  <1>4. CASE c.type # "gcp" /\ IsSuffixDomain(d) /\ based
    <2>1. u = Providers[c.provider].domain
      BY <1>4 DEF resolveProviderInfo
    <2> QED
      BY <1>4, <2>1
  <1>5. CASE c.type # "gcp" /\ IsSuffixDomain(d) /\ ~ based
    <2>1. u = [d EXCEPT !.name = Tail(d.name)]
      BY <1>5 DEF resolveProviderInfo
    <2>2. u.name = Tail(d.name)
      BY <1>1, <2>1 DEF Names
    <2>3. Tail(d.name) \in Seq(Nat) /\ Tail(d.name) # <<>>
      BY <1>1, <1>5, SuffixTail
    <2>4. PICK s \in Seq(Nat) : s = Tail(d.name) /\ s # <<>>
      BY <2>3
    <2>5. 1 \in DOMAIN s /\ SubSeq(s, 1, Len(s)) = s
      BY <2>4
    <2>6. \E k \in DOMAIN u.name : SubSeq(u.name, k, Len(u.name)) = Tail(d.name)
      BY <2>2, <2>4, <2>5
    <2>7. MeantFor(c, u)
      BY <1>5, <2>6 DEF MeantFor, Under
    <2> QED
      BY <2>7
  <1> QED
    BY <1>2, <1>3, <1>4, <1>5

\* A credential only travels where the Claw declares it.
THEOREM CredentialAlwaysInScope == Spec => []CredentialInScope
  <1>1. Inv => CredentialInScope
    <2> SUFFICES ASSUME Inv, Sent, out.cred # None PROVE CredentialInScope
      BY DEF CredentialInScope
    <2>1. proxy.up /\ (SentByProxy \/ SentByGateway)
      BY DEF Inv
    <2>2. CASE SentByProxy
      <3> DEFINE h == out.host
                 p == out.path
                 i == MatchRoute(proxy.routes, h, p)
                 r == proxy.routes[i]
      <3>1. /\ out.via = "proxy" /\ h \in Hosts /\ p \in Paths
            /\ i # 0 /\ PathAllowed(r, p) /\ out.cred = r.cred
        BY <2>2 DEF SentByProxy
      <3>2. Accounted(claw, r) /\ Under(h, r.domain)
        BY <2>1, <3>1, RouteOfHost
      <3> HIDE DEF r
      <3>3. CASE BuiltinRoute(claw, r) \/ \E c \in Creds : CompanionRoute(c, r)
        BY <3>1, <3>3 DEF BuiltinRoute, CompanionRoute
      <3>4. CASE SearchRoute(claw, r)
        BY <3>1, <3>2, <3>4 DEF SearchRoute, CredentialInScope
      <3>5. ASSUME NEW m \in claw.mcp, m.host.name = h.name, m.ref = r.cred,
                   NEW c \in Creds, c.name = r.cred
            PROVE  CredentialInScope
        <4>1. LentTo(c, h)
          BY <3>5 DEF LentTo
        <4> QED
          BY <3>1, <3>5, <4>1 DEF CredentialInScope
      <3>6. ASSUME NEW c \in Creds, ClusterRoute(c, r), MeantFor(c, h)
            PROVE  CredentialInScope
        BY <3>1, <3>6 DEF ClusterRoute, CredentialInScope
      <3>7. ASSUME NEW c \in Creds, OwnRoute(c, r), MeantFor(c, h)
            PROVE  CredentialInScope
        <4>1. c.name = r.cred /\ r.paths = c.paths
          BY <3>1, <3>7 DEF OwnRoute
        <4>2. c.paths = <<>> \/ Entries(c.paths, p) # {}
          BY <3>1, <4>1 DEF PathAllowed, Entries, ToSet
        <4> QED
          BY <3>1, <3>7, <4>1, <4>2 DEF CredentialInScope
      <3> QED
        BY <2>1, <3>1, <3>2, <3>3, <3>4, <3>5, <3>6, <3>7, Origin
    <2>3. CASE SentByGateway
      <3>1. PICK i \in DOMAIN proxy.routes : /\ proxy.routes[i].prefix # ""
                                             /\ out.host = proxy.routes[i].upstream
                                             /\ out.cred = proxy.routes[i].cred
        BY <2>3 DEF SentByGateway
      <3> DEFINE r == proxy.routes[i]
      <3>2. Accounted(claw, r) /\ WellFormed(claw)
        BY <2>1, LoadedFacts
      <3>3. r.prefix # "" /\ out.host = r.upstream /\ out.cred = r.cred /\ out.via = "gateway"
        BY <2>3, <3>1 DEF SentByGateway
      <3> HIDE DEF r
      <3>4. PICK c \in Creds : OwnRoute(c, r)
        BY <3>2, <3>3 DEF Accounted, BuiltinRoute, SearchRoute, ServerRoute, CredentialRoute,
                          ClusterRoute, CompanionRoute, Creds
      <3>5. Sound(c)
        BY <3>2, ToSetFacts DEF Creds
      <3>6. /\ c.type # "kubernetes" /\ c.domain # NoHost /\ out.host = resolveProviderInfo(c)
            /\ c.name = out.cred
        BY <3>3, <3>4 DEF OwnRoute
      <3> QED
        BY <3>3, <3>5, <3>6, UpstreamFacts DEF CredentialInScope
    <2> QED
      BY <2>1, <2>2, <2>3
  <1> QED
    BY <1>1, Invariance, PTL

\* No credential is meant for the host that an MCP server's route serves.
LEMMA ServerShadowsNone ==
  ASSUME Inv, proxy.up, NEW h \in Hosts, NEW p, MatchRoute(proxy.routes, h, p) # 0,
         ServerRoute(claw, proxy.routes[MatchRoute(proxy.routes, h, p)]),
         NEW c \in Creds, MeantFor(c, h)
  PROVE  IsSuffixDomain(c.domain) /\ h.name = Tail(c.domain.name)
  <1> DEFINE i == MatchRoute(proxy.routes, h, p)
             d == proxy.routes[i].domain
  <1>0. /\ h \in Names /\ WellFormed(claw) /\ GoodRoutes(claw, proxy.routes)
        /\ Sound(c) /\ c.domain \in Names /\ c.clusters \in SUBSET Names
    BY RequestsAssumption, LoadedFacts, ToSetFacts DEF Creds
  <1>1. i \in matchingRoutes(proxy.routes, h) /\ Under(h, d)
    BY RouteOfHost
  <1>2. d \in Names /\ ~ IsSuffixDomain(d) /\ d.port = 0 /\ ~ domainCovered(d, Covered(claw))
    BY <1>0, HostNameFacts DEF ServerRoute, WellFormed
  <1>3. h.name = d.name
    BY <1>1, <1>2 DEF Under
  <1>4. \A k \in DOMAIN proxy.routes :
           ~ ( /\ domainMatches(proxy.routes[k].domain, h)
               /\ ~ IsSuffixDomain(proxy.routes[k].domain) /\ proxy.routes[k].domain.port # 0 )
    BY <1>1, <1>2, TierFacts
  <1> HIDE DEF i, d
  <1>5. CASE c.type = "kubernetes"
    <2>1. h \in c.clusters
      BY <1>5 DEF MeantFor
    <2>2. ~ IsSuffixDomain(h) /\ h.port # 0
      BY <1>0, <2>1 DEF Sound
    <2>3. PICK k \in DOMAIN proxy.routes : proxy.routes[k].domain = h
      BY <1>0, <1>5, <2>1 DEF GoodRoutes, Creds
    <2>4. domainMatches(h, h)
      BY <2>2 DEF domainMatches
    <2> QED
      BY <1>4, <2>2, <2>3, <2>4
  <1>6. CASE c.type # "kubernetes"
    <2>1. c.domain # NoHost /\ Under(h, c.domain) /\ IsDomain(c.domain)
      BY <1>0, <1>6 DEF MeantFor, Sound
    <2>2. domainMatches(c.domain, h)
      BY <1>0, <2>1, MatchesUnder
    <2>3. PICK k \in DOMAIN proxy.routes : proxy.routes[k].domain = c.domain
      BY <1>0, <1>6, <2>1 DEF GoodRoutes, OwnRoute, Creds
    <2>4. c.domain \in Covered(claw)
      BY DEF Covered, CoveredFirst, credentialDomains, Creds
    <2>5. CASE ~ IsSuffixDomain(c.domain)
      <3>1. c.domain.port = 0
        BY <1>4, <2>2, <2>3, <2>5
      <3>2. c.domain.name = d.name
        BY <1>3, <2>1, <2>5 DEF Under
      <3>3. c.domain = d
        BY <1>0, <1>2, <3>1, <3>2 DEF Names
      <3> QED
        BY <1>2, <2>4, <3>3 DEF domainCovered
    <2>6. CASE IsSuffixDomain(c.domain)
      <3>1. IsSuffix(Tail(c.domain.name), d.name)
        BY <1>3, <2>2, <2>6 DEF domainMatches
      <3>2. ~ IsStrictSuffix(Tail(c.domain.name), d.name)
        BY <1>2, <2>4, <2>6 DEF domainCovered
      <3>3. Tail(c.domain.name) = d.name
        BY <3>1, <3>2 DEF IsStrictSuffix
      <3> QED
        BY <1>3, <2>6, <3>3
    <2> QED
      BY <2>5, <2>6
  <1> QED
    BY <1>5, <1>6

\* The route of an MCP server takes no request away from a credential.
THEOREM McpNeverEverShadows == Spec => []McpNeverShadows
  <1>1. Inv => McpNeverShadows
    <2> SUFFICES ASSUME Inv, Sent, out.via = "proxy", out.cred = None, ~ Open(out.host),
                        NEW c \in Creds, MeantFor(c, out.host),
                        ~ \E d \in Creds : d.type = "none" /\ MeantFor(d, out.host)
                 PROVE  IsSuffixDomain(c.domain) /\ out.host.name = Tail(c.domain.name)
      BY DEF McpNeverShadows
    <2> DEFINE h == out.host
               i == MatchRoute(proxy.routes, h, out.path)
               r == proxy.routes[i]
    <2>1. proxy.up /\ h \in Hosts /\ i # 0 /\ r.cred = None
      BY DEF Inv, SentByProxy, SentByGateway
    <2>2. Accounted(claw, r) /\ Under(h, r.domain) /\ WellFormed(claw)
      BY <2>1, RouteOfHost, LoadedFacts
    <2>3. \A d \in Creds : d.name # None
      BY <2>2, ToSetFacts DEF Creds, Sound
    <2> HIDE DEF r
    <2>4. ServerRoute(claw, r)
      <3>1. ~ \E d \in Creds : ClusterRoute(d, r)
        BY <2>1, <2>3 DEF ClusterRoute
      <3>2. ~ \E d \in Creds : OwnRoute(d, r) /\ MeantFor(d, h)
        BY <2>1, <2>3 DEF OwnRoute
      <3> QED
        BY <2>1, <2>2, <3>1, <3>2, Origin
    <2> QED
      BY <2>1, <2>4, ServerShadowsNone DEF r
  <1> QED
    BY <1>1, Invariance, PTL

\* Of the credentials of one domain, the most specific one for the path is carried.
THEOREM MostSpecificAlwaysWins == Spec => []MostSpecificWins
  <1>1. Inv => MostSpecificWins
    <2> SUFFICES ASSUME Inv, Sent, out.via = "proxy", NEW c \in Creds, NEW d \in Creds,
                        c.name = out.cred, MeantFor(c, out.host), ~ LentTo(c, out.host),
                        d.domain = c.domain, "kubernetes" \notin {c.type, d.type},
                        NEW e \in Entries(d.paths, out.path)
                 PROVE  \E f \in Entries(c.paths, out.path) : EntryLen(f) >= EntryLen(e)
      BY DEF MostSpecificWins
    <2> DEFINE h == out.host
               p == out.path
               i == MatchRoute(proxy.routes, h, p)
               r == proxy.routes[i]
    <2>1. proxy.up /\ h \in Hosts /\ p \in Paths /\ i # 0 /\ r.cred = c.name
      BY DEF Inv, SentByProxy, SentByGateway
    <2>2. /\ i \in matchingRoutes(proxy.routes, h) /\ i \in DOMAIN proxy.routes
          /\ Accounted(claw, r) /\ Under(h, r.domain)
          /\ \A k \in matchingRoutes(proxy.routes, h) : \A m \in Lengths(proxy.routes[k], p) :
                 \E l \in Lengths(r, p) : l >= m
      BY <2>1, RouteOfHost, RequestsAssumption
    <2>3. /\ WellFormed(claw) /\ GoodRoutes(claw, proxy.routes)
          /\ \A a, b \in Creds : a.name = b.name => a = b
      BY <2>1, LoadedFacts
    <2>4. c.name \notin {None, "websearch"}
      BY <2>3, ToSetFacts DEF Creds, Sound
    <2> HIDE DEF i, r
    <2>5. OwnRoute(c, r)
      <3>1. ~ BuiltinRoute(claw, r) /\ ~ SearchRoute(claw, r) /\ ~ \E a \in Creds : CompanionRoute(a, r)
        BY <2>1, <2>4 DEF BuiltinRoute, SearchRoute, CompanionRoute
      <3>2. ~ \E m \in claw.mcp : m.host.name = h.name /\ m.ref = r.cred
        BY <2>1 DEF LentTo
      <3>3. ~ \E a \in Creds : ClusterRoute(a, r)
        BY <2>1, <2>3 DEF ClusterRoute
      <3>4. PICK a \in Creds : OwnRoute(a, r)
        BY <2>1, <2>2, <2>4, <3>1, <3>2, <3>3, Origin
      <3>5. a.name = c.name
        BY <2>1, <2>4, <3>4 DEF OwnRoute
      <3> QED
        BY <2>3, <3>4, <3>5
    <2>6. r.domain = c.domain /\ r.paths = c.paths /\ c.domain # NoHost
      BY <2>5 DEF OwnRoute
    <2>7. PICK k \in DOMAIN proxy.routes : OwnRoute(d, proxy.routes[k])
      BY <2>3, <2>6 DEF GoodRoutes, Creds
    <2>8. proxy.routes[k].domain = proxy.routes[i].domain /\ proxy.routes[k].paths = d.paths
      BY <2>6, <2>7 DEF OwnRoute, r
    <2>9. k \in matchingRoutes(proxy.routes, h)
      BY <2>2, <2>8, TierFacts
    <2>10. EntryLen(e) \in Lengths(proxy.routes[k], p)
      BY <2>8 DEF Lengths, Entries
    <2>11. PICK l \in Lengths(r, p) : l >= EntryLen(e)
      BY <2>2, <2>9, <2>10
    <2>12. PICK f \in Entries(c.paths, p) : l = EntryLen(f)
      BY <2>6 DEF Lengths, Entries
    <2> QED
      BY <2>11, <2>12
  <1> QED
    BY <1>1, Invariance, PTL

-----------------------------------------------------------------------------
(* Egress *)

\* How the operator classifies a URL: as in the cluster exactly when its name is
\* under svc or bare, and then its rule leads where the name is taken to lead.
LEMMA TargetFacts ==
  ASSUME NEW u, IsHostName(u.host)
  PROVE  LET n == u.host.name
             t == classifyServiceURL(u)
         IN  /\ t.port = resolvePort(u) /\ t.external \in BOOLEAN
             /\ ~ t.external <=> IsServiceName(n) \/ Misread(n)
             /\ t.external => TakenFor(n) = Anywhere
             /\ ~ t.external => /\ buildInClusterEgressRule(t) = Rule(TakenFor(n), t.port)
                                /\ TakenFor(n) \in Labels
             /\ IsServiceName(n) => TakenFor(n) = NamespaceOf(n)
  <1> DEFINE n == u.host.name
             t == classifyServiceURL(u)
             inCluster == n \notin Addresses /\ (Len(n) = 1 \/ HasSvcSuffix(n))
             ns == IF Len(n) = 1 \/ n[2] = Namespace THEN 0 ELSE n[2]
  <1>1. t = [port |-> resolvePort(u), external |-> ~ inCluster, ns |-> IF inCluster THEN ns ELSE 0]
    BY DEF classifyServiceURL
  <1>2. t.port = resolvePort(u) /\ t.external = ~ inCluster /\ t.ns = IF inCluster THEN ns ELSE 0
    BY <1>1
  <1>3. IsServiceName(n) => (Len(n) = 1 /\ n \notin Addresses) \/ (Len(n) # 1 /\ HasSvcSuffix(n))
    BY DEF IsServiceName, HasSvcSuffix
  <1>4. HasSvcSuffix(n) => n \notin Addresses
    BY NamesAssumption
  <1>5. inCluster <=> IsServiceName(n) \/ Misread(n)
    BY <1>3, <1>4 DEF IsServiceName, Misread
  <1>6. Len(n) = 1 \/ (Len(n) # 1 /\ n[2] \in Labels)
    <2>1. n \in Seq(Labels) /\ n # <<>>
      BY DEF IsHostName
    <2> HIDE DEF n
    <2>2. PICK k \in Nat : k = Len(n) /\ DOMAIN n = 1..k
      BY <2>1
    <2>3. k # 0
      BY <2>1, <2>2
    <2>4. k # 1 => 2 \in DOMAIN n
      BY <2>2, <2>3
    <2> QED
      BY <2>1, <2>2, <2>4
  <1>7. ~ inCluster => TakenFor(n) = Anywhere
    BY <1>5 DEF TakenFor, NamespaceOf
  <1>8. inCluster => TakenFor(n) = IF Len(n) = 1 THEN Namespace ELSE n[2]
    <2>1. CASE IsServiceName(n)
      BY <2>1 DEF TakenFor, NamespaceOf, Misread
    <2>2. CASE Misread(n)
      <3>1. inCluster => Len(n) # 1
        BY <2>2 DEF Misread, IsServiceName
      <3> QED
        BY <2>2, <3>1 DEF TakenFor
    <2> QED
      BY <1>5, <2>1, <2>2
  <1>9. IsServiceName(n) => TakenFor(n) = NamespaceOf(n)
    BY DEF TakenFor, Misread
  <1> HIDE DEF t, inCluster
  <1>10. ASSUME inCluster PROVE (IF t.ns = 0 THEN Namespace ELSE t.ns) = TakenFor(n)
    BY <1>2, <1>6, <1>8, <1>10, NamesAssumption DEF Labels
  <1>11. ASSUME inCluster PROVE TakenFor(n) \in Labels
    BY <1>6, <1>8, <1>11, NamesAssumption
  <1>12. inCluster \in BOOLEAN
    BY DEF inCluster
  <1> QED
    BY <1>2, <1>5, <1>7, <1>9, <1>10, <1>11, <1>12 DEF t, buildInClusterEgressRule

\* A host that some route matches has a route.
LEMMA RouteFound ==
  ASSUME NEW routes, NEW n \in Nat, DOMAIN routes = 1..n, NEW h,
         NEW k \in DOMAIN routes, domainMatches(routes[k].domain, h)
  PROVE  MatchRoute(routes, h, <<>>) # 0
  <1> DEFINE matches == matchingRoutes(routes, h)
  <1>1. matches # {}
    BY DEF matchingRoutes
  <1>2. matches \subseteq 1..n
    BY TierFacts
  <1>3. MatchRoute(routes, h, <<>>) = Min(matches)
    BY <1>1 DEF MatchRoute
  <1>4. Min(matches) \in 1..n
    BY <1>1, <1>2, MinChoice
  <1> HIDE DEF matches
  <1> QED
    BY <1>3, <1>4

\* The names that make a name covered have routes, all but those of Kubernetes
\* credentials.
LEMMA PlacedNames ==
  ASSUME NEW spec, NEW f \in FirstServers(spec)
  PROVE  LET placed == PlacedRoutes(spec, f)
         IN  /\ \A i \in builtinRoutes(spec) : \E x \in placed : x.route.domain = Builtins[i].domain
             /\ \A d \in searchDomains(spec) : \E x \in placed : x.route.domain = d
             /\ \A h \in credentialHosts(spec) \cup passthroughHosts(spec) :
                   \E x \in placed : x.route.domain = h
  <1> DEFINE placed == PlacedRoutes(spec, f)
  <1>1. ASSUME NEW i \in builtinRoutes(spec) PROVE \E x \in placed : x.route.domain = Builtins[i].domain
    <2> DEFINE r == [Passthrough(Builtins[i].domain) EXCEPT !.paths = Builtins[i].paths]
               x == Placed(0, i, r)
    <2>1. x \in placed
      BY DEF PlacedRoutes
    <2>2. r.domain = Builtins[i].domain
      BY DEF Passthrough, Route
    <2>3. x.route = r
      BY DEF Placed
    <2> QED
      BY <2>1, <2>2, <2>3
  <1>2. ASSUME NEW d \in searchDomains(spec) PROVE \E x \in placed : x.route.domain = d
    <2> DEFINE x == Placed(1, 0, webSearchRoute(spec.search))
    <2>1. x \in placed
      BY <1>2 DEF PlacedRoutes
    <2>2. webSearchRoute(spec.search).domain = spec.search.domain /\ x.route = webSearchRoute(spec.search)
      BY DEF webSearchRoute, Route, Placed
    <2>3. d = spec.search.domain
      BY <1>2 DEF searchDomains
    <2> QED
      BY <2>1, <2>2, <2>3
  <1>3. ASSUME NEW h \in credentialHosts(spec) PROVE \E x \in placed : x.route.domain = h
    <2> DEFINE r == mcpCredentialRoute(credByName(spec, f[h].ref), h)
               x == Placed(2, 0, r)
    <2>1. x \in placed
      BY <1>3 DEF PlacedRoutes
    <2>2. r.domain = h
      BY McpRoute
    <2>3. x.route = r
      BY DEF Placed
    <2> QED
      BY <2>1, <2>2, <2>3
  <1>4. ASSUME NEW h \in passthroughHosts(spec) PROVE \E x \in placed : x.route.domain = h
    <2> DEFINE x == Placed(3, 0, Passthrough(h))
    <2>1. x \in placed
      BY <1>4 DEF PlacedRoutes
    <2>2. Passthrough(h).domain = h /\ x.route = Passthrough(h)
      BY PassthroughFacts DEF Placed
    <2> QED
      BY <2>1, <2>2
  <1> QED
    BY <1>1, <1>2, <1>3, <1>4

\* Every MCP server has a route, its own or the one that made its own superfluous,
\* unless the latter is that of a Kubernetes credential.
LEMMA ServerHasRoute ==
  ASSUME NEW spec, WellFormed(spec), NEW routes \in generateProxyConfig(spec), NEW m \in spec.mcp,
         ~ \E c \in ToSet(resolveCredentials(spec)) : c.type = "kubernetes" /\ Under(m.host, c.domain),
         NEW port
  PROVE  \E k \in DOMAIN routes : domainMatches(routes[k].domain, [name |-> m.host.name, port |-> port])
  <1> DEFINE h == m.host
             q == [name |-> h.name, port |-> port]
             Named(d) == \E k \in DOMAIN routes : routes[k].domain = d
  <1>1. PICK f \in FirstServers(spec) : routes = SortRoutes(PlacedRoutes(spec, f))
    BY DEF generateProxyConfig
  <1>2. \A e \in Refs(spec) : \E c \in ToSet(resolveCredentials(spec)) : c.name = e.ref
    BY DEF generateProxyConfig
  <1>3. \A x \in PlacedRoutes(spec, f) : Named(x.route.domain)
    <2>1. Orderable(PlacedRoutes(spec, f))
      BY <1>2, PlacedFacts
    <2> QED
      BY <1>1, <2>1, SortedRoutes
  <1>4. /\ \A i \in builtinRoutes(spec) : Named(Builtins[i].domain)
        /\ \A d \in searchDomains(spec) : Named(d)
        /\ \A d \in credentialHosts(spec) \cup passthroughHosts(spec) : Named(d)
    <2> HIDE DEF Named
    <2> QED
      BY <1>3, PlacedNames
  <1>5. h \in Names /\ IsHostName(h) /\ ~ IsSuffixDomain(h) /\ h.port = 0 /\ h # NoHost
    BY HostNameFacts DEF WellFormed, IsHostName, NoHost
  <1>6. q.name = h.name /\ h = [name |-> h.name, port |-> 0]
    BY <1>5 DEF Names
  <1>7. domainMatches(h, q)
    BY <1>5, <1>6 DEF domainMatches
  <1>8. CASE Named(h)
    BY <1>7, <1>8
  <1>9. CASE domainCovered(h, Covered(spec))
    <2>1. PICK d \in Covered(spec) : d = h \/ (IsSuffixDomain(d) /\ IsStrictSuffix(Tail(d.name), h.name))
      BY <1>9 DEF domainCovered
    <2>2. domainMatches(d, q) /\ domainMatches(d, h)
      BY <1>5, <1>6, <1>7, <2>1 DEF domainMatches, IsStrictSuffix
    <2>3. d # NoHost
      BY <1>5, <2>1, NoHostFacts
    <2>4. CASE d \in credentialDomains(spec)
      <3>1. PICK c \in ToSet(resolveCredentials(spec)) : c.domain = d
        BY <2>4 DEF credentialDomains
      <3>2. d \in Names /\ IsDomain(d)
        BY <3>1, ToSetFacts DEF Sound
      <3>3. Under(h, d)
        BY <1>5, <2>2, <3>2, MatchesUnder
      <3>4. c.type # "kubernetes"
        BY <3>1, <3>3
      <3>5. GoodRoutes(spec, routes)
        BY ConfigFacts
      <3>6. PICK k \in DOMAIN routes : OwnRoute(c, routes[k])
        BY <2>3, <3>1, <3>4, <3>5 DEF GoodRoutes
      <3>7. routes[k].domain = d
        BY <3>1, <3>6 DEF OwnRoute
      <3> QED
        BY <2>2, <3>7
    <2>5. CASE d \notin credentialDomains(spec)
      <3>1. Named(d)
        <4> HIDE DEF Named
        <4> QED
          BY <1>4, <2>1, <2>5 DEF Covered, CoveredFirst
      <3> QED
        BY <2>2, <3>1
    <2> QED
      BY <2>4, <2>5
  <1>10. CASE ~ domainCovered(h, Covered(spec))
    <2>1. CASE m.ref # None
      <3>1. h \in credentialHosts(spec)
        BY <1>10, <2>1 DEF credentialHosts, mcpHosts, Refs
      <3> QED
        BY <1>4, <1>8, <3>1
    <2>2. CASE m.ref = None
      <3>1. CASE domainCovered(h, Covered(spec) \cup credentialHosts(spec))
        <4>1. PICK d \in Covered(spec) \cup credentialHosts(spec) :
                 d = h \/ (IsSuffixDomain(d) /\ IsStrictSuffix(Tail(d.name), h.name))
          BY <3>1 DEF domainCovered
        <4>2. d \in credentialHosts(spec)
          BY <1>10, <4>1 DEF domainCovered
        <4>3. ~ IsSuffixDomain(d)
          BY <4>2, HostNameFacts DEF credentialHosts, mcpHosts, Refs, WellFormed
        <4> QED
          BY <1>4, <1>8, <4>1, <4>2, <4>3
      <3>2. CASE ~ domainCovered(h, Covered(spec) \cup credentialHosts(spec))
        <4>1. h \in passthroughHosts(spec)
          BY <2>2, <3>2 DEF passthroughHosts, mcpHosts, Refs
        <4> QED
          BY <1>4, <1>8, <4>1
      <3> QED
        BY <3>1, <3>2
    <2> QED
      BY <2>1, <2>2
  <1> QED
    BY <1>9, <1>10

\* A policy with the rule for a URL admits the requests to it.
LEMMA RuleAdmits ==
  ASSUME NEW u, IsHostName(u.host), ~ Misread(u.host.name), NEW rules,
         LET t == classifyServiceURL(u)
         IN  (IF t.external THEN Rule(Anywhere, t.port) ELSE buildInClusterEgressRule(t)) \in rules
  PROVE  Admits(rules, u.host.name, resolvePort(u))
  <1> DEFINE n == u.host.name
             t == classifyServiceURL(u)
             r == Rule(TakenFor(n), t.port)
  <1>1. /\ t.port = resolvePort(u) /\ (~ t.external <=> IsServiceName(n) \/ Misread(n))
        /\ t.external => TakenFor(n) = Anywhere
        /\ ~ t.external => buildInClusterEgressRule(t) = r
        /\ IsServiceName(n) => TakenFor(n) = NamespaceOf(n)
    BY TargetFacts
  <1>2. r.to = TakenFor(n) /\ r.port = t.port
    BY DEF Rule
  <1>3. r \in rules
    <2> HIDE DEF t
    <2> QED
      BY <1>1 DEF t
  <1> HIDE DEF r, t
  <1>4. r.to = Anywhere \/ (IsServiceName(n) /\ r.to = NamespaceOf(n))
    BY <1>1, <1>2
  <1> QED
    BY <1>1, <1>2, <1>3, <1>4 DEF Admits

\* The rule that each policy has for an MCP server.
LEMMA ServerRules ==
  ASSUME NEW spec, NEW m \in spec.mcp, classifyServiceURL(m).external \in BOOLEAN
  PROVE  LET t == classifyServiceURL(m)
         IN  /\ t.external => Rule(Anywhere, t.port) \in ProxyEgress(spec)
             /\ (~ t.external /\ ~ spec.bypass) => buildInClusterEgressRule(t) \in ProxyEgress(spec)
             /\ (~ t.external /\ spec.bypass) => buildInClusterEgressRule(t) \in GatewayEgress(spec)
  <1> DEFINE t == classifyServiceURL(m)
  <1>1. t \in classifyMcpEgressTargets(spec)
    BY DEF classifyMcpEgressTargets
  <1> HIDE DEF t
  <1>2. t.external /\ t.port # 443 => t.port \in collectExternalNon443Ports(classifyMcpEgressTargets(spec))
    BY <1>1 DEF collectExternalNon443Ports
  <1>3. t.external => Rule(Anywhere, t.port) \in ProxyEgress(spec)
    BY <1>2 DEF ProxyEgress
  <1>4. ~ t.external => buildInClusterEgressRule(t) \in InClusterRules(spec)
    BY <1>1 DEF InClusterRules, filterInCluster
  <1>5. ~ spec.bypass => InClusterRules(spec) \subseteq ProxyEgress(spec)
    BY DEF ProxyEgress
  <1>6. spec.bypass => InClusterRules(spec) \subseteq GatewayEgress(spec)
    BY DEF GatewayEgress
  <1> QED
    BY <1>3, <1>4, <1>5, <1>6 DEF t

\* Every MCP server whose way is known is reached, and not around the proxy if it
\* borrows a credential: the policies and NO_PROXY agree on which way that is.
LEMMA ServersReached ==
  ASSUME Inv, proxy.up, NEW m \in claw.mcp, WayKnown(m.host.name)
  PROVE  /\ Reaches(m.host.name, resolvePort(m))
         /\ m.ref # None => ~ GoesDirect(claw, m.host.name)
  <1> DEFINE n == m.host.name
             t == classifyServiceURL(m)
  <1>1. WellFormed(claw) /\ GoodRoutes(claw, proxy.routes)
    BY LoadedFacts
  <1>2. /\ proxy.routes \in generateProxyConfig(claw) /\ validateMcpCredentialRefBypass(claw)
    BY DEF Inv, Served
  <1>3. m.host \in Names /\ IsHostName(m.host) /\ m.host = [name |-> n, port |-> 0]
    BY <1>1 DEF WellFormed, IsHostName, Names
  <1>4. /\ t.external \in BOOLEAN
        /\ ~ t.external <=> IsServiceName(n) \/ Misread(n)
    BY <1>3, TargetFacts
  <1>5. ~ Misread(n) /\ ~ (claw.bypass /\ Len(n) = 1) /\ n # otlpEndpoint(claw).host.name
    BY DEF WayKnown
  <1>6. IsServiceName(n) => Len(n) = 1 \/ HasSvcSuffix(n)
    BY DEF IsServiceName, HasSvcSuffix
  <1>7. GoesDirect(claw, n) <=> claw.bypass /\ HasSvcSuffix(n)
    BY <1>5 DEF GoesDirect
  <1>8. GoesDirect(claw, n) => ~ t.external
    BY <1>4, <1>5, <1>7 DEF Misread
  <1>9. ~ GoesDirect(claw, n) => t.external \/ ~ claw.bypass
    BY <1>4, <1>5, <1>6, <1>7
  <1>10. /\ t.external => Rule(Anywhere, t.port) \in ProxyEgress(claw)
         /\ (~ t.external /\ ~ claw.bypass) => buildInClusterEgressRule(t) \in ProxyEgress(claw)
         /\ (~ t.external /\ claw.bypass) => buildInClusterEgressRule(t) \in GatewayEgress(claw)
    BY <1>4, ServerRules
  <1>11. GoesDirect(claw, n) => Admits(GatewayEgress(claw), n, resolvePort(m))
    <2>1. GoesDirect(claw, n) =>
            (IF t.external THEN Rule(Anywhere, t.port) ELSE buildInClusterEgressRule(t)) \in GatewayEgress(claw)
      BY <1>7, <1>8, <1>10
    <2> QED
      BY <1>3, <1>5, <2>1, RuleAdmits
  <1>12. ~ GoesDirect(claw, n) => Admits(ProxyEgress(claw), n, resolvePort(m))
    <2>1. ~ GoesDirect(claw, n) =>
            (IF t.external THEN Rule(Anywhere, t.port) ELSE buildInClusterEgressRule(t)) \in ProxyEgress(claw)
      BY <1>4, <1>9, <1>10
    <2> QED
      BY <1>3, <1>5, <2>1, RuleAdmits
  <1>13. MatchRoute(proxy.routes, [name |-> n, port |-> resolvePort(m)], <<>>) # 0
    <2>1. ~ \E c \in ToSet(resolveCredentials(claw)) : c.type = "kubernetes" /\ Under(m.host, c.domain)
      BY <1>3 DEF WayKnown, Creds
    <2>2. PICK k \in DOMAIN proxy.routes :
             domainMatches(proxy.routes[k].domain, [name |-> n, port |-> resolvePort(m)])
      BY <1>1, <1>2, <2>1, ServerHasRoute
    <2>3. PICK l \in Nat : DOMAIN proxy.routes = 1..l
      BY <1>1 DEF GoodRoutes
    <2> QED
      BY <2>2, <2>3, RouteFound
  <1>14. m.ref # None => ~ GoesDirect(claw, n)
    BY <1>2, <1>7, <1>8 DEF validateMcpCredentialRefBypass
  <1> QED
    BY <1>11, <1>12, <1>13, <1>14 DEF Reaches

\* The servers of the kubeconfigs are reached.
LEMMA ClustersReached ==
  ASSUME Inv, proxy.up, NEW c \in Creds, NEW s \in c.clusters, ~ GoesDirect(claw, s.name)
  PROVE  Reaches(s.name, s.port)
  <1>1. WellFormed(claw) /\ GoodRoutes(claw, proxy.routes)
    BY LoadedFacts
  <1>2. Sound(c) /\ c.clusters \in SUBSET Names
    BY <1>1, ToSetFacts DEF Creds
  <1>3. c.type = "kubernetes" /\ ~ IsSuffixDomain(s) /\ s.port # 0
    BY <1>2 DEF Sound
  <1>4. s = [name |-> s.name, port |-> s.port]
    BY <1>2 DEF Names
  <1>5. Admits(ProxyEgress(claw), s.name, s.port)
    <2> DEFINE r == Rule(Anywhere, s.port)
    <2>1. s.port \in KubePorts(claw)
      BY DEF KubePorts, Creds
    <2>2. r \in ProxyEgress(claw)
      BY <2>1 DEF ProxyEgress
    <2>3. r.to = Anywhere /\ r.port = s.port
      BY DEF Rule
    <2> HIDE DEF r
    <2> QED
      BY <2>2, <2>3 DEF Admits
  <1>6. MatchRoute(proxy.routes, s, <<>>) # 0
    <2>1. PICK k \in DOMAIN proxy.routes : proxy.routes[k].domain = s
      BY <1>1, <1>3 DEF GoodRoutes, Creds
    <2>2. domainMatches(s, s)
      BY <1>3 DEF domainMatches
    <2>3. PICK l \in Nat : DOMAIN proxy.routes = 1..l
      BY <1>1 DEF GoodRoutes
    <2> QED
      BY <2>1, <2>2, <2>3, RouteFound
  <1>7. MatchRoute(proxy.routes, [name |-> s.name, port |-> s.port], <<>>) # 0
    BY <1>4, <1>6
  <1> QED
    BY <1>5, <1>7 DEF Reaches

\* The endpoints that have rules are URLs, and the collector is one of them.
LEMMA CollectorFacts ==
  ASSUME Inv, Collectors # {}
  PROVE  /\ claw.traces.enabled \/ claw.logs.enabled
         /\ Collectors = {claw.traces.endpoint, logsEndpoint(claw)} \ {NoURL}
         /\ \A u \in Collectors : IsHostName(u.host)
         /\ otlpEndpoint(claw) \in Collectors
  <1>1. /\ claw.traces.enabled \/ claw.logs.enabled
        /\ Collectors = {claw.traces.endpoint, logsEndpoint(claw)} \ {NoURL}
    BY DEF Collectors
  <1>2. logsEndpoint(claw) = IF claw.logs.endpoint = NoURL THEN claw.traces.endpoint ELSE claw.logs.endpoint
    BY DEF logsEndpoint, OrElse
  <1>3. otlpEndpoint(claw) = IF claw.traces.endpoint = NoURL THEN claw.logs.endpoint ELSE claw.traces.endpoint
    BY DEF otlpEndpoint, OrElse
  <1>4. \A u \in {claw.traces.endpoint, claw.logs.endpoint} \ {NoURL} : IsHostName(u.host)
    BY ClawsAssumption DEF Inv, EndpointsFormed
  <1>5. \A u \in Collectors : IsHostName(u.host)
    BY <1>1, <1>2, <1>4
  <1>6. otlpEndpoint(claw) \in Collectors
    BY <1>1, <1>2, <1>3
  <1> QED
    BY <1>1, <1>5, <1>6

\* The collector is reached.
LEMMA CollectorReached ==
  ASSUME Inv, Collectors # {}, ~ Misread(otlpEndpoint(claw).host.name)
  PROVE  Reaches(otlpEndpoint(claw).host.name, resolvePort(otlpEndpoint(claw)))
  <1> DEFINE u == otlpEndpoint(claw)
             t == classifyServiceURL(u)
             r == IF t.external THEN Rule(Anywhere, t.port) ELSE buildInClusterEgressRule(t)
  <1>1. /\ claw.traces.enabled \/ claw.logs.enabled
        /\ u \in {claw.traces.endpoint, logsEndpoint(claw)} \ {NoURL} /\ IsHostName(u.host)
    BY CollectorFacts
  <1>2. GoesDirect(claw, u.host.name)
    BY <1>1 DEF GoesDirect
  <1>3. t \in classifyTelemetryEndpoints(claw)
    BY <1>1 DEF classifyTelemetryEndpoints
  <1>4. r \in injectTelemetryEgressRules(claw)
    BY <1>1, <1>3 DEF injectTelemetryEgressRules
  <1>5. r \in GatewayEgress(claw)
    BY <1>4 DEF GatewayEgress
  <1>6. Admits(GatewayEgress(claw), u.host.name, resolvePort(u))
    BY <1>1, <1>5, RuleAdmits
  <1> QED
    BY <1>2, <1>6 DEF Reaches

\* The rule for a URL leads to its port, wherever its name is taken to lead.
LEMMA RuleLeads ==
  ASSUME NEW u, IsHostName(u.host)
  PROVE  LET t == classifyServiceURL(u)
             r == IF t.external THEN Rule(Anywhere, t.port) ELSE buildInClusterEgressRule(t)
         IN  r.to = TakenFor(u.host.name) /\ r.to \in Nat /\ r.port = resolvePort(u)
  <1> DEFINE n == u.host.name
             t == classifyServiceURL(u)
             r == IF t.external THEN Rule(Anywhere, t.port) ELSE buildInClusterEgressRule(t)
  <1>1. /\ t.port = resolvePort(u)
        /\ t.external => TakenFor(n) = Anywhere
        /\ ~ t.external => buildInClusterEgressRule(t) = Rule(TakenFor(n), t.port) /\ TakenFor(n) \in Labels
    BY TargetFacts
  <1>2. r = Rule(TakenFor(n), t.port) /\ TakenFor(n) \in Nat
    <2> HIDE DEF t
    <2> QED
      BY <1>1 DEF Anywhere, Labels
  <1> HIDE DEF r, t
  <1> QED
    BY <1>1, <1>2 DEF Rule, r, t

\* A namespace is a label, and no host is in all of them or in none.
LEMMA NamespaceType ==
  ASSUME NEW n \in Seq(Nat)
  PROVE  NamespaceOf(n) \in Nat
  <1>1. PICK k \in Nat : k = Len(n) /\ DOMAIN n = 1..k
    OBVIOUS
  <1>2. CASE ~ IsServiceName(n)
    BY <1>2 DEF NamespaceOf, Anywhere
  <1>3. CASE IsServiceName(n) /\ Len(n) = 1
    BY <1>3, NamesAssumption DEF NamespaceOf, Labels
  <1>4. CASE IsServiceName(n) /\ Len(n) # 1
    <2>1. k = 3 \/ k = 5
      BY <1>1, <1>4 DEF IsServiceName
    <2>2. 2 \in DOMAIN n
      BY <1>1, <2>1
    <2>3. n[2] \in Nat
      BY <2>2
    <2> QED
      BY <1>4, <2>3 DEF NamespaceOf
  <1> QED
    BY <1>2, <1>3, <1>4

\* The rules of the gateway's policy, but for DNS and additionalEgress, are the one
\* for the proxy and those for what it is meant to reach directly.
LEMMA DirectRules ==
  ASSUME Inv, NEW r \in GatewayEgress(claw) \ (dnsRules \cup claw.extra)
  PROVE  \/ r = Rule(ProxyPods, 8080)
         \/ \E d \in Direct : r.to = TakenFor(d[1]) /\ r.to \in Nat /\ r.port = d[2]
  <1> DEFINE RuleFor(u) == LET t == classifyServiceURL(u)
                           IN  IF t.external THEN Rule(Anywhere, t.port) ELSE buildInClusterEgressRule(t)
  <1>1. WellFormed(claw)
    BY ClawsAssumption DEF Inv
  <1>2. CASE r \in injectTelemetryEgressRules(claw)
    <2>1. claw.traces.enabled \/ claw.logs.enabled
      BY <1>2 DEF injectTelemetryEgressRules
    <2>2. Collectors = {claw.traces.endpoint, logsEndpoint(claw)} \ {NoURL}
      BY <2>1 DEF Collectors
    <2>3. PICK t \in classifyTelemetryEndpoints(claw) :
             r = IF t.external THEN Rule(Anywhere, t.port) ELSE buildInClusterEgressRule(t)
      BY <1>2, <2>1 DEF injectTelemetryEgressRules
    <2>4. PICK u \in Collectors : t = classifyServiceURL(u)
      BY <2>2, <2>3 DEF classifyTelemetryEndpoints
    <2>5. IsHostName(u.host)
      BY <2>4, CollectorFacts
    <2>6. r.to = TakenFor(u.host.name) /\ r.to \in Nat /\ r.port = resolvePort(u)
      BY <2>3, <2>4, <2>5, RuleLeads
    <2> DEFINE d == <<u.host.name, resolvePort(u)>>
    <2>7. d \in Direct /\ d[1] = u.host.name /\ d[2] = resolvePort(u)
      BY <2>4 DEF Direct
    <2> HIDE DEF d
    <2> QED
      BY <2>6, <2>7
  <1>3. CASE claw.bypass /\ r \in InClusterRules(claw)
    <2>1. PICK m \in claw.mcp : ~ classifyServiceURL(m).external /\ r = buildInClusterEgressRule(classifyServiceURL(m))
      BY <1>3 DEF InClusterRules, filterInCluster, classifyMcpEgressTargets
    <2>2. IsHostName(m.host)
      BY <1>1 DEF WellFormed
    <2>3. IsServiceName(m.host.name) \/ Misread(m.host.name)
      BY <2>1, <2>2, TargetFacts
    <2>4. r.to = TakenFor(m.host.name) /\ r.to \in Nat /\ r.port = resolvePort(m)
      BY <2>1, <2>2, RuleLeads
    <2> DEFINE d == <<m.host.name, resolvePort(m)>>
    <2>5. d \in Direct /\ d[1] = m.host.name /\ d[2] = resolvePort(m)
      BY <1>3, <2>3 DEF Direct
    <2> HIDE DEF d
    <2> QED
      BY <2>4, <2>5
  <1> QED
    BY <1>2, <1>3 DEF GatewayEgress

\* What the gateway reaches directly is meant.
LEMMA OnlyDirect ==
  ASSUME Inv, NEW name \in Seq(Nat), NEW port,
         Admits(GatewayEgress(claw) \ (dnsRules \cup claw.extra), name, port)
  PROVE  \E d \in Direct : d[2] = port /\ TakenFor(d[1]) \in {Anywhere, NamespaceOf(name)}
  <1>1. PICK r \in GatewayEgress(claw) \ (dnsRules \cup claw.extra) :
           r.port = port /\ (r.to = Anywhere \/ r.to \in {NamespaceOf(name), AllNamespaces})
    BY DEF Admits
  <1>2. NamespaceOf(name) \in Nat
    BY NamespaceType
  <1>3. r # Rule(ProxyPods, 8080)
    <2>1. r.to # ProxyPods
      BY <1>1, <1>2 DEF Anywhere, AllNamespaces, ProxyPods
    <2> QED
      BY <2>1 DEF Rule
  <1>4. PICK d \in Direct : r.to = TakenFor(d[1]) /\ r.to \in Nat /\ r.port = d[2]
    BY <1>3, DirectRules
  <1>5. r.to # AllNamespaces
    BY <1>4 DEF AllNamespaces
  <1> QED
    BY <1>1, <1>4, <1>5

\* The policies of both pods, the gateway's NO_PROXY and the proxy's routes agree:
\* what the Claw declares is reached on the way it takes, and nothing else directly
\* (injectTelemetryEgressRules, injectMcpGatewayEgressRules, configureGatewayNoProxy,
\* generateProxyConfig, MatchRoute).
THEOREM EgressAlwaysAsDeclared == Spec => []EgressAsDeclared
  <1>1. Inv => EgressAsDeclared
    <2> SUFFICES ASSUME Inv, proxy.up PROVE EgressAsDeclared
      BY DEF EgressAsDeclared
    <2>1. \A m \in claw.mcp :
             WayKnown(m.host.name) =>
                 /\ Reaches(m.host.name, resolvePort(m))
                 /\ m.ref # None => ~ GoesDirect(claw, m.host.name)
      BY ServersReached
    <2>2. \A c \in Creds : \A s \in c.clusters : GoesDirect(claw, s.name) \/ Reaches(s.name, s.port)
      BY ClustersReached
    <2>3. Collectors # {} /\ ~ Misread(otlpEndpoint(claw).host.name) =>
             Reaches(otlpEndpoint(claw).host.name, resolvePort(otlpEndpoint(claw)))
      BY CollectorReached
    <2>4. \A name \in {h.name : h \in Hosts} \cup {m.host.name : m \in claw.mcp} : name \in Seq(Nat)
      <3>1. \A h \in Names : h.name \in Seq(Nat)
        BY DEF Names
      <3>2. \A m \in claw.mcp : m.host \in Names
        BY ClawsAssumption DEF Inv, WellFormed
      <3> QED
        BY <3>1, <3>2, RequestsAssumption
    <2>5. \A name \in {h.name : h \in Hosts} \cup {m.host.name : m \in claw.mcp} :
          \A port \in {80, 443} \cup {resolvePort(m) : m \in claw.mcp} :
             Admits(GatewayEgress(claw) \ (dnsRules \cup claw.extra), name, port) =>
                 \E d \in Direct : d[2] = port /\ TakenFor(d[1]) \in {Anywhere, NamespaceOf(name)}
      BY <2>4, OnlyDirect
    <2> QED
      BY <2>1, <2>2, <2>3, <2>5 DEF EgressAsDeclared
  <1> QED
    BY <1>1, Invariance, PTL

-----------------------------------------------------------------------------
(* Stability of the config *)

\* The MCP servers on one host that reference a credential reference the same one.
RefsAgree(spec) == \A m, n \in Refs(spec) : m.host = n.host => m.ref = n.ref

\* Then it does not matter in which order the map of servers is iterated.
LEMMA OneConfig ==
  ASSUME NEW spec, RefsAgree(spec),
         NEW a \in generateProxyConfig(spec), NEW b \in generateProxyConfig(spec)
  PROVE  a = b
  <1>1. PICK f \in FirstServers(spec) : a = SortRoutes(PlacedRoutes(spec, f))
    BY DEF generateProxyConfig
  <1>2. PICK g \in FirstServers(spec) : b = SortRoutes(PlacedRoutes(spec, g))
    BY DEF generateProxyConfig
  <1>3. \A h \in credentialHosts(spec) : f[h].ref = g[h].ref
    BY DEF FirstServers, RefsAgree
  <1> DEFINE Lent(s) == {Placed(2, 0, mcpCredentialRoute(credByName(spec, s[h].ref), h))
                            : h \in credentialHosts(spec)}
  <1>4. Lent(f) = Lent(g)
    BY <1>3
  <1> HIDE DEF Lent
  <1>5. PlacedRoutes(spec, f) = PlacedRoutes(spec, g)
    BY <1>4 DEF PlacedRoutes, Lent
  <1> QED
    BY <1>1, <1>2, <1>5

\* The ConfigMap is a record of what it holds.
ConfigShape == config = [set |-> config.set, routes |-> config.routes] /\ config.set \in BOOLEAN

\* Reconciling an unchanged Claw leaves the routes alone (generateProxyConfig and its
\* sort), unless two MCP servers on one host reference different credentials: that
\* is the only way the routes can change from one Reconcile to the next.
THEOREM StableUnlessRefsDiffer ==
  ASSUME \A c \in Claws : RefsAgree(c)
  PROVE  Spec => ConfigStable
  <1>1. Init => ConfigShape
    BY DEF Init, ConfigShape
  <1>2. ConfigShape /\ [Next]_vars => ConfigShape'
    <2> SUFFICES ASSUME ConfigShape, [Next]_vars PROVE ConfigShape'
      OBVIOUS
    <2>1. CASE applyProxyResources
      BY <2>1 DEF applyProxyResources, ConfigShape
    <2>2. CASE UNCHANGED config
      BY <2>2 DEF ConfigShape
    <2> QED
      BY <2>1, <2>2 DEF Next, vars, Start, Connect, MitmRequest, Handle
  <1>3. Inv /\ ConfigShape /\ [Next]_vars => [config.set => config' = config]_vars
    <2> SUFFICES ASSUME Inv, ConfigShape, Next, config.set PROVE config' = config
      OBVIOUS
    <2>1. CASE applyProxyResources
      <3>1. PICK routes \in generateProxyConfig(claw) : config' = [set |-> TRUE, routes |-> routes]
        BY <2>1 DEF applyProxyResources
      <3>2. config.routes \in generateProxyConfig(claw) /\ claw \in Claws
        BY DEF Inv, Served
      <3>3. routes = config.routes
        BY <3>2, OneConfig
      <3>4. config = [set |-> TRUE, routes |-> config.routes]
        BY DEF ConfigShape
      <3> QED
        BY <3>1, <3>3, <3>4
    <2>2. CASE UNCHANGED config
      BY <2>2
    <2> QED
      BY <2>1, <2>2 DEF Next, Start, Connect, MitmRequest, Handle
  <1> QED
    BY <1>1, <1>2, <1>3, Invariance, PTL DEF Spec, ConfigStable
=============================================================================
