-------------------------- MODULE ServersView_proof --------------------------
(***************************************************************************)
(* Proofs about the servers screen and the servers the daemon selects, for *)
(* every catalogue, tier, terminal size, query and config file.            *)
(*                                                                         *)
(* What the operators compute comes first.  LeastNatural is the principle  *)
(* of the least natural number, from the well-foundedness of finite sets,  *)
(* and NaturalsReached is induction by way of it: with them FilterServers  *)
(* is shown to list the matching servers in order (Filtered, Fastest),     *)
(* and rebuildGrid's loop to tell the truth about every country it has     *)
(* seen (CardsTell).  The invariant VInv then says of the screen what its  *)
(* properties ask, and what each list and request was made of.             *)
(***************************************************************************)
EXTENDS ServersView, FiniteSetTheorems, WellFoundedInduction, SequenceTheorems, TLAPS

-----------------------------------------------------------------------------
(* Numbers, and places in an order *)

\* Every set of naturals has a least one.
LEMMA LeastNatural ==
    ASSUME NEW T \in SUBSET Nat, T # {}
    PROVE  \E n \in T : \A m \in T : n <= m
<1> DEFINE U == {0 .. n : n \in T}
<1>1. IsWellFoundedOn(StrictSubsetOrdering(Nat), FiniteSubsetsOf(Nat))
  BY FS_StrictSubsetOrderingWellFounded
<1>2. U \subseteq FiniteSubsetsOf(Nat)
  <2> SUFFICES ASSUME NEW n \in T PROVE 0 .. n \in FiniteSubsetsOf(Nat)
    OBVIOUS
  <2>1. IsFiniteSet(0 .. n)
    BY FS_Interval
  <2> QED
    BY <2>1 DEF FiniteSubsetsOf
<1>3. U # {}
  OBVIOUS
<1>4. PICK u \in U : \A v \in U : ~ (<<v, u>> \in StrictSubsetOrdering(Nat))
  BY <1>1, <1>2, <1>3, WFMin
<1>5. PICK n \in T : u = 0 .. n
  OBVIOUS
<1>6. ASSUME NEW m \in T PROVE n <= m
  <2> SUFFICES ASSUME m < n PROVE FALSE
    OBVIOUS
  <2>1. 0 .. m \in U
    OBVIOUS
  <2>2. 0 .. m \subseteq 0 .. n /\ n \in 0 .. n /\ n \notin 0 .. m
    OBVIOUS
  <2>3. 0 .. m \in SUBSET Nat /\ 0 .. n \in SUBSET Nat
    OBVIOUS
  <2> QED
    BY <1>4, <1>5, <2>1, <2>2, <2>3 DEF StrictSubsetOrdering
<1> QED
  BY <1>6

\* Induction, for the set of the numbers a claim holds of.
LEMMA NaturalsReached ==
    ASSUME NEW S, 0 \in S, \A n \in Nat : n \in S => n + 1 \in S
    PROVE  Nat \subseteq S
<1> SUFFICES ASSUME {n \in Nat : n \notin S} # {} PROVE FALSE
  OBVIOUS
<1>1. PICK n \in {k \in Nat : k \notin S} : \A m \in {k \in Nat : k \notin S} : n <= m
  BY LeastNatural
<1>2. n # 0 /\ n - 1 \in Nat
  BY <1>1
<1>3. n - 1 \in S
  BY <1>1, <1>2
<1> QED
  BY <1>1, <1>2, <1>3

\* R orders S; an element's place is one more than the elements below it.
Orders(R, S) ==
    /\ \A i \in S : <<i, i>> \notin R
    /\ \A i, j \in S : i # j => <<i, j>> \in R \/ <<j, i>> \in R
    /\ \A i, j, k \in S : <<i, j>> \in R /\ <<j, k>> \in R => <<i, k>> \in R

Below(S, R, i) == {j \in S : <<j, i>> \in R}
Place(S, R, i) == 1 + Cardinality(Below(S, R, i))

\* The places are the numbers from one to the size of the set.
LEMMA Places ==
    ASSUME NEW S, IsFiniteSet(S), NEW R, Orders(R, S)
    PROVE  /\ Cardinality(S) \in Nat
           /\ \A i \in S : Place(S, R, i) \in 1 .. Cardinality(S)
           /\ \A i, j \in S : <<i, j>> \in R => Place(S, R, i) < Place(S, R, j)
           /\ \A i, j \in S : i # j => Place(S, R, i) # Place(S, R, j)
           /\ \A k \in 1 .. Cardinality(S) : \E i \in S : Place(S, R, i) = k
<1>1. Cardinality(S) \in Nat
  BY FS_CardinalityType
<1>2. ASSUME NEW i \in S
      PROVE  /\ IsFiniteSet(Below(S, R, i))
             /\ Cardinality(Below(S, R, i)) \in Nat
             /\ Cardinality(Below(S, R, i)) < Cardinality(S)
  <2>1. Below(S, R, i) \in SUBSET S /\ i \notin Below(S, R, i)
    BY DEF Below, Orders
  <2>2. IsFiniteSet(Below(S, R, i)) /\ Cardinality(Below(S, R, i)) <= Cardinality(S)
        /\ (Cardinality(S) = Cardinality(Below(S, R, i)) => S = Below(S, R, i))
    BY <2>1, FS_Subset
  <2>3. Cardinality(Below(S, R, i)) \in Nat
    BY <2>2, FS_CardinalityType
  <2> QED
    BY <1>1, <2>1, <2>2, <2>3
<1>3. \A i \in S : Place(S, R, i) \in 1 .. Cardinality(S)
  BY <1>1, <1>2 DEF Place
<1>4. ASSUME NEW i \in S, NEW j \in S, <<i, j>> \in R
      PROVE  Place(S, R, i) < Place(S, R, j)
  <2>1. Below(S, R, i) \in SUBSET Below(S, R, j) /\ i \in Below(S, R, j) /\ i \notin Below(S, R, i)
    BY <1>4 DEF Below, Orders
  <2>2. Cardinality(Below(S, R, i)) <= Cardinality(Below(S, R, j))
        /\ (Cardinality(Below(S, R, j)) = Cardinality(Below(S, R, i)) => Below(S, R, j) = Below(S, R, i))
    BY <1>2, <2>1, FS_Subset
  <2> QED
    BY <1>2, <2>1, <2>2 DEF Place
<1>5. ASSUME NEW i \in S, NEW j \in S, i # j
      PROVE  Place(S, R, i) # Place(S, R, j)
  <2>1. <<i, j>> \in R \/ <<j, i>> \in R
    BY <1>5 DEF Orders
  <2> QED
    BY <2>1, <1>3, <1>4
<1>6. ASSUME NEW k \in 1 .. Cardinality(S)
      PROVE  \E i \in S : Place(S, R, i) = k
  <2> DEFINE T == 1 .. Cardinality(S)
             f == [i \in S |-> Place(S, R, i)]
  <2>1. f \in [S -> T] /\ \A i, j \in S : f[i] = f[j] => i = j
    BY <1>3, <1>5
  <2>2. f \in Injection(S, T)
    BY <2>1 DEF Injection, IsInjective
  <2>3. IsFiniteSet(T) /\ Cardinality(T) = Cardinality(S)
    BY <1>1, FS_Interval
  <2>4. f \in Surjection(S, T)
    BY <2>2, <2>3, FS_Injection
  <2> QED
    BY <2>4 DEF Surjection
<1> QED
  BY <1>1, <1>3, <1>4, <1>5, <1>6

\* What an ordering of some positions of a list is.
IsOrdered(found, list, at, R) ==
    \E order \in [1 .. Cardinality(at) -> at] :
        /\ found = [k \in 1 .. Cardinality(at) |-> list[order[k]]]
        /\ \A i \in at : \E k \in 1 .. Cardinality(at) : order[k] = i
        /\ \A k, l \in 1 .. Cardinality(at) : k < l => <<order[k], order[l]>> \in R

\* Placed moves every position to its place.
LEMMA Ordering ==
    ASSUME NEW list, NEW S, IsFiniteSet(S), NEW R, Orders(R, S)
    PROVE  /\ Cardinality(S) \in Nat
           /\ IsOrdered(Placed(list, [i \in S |-> Place(S, R, i)]), list, S, R)
<1> DEFINE n == Cardinality(S)
           place == [i \in S |-> Place(S, R, i)]
           moved == {<<place[i], list[i]>> : i \in S}
           order == [k \in 1 .. n |-> CHOOSE i \in S : Place(S, R, i) = k]
<1>1. n \in Nat
  BY Places
<1>2. ASSUME NEW k \in 1 .. n
      PROVE  order[k] \in S /\ Place(S, R, order[k]) = k
  BY Places
<1>3. ASSUME NEW k \in 1 .. n
      PROVE  (CHOOSE p \in moved : p[1] = k)[2] = list[order[k]]
  <2> DEFINE q == <<k, list[order[k]]>>
  <2>1. q \in moved /\ q[1] = k
    BY <1>2
  <2>2. ASSUME NEW p \in moved, p[1] = k PROVE p = q
    <3>1. PICK i \in S : p = <<Place(S, R, i), list[i]>>
      OBVIOUS
    <3>2. i = order[k]
      BY <3>1, <2>2, <1>2, Places
    <3> QED
      BY <3>1, <3>2, <2>2
  <2> HIDE DEF moved
  <2> QED
    BY <2>1, <2>2
<1>4. order \in [1 .. n -> S]
  BY <1>2
<1>5. \A i \in S : \E k \in 1 .. n : order[k] = i
  BY <1>2, Places
<1>6. ASSUME NEW k \in 1 .. n, NEW l \in 1 .. n, k < l
      PROVE  <<order[k], order[l]>> \in R
  <2>1. order[k] # order[l]
    BY <1>2, <1>6
  <2>2. <<order[l], order[k]>> \notin R
    <3> SUFFICES ASSUME <<order[l], order[k]>> \in R PROVE FALSE
      OBVIOUS
    <3>1. Place(S, R, order[l]) < Place(S, R, order[k])
      BY <1>2, Places
    <3> QED
      BY <3>1, <1>2, <1>6, <1>1
  <2> QED
    BY <2>1, <2>2, <1>2 DEF Orders
<1>7. Placed(list, place) = [k \in 1 .. n |-> list[order[k]]]
  BY <1>3 DEF Placed
<1> HIDE DEF order
<1> QED
  BY <1>1, <1>4, <1>5, <1>6, <1>7 DEF IsOrdered

\* The two orders there are: sort.Slice's and the list's own.
ByServer(list, at) == {p \in at \X at : Ahead(list, p[1], p[2])}
ByIndex(at) == {p \in at \X at : p[1] < p[2]}

LEMMA KeptOrdered ==
    ASSUME NEW list, NEW at, IsFiniteSet(at), at \in SUBSET Nat
    PROVE  /\ Cardinality(at) \in Nat
           /\ IsOrdered(Kept(list, at), list, at, ByIndex(at))
<1>1. Orders(ByIndex(at), at)
  BY DEF Orders, ByIndex
<1>2. \A i \in at : {j \in at : j < i} = Below(at, ByIndex(at), i)
  BY DEF Below, ByIndex
<1>3. ASSUME NEW i \in at
      PROVE  1 + Cardinality({j \in at : j < i}) = Place(at, ByIndex(at), i)
  BY <1>2 DEF Place
<1> QED
  BY <1>1, <1>3, Ordering DEF Kept

-----------------------------------------------------------------------------
(* Lists of servers *)

\* What the catalogue, the daemon's answer and every filtered list are.
Listing(list) ==
    /\ list \in Seq(ServerRec)
    /\ \A i, j \in DOMAIN list : i # j => list[i].name # list[j].name
    /\ \A i \in DOMAIN list : list[i].name # "" /\ list[i].country # ""

LEMMA AheadOrders ==
    ASSUME NEW list \in Seq(ServerRec), NEW at \in SUBSET DOMAIN list
    PROVE  Orders(ByServer(list, at), at)
<1>1. at \subseteq Nat /\ \A i \in at : list[i] \in ServerRec
  OBVIOUS
<1>2. \A i \in at : list[i].score \in Nat /\ list[i].load \in Nat
  BY <1>1 DEF ServerRec
<1>3. \A i, j \in at : <<i, j>> \in ByServer(list, at) <=> Ahead(list, i, j)
  BY DEF ByServer
<1>4. \A i \in at : ~Ahead(list, i, i)
  BY <1>1, <1>2 DEF Ahead, Before
<1>5. \A i, j \in at : i # j => Ahead(list, i, j) \/ Ahead(list, j, i)
  BY <1>1, <1>2 DEF Ahead, Before
<1>6. \A i, j, k \in at : Ahead(list, i, j) /\ Ahead(list, j, k) => Ahead(list, i, k)
  BY <1>1, <1>2 DEF Ahead, Before
<1> QED
  BY <1>3, <1>4, <1>5, <1>6 DEF Orders

\* The servers of a list that a filter leaves.
Matching(list, f, tier) == {s \in Range(list) : Matches(s, f, tier)}

\* FilterServers lists the matching servers, each once, none before a better.
LEMMA Filtered ==
    ASSUME NEW list, Listing(list), NEW f, NEW tier, NEW found,
           found = FilterServers(list, f, tier)
    PROVE  /\ Listing(found)
           /\ Range(found) = Matching(list, f, tier)
           /\ \A k, l \in DOMAIN found : k < l => ~Before(found[l], found[k])
<1> DEFINE at == {i \in DOMAIN list : Matches(list[i], f, tier)}
           R == ByServer(list, at)
           n == Cardinality(at)
<1>1. list \in Seq(ServerRec) /\ at \in SUBSET DOMAIN list
  BY DEF Listing
<1>2. IsFiniteSet(at)
  <2>1. IsFiniteSet(1 .. Len(list)) /\ DOMAIN list = 1 .. Len(list)
    BY <1>1, FS_Interval
  <2> QED
    BY <1>1, <2>1, FS_Subset
<1>3. Orders(R, at)
  BY <1>1, AheadOrders
<1>4. ASSUME NEW i \in at
      PROVE  1 + Cardinality({j \in at : Ahead(list, j, i)}) = Place(at, R, i)
  BY DEF Below, ByServer, Place
<1>5. n \in Nat /\ IsOrdered(found, list, at, R)
  BY <1>2, <1>3, <1>4, Ordering DEF FilterServers
<1>6. PICK order \in [1 .. n -> at] :
        /\ found = [k \in 1 .. n |-> list[order[k]]]
        /\ \A i \in at : \E k \in 1 .. n : order[k] = i
        /\ \A k, l \in 1 .. n : k < l => <<order[k], order[l]>> \in R
  BY <1>5 DEF IsOrdered
<1>7. ASSUME NEW k \in 1 .. n, NEW l \in 1 .. n, k < l
      PROVE  order[k] # order[l] /\ ~Before(found[l], found[k])
  <2>1. order[k] \in DOMAIN list /\ order[l] \in DOMAIN list
    BY <1>1
  <2>2. list[order[k]] \in ServerRec /\ list[order[l]] \in ServerRec
    BY <1>1, <2>1
  <2>3. Ahead(list, order[k], order[l]) /\ <<order[k], order[k]>> \notin R
    BY <1>3, <1>6, <1>7 DEF Orders, ByServer
  <2>4. ~Before(list[order[l]], list[order[k]])
    BY <2>2, <2>3 DEF Ahead, Before, ServerRec
  <2> QED
    BY <1>6, <1>7, <2>3, <2>4
<1>8. \A k, l \in 1 .. n : k # l => order[k] # order[l]
  BY <1>5, <1>7
<1>9. found \in Seq(ServerRec) /\ DOMAIN found = 1 .. n
  <2>1. \A k \in 1 .. n : list[order[k]] \in ServerRec
    BY <1>1
  <2> QED
    BY <1>5, <1>6, <2>1
<1>10. Listing(found)
  <2>1. \A k \in 1 .. n : order[k] \in DOMAIN list /\ found[k] = list[order[k]]
    BY <1>1, <1>6
  <2>2. \A i, j \in DOMAIN list : i # j => list[i].name # list[j].name
    BY DEF Listing
  <2>3. \A i \in DOMAIN list : list[i].name # "" /\ list[i].country # ""
    BY DEF Listing
  <2>4. \A k, l \in 1 .. n : k # l => found[k].name # found[l].name
    BY <1>8, <2>1, <2>2
  <2>5. \A k \in 1 .. n : found[k].name # "" /\ found[k].country # ""
    BY <2>1, <2>3
  <2>6. \A i, j \in DOMAIN found : i # j => found[i].name # found[j].name
    BY <1>9, <2>4
  <2>7. \A i \in DOMAIN found : found[i].name # "" /\ found[i].country # ""
    BY <1>9, <2>5
  <2> QED
    BY <1>9, <2>6, <2>7, Zenon DEF Listing
<1>11. Range(found) = Matching(list, f, tier)
  <2>1. \A k \in 1 .. n : found[k] \in Matching(list, f, tier)
    <3> SUFFICES ASSUME NEW k \in 1 .. n
                 PROVE  found[k] \in Matching(list, f, tier)
      OBVIOUS
    <3>1. order[k] \in DOMAIN list /\ Matches(list[order[k]], f, tier) /\ found[k] = list[order[k]]
      BY <1>6
    <3> QED
      BY <3>1 DEF Matching, Range
  <2>2. ASSUME NEW s \in Matching(list, f, tier)
        PROVE  \E k \in 1 .. n : found[k] = s
    <3>1. PICK i \in DOMAIN list : s = list[i] /\ Matches(list[i], f, tier)
      BY DEF Matching, Range
    <3>2. PICK k \in 1 .. n : order[k] = i
      BY <1>6, <3>1
    <3> QED
      BY <1>6, <3>1, <3>2
  <2> QED
    BY <1>9, <2>1, <2>2 DEF Range
<1> QED
  BY <1>7, <1>9, <1>10, <1>11

\* FindFastestServer has the best, and nothing only when nothing matches.
LEMMA Fastest ==
    ASSUME NEW list, Listing(list), NEW f, NEW tier
    PROVE  LET best == FindFastestServer(list, f, tier)
           IN  /\ best \in {NoServer} \cup ServerRec
               /\ Matching(list, f, tier) = {} => best = NoServer
               /\ Matching(list, f, tier) # {} =>
                     best # NoServer /\ BestOf(best, Matching(list, f, tier))
<1> DEFINE found == FilterServers(list, f, tier)
           S == Matching(list, f, tier)
<1>1. /\ Listing(found) /\ Range(found) = S
      /\ \A k, l \in DOMAIN found : k < l => ~Before(found[l], found[k])
  BY Filtered
<1> HIDE DEF found
<1>2. found \in Seq(ServerRec) /\ DOMAIN found = 1 .. Len(found) /\ Len(found) \in Nat
  <2>1. found \in Seq(ServerRec)
    BY <1>1 DEF Listing
  <2> HIDE DEF ServerRec
  <2> QED
    BY <2>1
<1>3. NoServer.name = ""
  BY DEF NoServer
<1>4. CASE found = <<>>
  <2>1. S = {}
    BY <1>1, <1>4 DEF Range
  <2> QED
    BY <1>3, <1>4, <2>1 DEF FindFastestServer, found
<1>5. CASE found # <<>>
  <2>1. 1 \in DOMAIN found
    BY <1>2, <1>5
  <2>2. found[1] \in S
    BY <1>1, <2>1 DEF Range
  <2>6. found[1] \in ServerRec
    BY <1>2, <2>1
  <2>7. found[1].name # ""
    BY <1>1, <2>1 DEF Listing
  <2>3. ASSUME NEW t \in S PROVE ~Before(t, found[1])
    <3>1. PICK k \in DOMAIN found : t = found[k]
      BY <1>1 DEF Range
    <3>2. k = 1 \/ 1 < k
      BY <1>2
    <3>3. ~Before(found[1], found[1])
      BY <2>6 DEF Before, ServerRec
    <3> QED
      BY <1>1, <2>1, <3>1, <3>2, <3>3
  <2>4. found[1] # NoServer
    BY <1>3, <2>7
  <2>5. FindFastestServer(list, f, tier) = found[1]
    BY <1>5 DEF FindFastestServer, found
  <2> QED
    BY <2>2, <2>3, <2>4, <2>5, <2>6 DEF BestOf
<1> QED
  BY <1>4, <1>5

LEMMA Known == Listing(Catalogue) /\ Listing(<<>>)
<1>1. Listing(<<>>)
  BY DEF Listing
<1> QED
  BY <1>1, CatalogueAssumption DEF Listing

\* The daemon can give a server of that name.
Gives(s) == \E t \in Range(Catalogue) :
                t.name = s.name /\ t.online /\ EffectiveTier(t) <= MaxTier

\* What cmdServers sends.
LEMMA Sent ==
    /\ Listing(ServerList)
    /\ \A s \in Range(ServerList) : s.score = 0 /\ Gives(s)
<1> DEFINE entries == FilterServers(Catalogue, Everything, MaxTier)
<1>1. Listing(entries) /\ Range(entries) = Matching(Catalogue, Everything, MaxTier)
  BY Known, Filtered
<1>2. ServerList = [i \in DOMAIN entries |-> [entries[i] EXCEPT !.score = 0]]
  BY DEF ServerList
<1> HIDE DEF entries
<1>3. entries \in Seq(ServerRec) /\ DOMAIN entries = 1 .. Len(entries) /\ Len(entries) \in Nat
  <2>1. entries \in Seq(ServerRec)
    BY <1>1 DEF Listing
  <2> HIDE DEF ServerRec
  <2> QED
    BY <2>1
<1>4. ASSUME NEW i \in DOMAIN entries
      PROVE  /\ ServerList[i] \in ServerRec
             /\ ServerList[i].score = 0
             /\ ServerList[i].name = entries[i].name
             /\ ServerList[i].country = entries[i].country
  <2>1. entries[i] \in ServerRec
    BY <1>3
  <2>2. ServerList[i] = [entries[i] EXCEPT !.score = 0]
    BY <1>2
  <2> QED
    BY <2>1, <2>2 DEF ServerRec
<1>5. DOMAIN ServerList = 1 .. Len(entries)
  BY <1>2, <1>3
<1>6. ServerList \in Seq(ServerRec)
  <2>1. ServerList \in [1 .. Len(entries) -> ServerRec]
    BY <1>2, <1>3, <1>4
  <2> QED
    BY <1>3, <2>1
<1>7. Listing(ServerList)
  BY <1>1, <1>3, <1>4, <1>5, <1>6 DEF Listing
<1>8. ASSUME NEW s \in Range(ServerList) PROVE s.score = 0 /\ Gives(s)
  <2>1. PICK i \in DOMAIN entries : s = ServerList[i]
    BY <1>3, <1>5 DEF Range
  <2>2. entries[i] \in Range(Catalogue) /\ Matches(entries[i], Everything, MaxTier)
    BY <1>1 DEF Range, Matching
  <2> QED
    BY <1>4, <2>1, <2>2 DEF Gives, Matches
<1> QED
  BY <1>7, <1>8

-----------------------------------------------------------------------------
(* The grid *)

\* The recursive function of CardsOf exists, and is what its equations say.
LEMMA CardsGrow ==
    ASSUME NEW shown \in Seq(ServerRec)
    PROVE  /\ CardsOf(shown)[0] = <<>>
           /\ \A n \in 1 .. Len(shown) :
                 CardsOf(shown)[n] = AddServer(CardsOf(shown)[n - 1], shown[n])
<1> DEFINE Grown(f, m) ==
               f = [n \in 0 .. m |-> IF n = 0 THEN <<>> ELSE AddServer(f[n - 1], shown[n])]
           S == {m \in Nat : \E f : Grown(f, m)}
<1>1. 0 \in S
  <2> DEFINE f == [n \in 0 .. 0 |-> <<>>]
  <2>1. f[0] = <<>> /\ \A n \in 0 .. 0 : n = 0
    OBVIOUS
  <2>2. Grown(f, 0)
    BY <2>1
  <2> HIDE DEF Grown, f
  <2>3. \E h : Grown(h, 0)
    BY <2>2
  <2> QED
    BY <2>3
<1>2. ASSUME NEW m \in Nat, m \in S PROVE m + 1 \in S
  <2>1. PICK f : Grown(f, m)
    BY <1>2
  <2> DEFINE g == [n \in 0 .. m + 1 |->
                      IF n = 0 THEN <<>> ELSE AddServer(f[n - 1], shown[n])]
  <2>2. \A n \in 0 .. m : g[n] = f[n]
    BY <2>1
  <2>3. \A n \in 0 .. m + 1 : n # 0 => g[n - 1] = f[n - 1]
    <3> SUFFICES ASSUME NEW n \in 0 .. m + 1, n # 0 PROVE g[n - 1] = f[n - 1]
      OBVIOUS
    <3>1. n - 1 \in 0 .. m
      OBVIOUS
    <3> QED
      BY <2>2, <3>1
  <2>4. Grown(g, m + 1)
    BY <2>3
  <2> HIDE DEF Grown, g
  <2>5. \E h : Grown(h, m + 1)
    BY <2>4
  <2> QED
    BY <2>5
<1>3. Nat \subseteq S
  <2> HIDE DEF S
  <2> QED
    BY <1>1, <1>2, NaturalsReached
<1>4. Len(shown) \in Nat
  OBVIOUS
<1>5. Grown(CardsOf(shown), Len(shown))
  <2>1. CardsOf(shown) = CHOOSE f : Grown(f, Len(shown))
    BY DEF CardsOf
  <2>2. \E f : Grown(f, Len(shown))
    BY <1>3, <1>4
  <2> HIDE DEF Grown
  <2> QED
    BY <2>1, <2>2
<1> QED
  BY <1>4, <1>5

\* What the cards tell of the first n servers of a list.
Tells(entries, shown, n) ==
    /\ entries \in Seq(GridEntry)
    /\ \A i \in DOMAIN entries :
          /\ \E m \in 1 .. n : entries[i].server = shown[m]
          /\ entries[i].server.country = entries[i].country
          /\ \A k \in 1 .. n : shown[k].country = entries[i].country =>
                entries[i].server.load <= shown[k].load
          /\ entries[i].count = Cardinality({k \in 1 .. n : shown[k].country = entries[i].country})
    /\ \A i, j \in DOMAIN entries : i < j =>
          /\ entries[i].country # entries[j].country
          /\ entries[i].server.load <= entries[j].server.load
    /\ \A k \in 1 .. n : \E i \in DOMAIN entries : entries[i].country = shown[k].country

\* Lists without scores come in the order of their loads.
Rising(shown) == \A k, l \in DOMAIN shown : k < l => shown[k].load <= shown[l].load

Those(shown, c, n) == {k \in 1 .. n : shown[k].country = c}

LEMMA OneMore ==
    ASSUME NEW shown, NEW c, NEW n \in Nat
    PROVE  /\ Cardinality(Those(shown, c, n)) \in Nat
           /\ Cardinality(Those(shown, c, n + 1)) =
                IF shown[n + 1].country = c THEN Cardinality(Those(shown, c, n)) + 1
                ELSE Cardinality(Those(shown, c, n))
<1>1. IsFiniteSet(Those(shown, c, n)) /\ Cardinality(Those(shown, c, n)) \in Nat
  <2>1. IsFiniteSet(1 .. n)
    BY FS_Interval
  <2>2. Those(shown, c, n) \in SUBSET (1 .. n)
    BY DEF Those
  <2> QED
    BY <2>1, <2>2, FS_Subset, FS_CardinalityType
<1>2. CASE shown[n + 1].country = c
  <2>1. Those(shown, c, n + 1) = Those(shown, c, n) \cup {n + 1} /\ n + 1 \notin Those(shown, c, n)
    BY <1>2 DEF Those
  <2> QED
    BY <1>1, <1>2, <2>1, FS_AddElement
<1>3. CASE shown[n + 1].country # c
  <2>1. Those(shown, c, n + 1) = Those(shown, c, n)
    BY <1>3 DEF Those
  <2> QED
    BY <1>1, <1>3, <2>1
<1> QED
  BY <1>2, <1>3

\* One turn of the loop, for a country that has a card.
LEMMA CardUpdated ==
    ASSUME NEW shown \in Seq(ServerRec), Rising(shown), NEW n \in Nat, n + 1 \in DOMAIN shown,
           NEW entries, Tells(entries, shown, n),
           NEW at \in DOMAIN entries, entries[at].country = shown[n + 1].country
    PROVE  /\ AddServer(entries, shown[n + 1]) =
                [entries EXCEPT ![at] = Entry(@.country, @.server, @.count + 1)]
           /\ Tells(AddServer(entries, shown[n + 1]), shown, n + 1)
<1> DEFINE s == shown[n + 1]
           new == [entries EXCEPT ![at] = Entry(@.country, @.server, @.count + 1)]
<1>1. /\ entries \in Seq(GridEntry) /\ DOMAIN entries \subseteq Nat
      /\ \A i \in DOMAIN entries : entries[i] \in GridEntry
  <2>1. entries \in Seq(GridEntry)
    BY DEF Tells
  <2> HIDE DEF GridEntry
  <2> QED
    BY <2>1
<1>10. \A i, j \in DOMAIN entries : i < j =>
          /\ entries[i].country # entries[j].country
          /\ entries[i].server.load <= entries[j].server.load
  BY DEF Tells
<1>11. ASSUME NEW i \in DOMAIN entries
       PROVE  /\ \E m \in 1 .. n : entries[i].server = shown[m]
              /\ entries[i].server.country = entries[i].country
              /\ \A k \in 1 .. n : shown[k].country = entries[i].country =>
                    entries[i].server.load <= shown[k].load
              /\ entries[i].count = Cardinality(Those(shown, entries[i].country, n))
  BY DEF Tells, Those
<1>12. \A k \in 1 .. n : \E i \in DOMAIN entries : entries[i].country = shown[k].country
  BY DEF Tells
<1>2. \A m \in 1 .. n + 1 : m \in DOMAIN shown /\ shown[m] \in ServerRec
  OBVIOUS
<1>3. {i \in DOMAIN entries : entries[i].country = s.country} = {at}
  <2>1. ASSUME NEW i \in DOMAIN entries, entries[i].country = s.country PROVE i = at
    <3>1. i \in Nat /\ at \in Nat
      BY <1>1
    <3>2. ~(i < at) /\ ~(at < i)
      BY <1>10, <2>1
    <3> QED
      BY <3>1, <3>2
  <2> QED
    BY <2>1
<1>4. ~(s.load < entries[at].server.load)
  <2>1. PICK m \in 1 .. n : entries[at].server = shown[m]
    BY <1>11
  <2>2. m < n + 1 /\ m \in DOMAIN shown
    BY <1>2
  <2>3. shown[m].load <= s.load
    BY <2>2 DEF Rising
  <2>4. shown[m].load \in Nat /\ s.load \in Nat
    BY <1>2, <2>2 DEF ServerRec
  <2> QED
    BY <2>1, <2>3, <2>4
<1>5. AddServer(entries, s) = new
  <2>1. (CHOOSE i \in {at} : TRUE) = at
    OBVIOUS
  <2> QED
    BY <1>3, <1>4, <2>1 DEF AddServer
<1>6. /\ new \in Seq(GridEntry) /\ DOMAIN new = DOMAIN entries
      /\ \A i \in DOMAIN entries :
            /\ new[i].country = entries[i].country /\ new[i].server = entries[i].server
            /\ new[i].count = IF i = at THEN entries[i].count + 1 ELSE entries[i].count
  <2>1. Entry(entries[at].country, entries[at].server, entries[at].count + 1) \in GridEntry
    BY <1>1 DEF GridEntry, Entry
  <2>2. new \in Seq(GridEntry) /\ DOMAIN new = DOMAIN entries
    BY <1>1, <2>1
  <2> QED
    BY <2>2 DEF Entry
<1> HIDE DEF new
<1>14. ASSUME NEW c
       PROVE  /\ Cardinality(Those(shown, c, n)) \in Nat
              /\ Cardinality(Those(shown, c, n + 1)) =
                   IF shown[n + 1].country = c THEN Cardinality(Those(shown, c, n)) + 1
                   ELSE Cardinality(Those(shown, c, n))
  BY OneMore
<1>7. ASSUME NEW i \in DOMAIN new
      PROVE  /\ \E m \in 1 .. n + 1 : new[i].server = shown[m]
             /\ new[i].server.country = new[i].country
             /\ \A k \in 1 .. n + 1 : shown[k].country = new[i].country =>
                   new[i].server.load <= shown[k].load
             /\ new[i].count = Cardinality(Those(shown, new[i].country, n + 1))
  <2>1. PICK m \in 1 .. n : new[i].server = shown[m]
    BY <1>6, <1>11
  <2>2. new[i].server.country = new[i].country
    BY <1>6, <1>11
  <2>3. ASSUME NEW k \in 1 .. n + 1, shown[k].country = new[i].country
        PROVE  new[i].server.load <= shown[k].load
    <3>1. CASE k = n + 1
      BY <1>2, <2>1, <3>1 DEF Rising
    <3>2. CASE k \in 1 .. n
      BY <1>6, <1>11, <2>3, <3>2
    <3> QED
      BY <3>1, <3>2
  <2>4. new[i].count = Cardinality(Those(shown, new[i].country, n + 1))
    <3>1. entries[i].count = Cardinality(Those(shown, entries[i].country, n))
      BY <1>6, <1>11
    <3>2. (i = at) <=> (s.country = entries[i].country)
      BY <1>3, <1>6
    <3> QED
      BY <1>6, <1>14, <3>1, <3>2
  <2> QED
    BY <2>1, <2>2, <2>3, <2>4
<1>8. \A i, j \in DOMAIN new : i < j =>
          /\ new[i].country # new[j].country
          /\ new[i].server.load <= new[j].server.load
  BY <1>6, <1>10
<1>9. ASSUME NEW k \in 1 .. n + 1
      PROVE  \E i \in DOMAIN new : new[i].country = shown[k].country
  <2>1. CASE k = n + 1
    BY <1>6, <2>1
  <2>2. CASE k \in 1 .. n
    BY <1>6, <1>12, <2>2
  <2> QED
    BY <2>1, <2>2
<1>13. Tells(new, shown, n + 1)
  BY <1>6, <1>7, <1>8, <1>9, Zenon DEF Tells, Those
<1> QED
  BY <1>5, <1>13 DEF new

\* One turn of the loop, for a country that has none.
LEMMA CardAdded ==
    ASSUME NEW shown \in Seq(ServerRec), Rising(shown), NEW n \in Nat, n + 1 \in DOMAIN shown,
           NEW entries, Tells(entries, shown, n),
           \A i \in DOMAIN entries : entries[i].country # shown[n + 1].country
    PROVE  Tells(AddServer(entries, shown[n + 1]), shown, n + 1)
<1> DEFINE s == shown[n + 1]
           new == Append(entries, Entry(s.country, s, 1))
           last == Len(entries) + 1
<1>1. /\ entries \in Seq(GridEntry) /\ DOMAIN entries = 1 .. Len(entries) /\ Len(entries) \in Nat
      /\ \A i \in DOMAIN entries : entries[i] \in GridEntry
  <2>1. entries \in Seq(GridEntry)
    BY DEF Tells
  <2> HIDE DEF GridEntry
  <2> QED
    BY <2>1
<1>2. \A m \in 1 .. n + 1 : m \in DOMAIN shown /\ shown[m] \in ServerRec
  OBVIOUS
<1>3. \A i, j \in DOMAIN entries : i < j =>
          /\ entries[i].country # entries[j].country
          /\ entries[i].server.load <= entries[j].server.load
  BY DEF Tells
<1>4. ASSUME NEW i \in DOMAIN entries
      PROVE  /\ \E m \in 1 .. n : entries[i].server = shown[m]
             /\ entries[i].server.country = entries[i].country
             /\ \A k \in 1 .. n : shown[k].country = entries[i].country =>
                   entries[i].server.load <= shown[k].load
             /\ entries[i].count = Cardinality(Those(shown, entries[i].country, n))
  BY DEF Tells, Those
<1>5. \A k \in 1 .. n : \E i \in DOMAIN entries : entries[i].country = shown[k].country
  BY DEF Tells
<1>6. AddServer(entries, s) = new
  <2>1. {i \in DOMAIN entries : entries[i].country = s.country} = {}
    OBVIOUS
  <2> QED
    BY <2>1 DEF AddServer
<1>7. /\ new \in Seq(GridEntry) /\ DOMAIN new = 1 .. last
      /\ \A i \in DOMAIN entries : new[i] = entries[i]
      /\ new[last].country = s.country /\ new[last].server = s /\ new[last].count = 1
  <2>1. Entry(s.country, s, 1) \in GridEntry
    BY <1>2 DEF Entry, GridEntry, ServerRec
  <2> HIDE DEF GridEntry
  <2>2. /\ new \in Seq(GridEntry) /\ DOMAIN new = 1 .. last
        /\ \A i \in DOMAIN entries : new[i] = entries[i]
        /\ new[last] = Entry(s.country, s, 1)
    BY <1>1, <2>1
  <2> QED
    BY <2>2 DEF Entry
<1> HIDE DEF new
<1>8. \A k \in 1 .. n : shown[k].country # s.country /\ shown[k].load <= s.load
  <2> SUFFICES ASSUME NEW k \in 1 .. n
               PROVE  shown[k].country # s.country /\ shown[k].load <= s.load
    OBVIOUS
  <2>1. shown[k].country # s.country
    BY <1>5
  <2>2. k < n + 1 /\ k \in DOMAIN shown
    BY <1>2
  <2> QED
    BY <2>1, <2>2 DEF Rising
<1>9. ASSUME NEW i \in DOMAIN new
      PROVE  /\ \E m \in 1 .. n + 1 : new[i].server = shown[m]
             /\ new[i].server.country = new[i].country
             /\ \A k \in 1 .. n + 1 : shown[k].country = new[i].country =>
                   new[i].server.load <= shown[k].load
             /\ new[i].count = Cardinality(Those(shown, new[i].country, n + 1))
  <2>1. CASE i = last
    <3>1. new[i].server = s /\ new[i].country = s.country /\ n + 1 \in 1 .. n + 1
      BY <1>7, <2>1
    <3>2. s.load <= s.load
      BY <1>2 DEF ServerRec
    <3>3. Those(shown, s.country, n + 1) = {n + 1}
      BY <1>8 DEF Those
    <3>4. Cardinality({n + 1}) = 1
      BY FS_Singleton
    <3>5. \A k \in 1 .. n + 1 : k \in 1 .. n \/ k = n + 1
      OBVIOUS
    <3> QED
      BY <1>7, <1>8, <2>1, <3>1, <3>2, <3>3, <3>4, <3>5
  <2>2. CASE i # last
    <3>1. i \in DOMAIN entries /\ new[i] = entries[i]
      BY <1>1, <1>7, <2>2
    <3>2. PICK m \in 1 .. n : new[i].server = shown[m]
      BY <1>4, <3>1
    <3>3. new[i].server.country = new[i].country
      BY <1>4, <3>1
    <3>4. new[i].country # s.country
      BY <3>1
    <3>5. \A k \in 1 .. n + 1 : shown[k].country = new[i].country =>
             new[i].server.load <= shown[k].load
      <4> SUFFICES ASSUME NEW k \in 1 .. n + 1, shown[k].country = new[i].country
                   PROVE  new[i].server.load <= shown[k].load
        OBVIOUS
      <4>1. k \in 1 .. n
        BY <3>4
      <4> QED
        BY <1>4, <3>1, <4>1
    <3>6. new[i].count = Cardinality(Those(shown, new[i].country, n + 1))
      <4> DEFINE c == new[i].country
      <4> HIDE DEF c
      <4>1. /\ Cardinality(Those(shown, c, n)) \in Nat
            /\ Cardinality(Those(shown, c, n + 1)) =
                 IF shown[n + 1].country = c THEN Cardinality(Those(shown, c, n)) + 1
                 ELSE Cardinality(Those(shown, c, n))
        BY OneMore
      <4>2. new[i].count = Cardinality(Those(shown, c, n)) /\ shown[n + 1].country # c
        BY <1>4, <3>1, <3>4 DEF c
      <4> QED
        BY <4>1, <4>2 DEF c
    <3> QED
      BY <3>2, <3>3, <3>5, <3>6
  <2> QED
    BY <2>1, <2>2
<1>10. ASSUME NEW i \in DOMAIN new, NEW j \in DOMAIN new, i < j
       PROVE  /\ new[i].country # new[j].country
              /\ new[i].server.load <= new[j].server.load
  <2>1. i \in DOMAIN entries /\ new[i] = entries[i]
    BY <1>1, <1>7, <1>10
  <2>2. CASE j = last
    <3>1. PICK m \in 1 .. n : new[i].server = shown[m]
      BY <1>4, <2>1
    <3> QED
      BY <1>7, <1>8, <2>1, <2>2, <3>1
  <2>3. CASE j # last
    <3>1. j \in DOMAIN entries /\ new[j] = entries[j]
      BY <1>1, <1>7, <2>3
    <3> QED
      BY <1>3, <1>10, <2>1, <3>1
  <2> QED
    BY <2>2, <2>3
<1>11. ASSUME NEW k \in 1 .. n + 1
       PROVE  \E i \in DOMAIN new : new[i].country = shown[k].country
  <2>1. CASE k = n + 1
    <3>1. last \in DOMAIN new
      BY <1>1, <1>7
    <3> QED
      BY <1>7, <2>1, <3>1
  <2>2. CASE k \in 1 .. n
    <3>1. PICK i \in DOMAIN entries : entries[i].country = shown[k].country
      BY <1>5, <2>2
    <3>2. i \in DOMAIN new
      BY <1>1, <1>7
    <3> QED
      BY <1>7, <3>1, <3>2
  <2> QED
    BY <2>1, <2>2
<1>12. Tells(new, shown, n + 1)
  BY <1>7, <1>9, <1>10, <1>11, Zenon DEF Tells, Those
<1> QED
  BY <1>6, <1>12

\* After every server has had its turn.
LEMMA CardsTell ==
    ASSUME NEW shown \in Seq(ServerRec), Rising(shown)
    PROVE  Tells(CardsOf(shown)[Len(shown)], shown, Len(shown))
<1> DEFINE cards == CardsOf(shown)
           S == {n \in Nat : n <= Len(shown) => Tells(cards[n], shown, n)}
<1>1. Len(shown) \in Nat /\ DOMAIN shown = 1 .. Len(shown)
  OBVIOUS
<1>2. /\ cards[0] = <<>>
      /\ \A n \in 1 .. Len(shown) : cards[n] = AddServer(cards[n - 1], shown[n])
  BY CardsGrow
<1> HIDE DEF cards
<1>3. 0 \in S
  <2>1. Tells(<<>>, shown, 0)
    <3>1. <<>> \in Seq(GridEntry) /\ DOMAIN <<>> = {}
      OBVIOUS
    <3>2. 1 .. 0 = {}
      OBVIOUS
    <3> QED
      BY <3>1, <3>2, Zenon DEF Tells
  <2> QED
    BY <1>2, <2>1
<1>4. ASSUME NEW n \in Nat, n \in S PROVE n + 1 \in S
  <2> SUFFICES ASSUME n + 1 <= Len(shown)
               PROVE  Tells(cards[n + 1], shown, n + 1)
    OBVIOUS
  <2>1. n + 1 \in 1 .. Len(shown) /\ n + 1 \in DOMAIN shown /\ (n + 1) - 1 = n
    BY <1>1
  <2>2. cards[n + 1] = AddServer(cards[n], shown[n + 1])
    BY <1>2, <2>1
  <2>3. Tells(cards[n], shown, n)
    BY <1>1, <1>4
  <2>4. CASE \E at \in DOMAIN cards[n] : cards[n][at].country = shown[n + 1].country
    <3>1. PICK at \in DOMAIN cards[n] : cards[n][at].country = shown[n + 1].country
      BY <2>4
    <3>2. Tells(AddServer(cards[n], shown[n + 1]), shown, n + 1)
      BY <2>1, <2>3, <3>1, CardUpdated
    <3> QED
      BY <2>2, <3>2
  <2>5. CASE \A at \in DOMAIN cards[n] : cards[n][at].country # shown[n + 1].country
    BY <2>1, <2>2, <2>3, <2>5, CardAdded
  <2> QED
    BY <2>4, <2>5
<1>5. Nat \subseteq S
  <2> HIDE DEF S
  <2> QED
    BY <1>3, <1>4, NaturalsReached
<1> QED
  BY <1>1, <1>5 DEF cards

\* GridTells of any grid: S are the servers it may show.
Truthful(entries, S) ==
    /\ \A i \in DOMAIN entries :
          LET all == {s \in S : s.country = entries[i].country}
          IN  /\ entries[i].server \in all /\ entries[i].count = Cardinality(all)
              /\ \A s \in all : entries[i].server.load <= s.load
    /\ \A i, j \in DOMAIN entries : i < j => /\ entries[i].country # entries[j].country
                                             /\ entries[i].server.load <= entries[j].server.load

LEMMA TellsTruth ==
    ASSUME NEW shown, Listing(shown), NEW entries, Tells(entries, shown, Len(shown))
    PROVE  entries \in Seq(GridEntry) /\ Truthful(entries, Range(shown))
<1> DEFINE n == Len(shown)
<1>1. shown \in Seq(ServerRec)
  BY DEF Listing
<1>2. n \in Nat /\ DOMAIN shown = 1 .. n
  <2> HIDE DEF ServerRec
  <2> QED
    BY <1>1
<1>3. \A k, l \in 1 .. n : k # l => shown[k].name # shown[l].name
  BY <1>2 DEF Listing
<1>4. ASSUME NEW i \in DOMAIN entries
      PROVE  /\ \E m \in 1 .. n : entries[i].server = shown[m]
             /\ entries[i].server.country = entries[i].country
             /\ \A k \in 1 .. n : shown[k].country = entries[i].country =>
                   entries[i].server.load <= shown[k].load
             /\ entries[i].count = Cardinality(Those(shown, entries[i].country, n))
  BY DEF Tells, Those
<1>5. ASSUME NEW c
      PROVE  Cardinality(Those(shown, c, n)) = Cardinality({s \in Range(shown) : s.country = c})
  <2> DEFINE T == {s \in Range(shown) : s.country = c}
             f == [k \in Those(shown, c, n) |-> shown[k]]
  <2>1. f \in [Those(shown, c, n) -> T]
    BY <1>2 DEF Those, Range
  <2>2. \A k, l \in Those(shown, c, n) : f[k] = f[l] => k = l
    BY <1>3 DEF Those
  <2>3. \A s \in T : \E k \in Those(shown, c, n) : f[k] = s
    BY <1>2 DEF Those, Range
  <2>4. f \in Bijection(Those(shown, c, n), T)
    BY <2>1, <2>2, <2>3, Zenon DEF Bijection, Injection, Surjection, IsInjective
  <2>5. ExistsBijection(Those(shown, c, n), T)
    BY <2>4 DEF ExistsBijection
  <2>6. IsFiniteSet(1 .. n) /\ Those(shown, c, n) \in SUBSET (1 .. n)
    BY <1>2, FS_Interval DEF Those
  <2>7. IsFiniteSet(Those(shown, c, n))
    BY <2>6, FS_Subset
  <2> QED
    BY <2>5, <2>7, FS_Bijection
<1>6. ASSUME NEW i \in DOMAIN entries
      PROVE  LET all == {s \in Range(shown) : s.country = entries[i].country}
             IN  /\ entries[i].server \in all /\ entries[i].count = Cardinality(all)
                 /\ \A s \in all : entries[i].server.load <= s.load
  <2>1. entries[i].server \in Range(shown) /\ entries[i].server.country = entries[i].country
    BY <1>2, <1>4 DEF Range
  <2>2. ASSUME NEW s \in Range(shown), s.country = entries[i].country
        PROVE  entries[i].server.load <= s.load
    <3>1. PICK k \in 1 .. n : s = shown[k]
      BY <1>2 DEF Range
    <3> QED
      BY <1>4, <2>2, <3>1
  <2>3. entries[i].count = Cardinality({s \in Range(shown) : s.country = entries[i].country})
    BY <1>4, <1>5
  <2> QED
    BY <2>1, <2>2, <2>3
<1>7. \A i, j \in DOMAIN entries : i < j => /\ entries[i].country # entries[j].country
                                            /\ entries[i].server.load <= entries[j].server.load
  BY DEF Tells
<1>8. entries \in Seq(GridEntry)
  BY DEF Tells
<1> QED
  BY <1>6, <1>7, <1>8, Zenon DEF Truthful

\* rebuildGrid's cards tell the truth about the servers it was given.
LEMMA GridMade ==
    ASSUME NEW list, Listing(list), \A s \in Range(list) : s.score = 0, NEW chosen
    PROVE  /\ GridOf(list, chosen) \in Seq(GridEntry)
           /\ Truthful(GridOf(list, chosen), Matching(list, Filter("", chosen, ""), Tier))
<1> DEFINE shown == FilterServers(list, Filter("", chosen, ""), Tier)
<1>1. /\ Listing(shown) /\ Range(shown) = Matching(list, Filter("", chosen, ""), Tier)
      /\ \A k, l \in DOMAIN shown : k < l => ~Before(shown[l], shown[k])
  BY Filtered
<1>2. GridOf(list, chosen) = CardsOf(shown)[Len(shown)]
  BY DEF GridOf
<1> HIDE DEF shown
<1>3. shown \in Seq(ServerRec)
  BY <1>1 DEF Listing
<1>4. Rising(shown)
  <2> SUFFICES ASSUME NEW k \in DOMAIN shown, NEW l \in DOMAIN shown, k < l
               PROVE  shown[k].load <= shown[l].load
    BY DEF Rising
  <2>1. shown[k] \in ServerRec /\ shown[l] \in ServerRec
    BY <1>3
  <2>2. shown[k] \in Range(list) /\ shown[l] \in Range(list)
    BY <1>1 DEF Range, Matching
  <2>3. shown[k].score = 0 /\ shown[l].score = 0
    BY <2>2
  <2>4. ~Before(shown[l], shown[k])
    BY <1>1
  <2> QED
    BY <2>1, <2>3, <2>4 DEF Before, ServerRec
<1>5. Tells(CardsOf(shown)[Len(shown)], shown, Len(shown))
  BY <1>3, <1>4, CardsTell
<1> QED
  BY <1>1, <1>2, <1>5, TellsTruth

\* What is kept of a list.
LEMMA KeptOf ==
    ASSUME NEW S, NEW list \in Seq(S), NEW at \in SUBSET DOMAIN list
    PROVE  /\ Kept(list, at) \in Seq(S)
           /\ \A k \in DOMAIN Kept(list, at) : \E i \in DOMAIN list : Kept(list, at)[k] = list[i]
           /\ \A k, l \in DOMAIN Kept(list, at) : k < l =>
                 \E i, j \in DOMAIN list :
                    i < j /\ Kept(list, at)[k] = list[i] /\ Kept(list, at)[l] = list[j]
<1> DEFINE n == Cardinality(at)
           found == Kept(list, at)
<1>1. DOMAIN list = 1 .. Len(list) /\ Len(list) \in Nat /\ at \in SUBSET Nat
  OBVIOUS
<1>2. IsFiniteSet(at)
  <2>1. IsFiniteSet(1 .. Len(list)) /\ at \in SUBSET (1 .. Len(list))
    BY <1>1, FS_Interval
  <2> QED
    BY <2>1, FS_Subset
<1>3. n \in Nat /\ IsOrdered(found, list, at, ByIndex(at))
  BY <1>1, <1>2, KeptOrdered
<1>4. PICK order \in [1 .. n -> at] :
        /\ found = [k \in 1 .. n |-> list[order[k]]]
        /\ \A k, l \in 1 .. n : k < l => <<order[k], order[l]>> \in ByIndex(at)
  BY <1>3 DEF IsOrdered
<1> HIDE DEF n, found
<1>5. DOMAIN found = 1 .. n
  BY <1>4
<1>6. \A k \in 1 .. n : order[k] \in DOMAIN list /\ found[k] = list[order[k]] /\ list[order[k]] \in S
  BY <1>4
<1>7. found \in Seq(S)
  BY <1>3, <1>4, <1>6
<1>8. \A k, l \in 1 .. n : k < l => order[k] < order[l]
  BY <1>4 DEF ByIndex
<1> QED
  BY <1>5, <1>6, <1>7, <1>8 DEF found

\* A search leaves cards out but does not make the others wrong.
LEMMA KeptTruthful ==
    ASSUME NEW entries \in Seq(GridEntry), NEW S, Truthful(entries, S),
           NEW at \in SUBSET DOMAIN entries
    PROVE  Kept(entries, at) \in Seq(GridEntry) /\ Truthful(Kept(entries, at), S)
<1> DEFINE new == Kept(entries, at)
<1>1. /\ new \in Seq(GridEntry)
      /\ \A k \in DOMAIN new : \E i \in DOMAIN entries : new[k] = entries[i]
      /\ \A k, l \in DOMAIN new : k < l =>
            \E i, j \in DOMAIN entries : i < j /\ new[k] = entries[i] /\ new[l] = entries[j]
  BY KeptOf
<1> HIDE DEF new
<1>2. ASSUME NEW k \in DOMAIN new
      PROVE  LET all == {s \in S : s.country = new[k].country}
             IN  /\ new[k].server \in all /\ new[k].count = Cardinality(all)
                 /\ \A s \in all : new[k].server.load <= s.load
  <2>1. PICK i \in DOMAIN entries : new[k] = entries[i]
    BY <1>1
  <2>2. LET all == {s \in S : s.country = entries[i].country}
        IN  /\ entries[i].server \in all /\ entries[i].count = Cardinality(all)
            /\ \A s \in all : entries[i].server.load <= s.load
    BY DEF Truthful
  <2> QED
    BY <2>1, <2>2
<1>3. \A k, l \in DOMAIN new : k < l => /\ new[k].country # new[l].country
                                        /\ new[k].server.load <= new[l].server.load
  BY <1>1 DEF Truthful
<1> QED
  BY <1>1, <1>2, <1>3, Zenon DEF Truthful, new

-----------------------------------------------------------------------------
(* Rows and viewports *)

LEMMA Division ==
    ASSUME NEW a \in Nat, NEW b \in Nat, b > 0
    PROVE  a \div b \in Nat /\ b * (a \div b) <= a /\ a < b * (a \div b) + b
  BY SMT

\* The row of a card is on the last page at most.
LEMMA RowWithin ==
    ASSUME NEW c \in Nat, NEW n \in Nat, NEW w \in Nat, w > 0, c < n
    PROVE  c \div w \in Nat /\ (n + w - 1) \div w \in Nat
           /\ c \div w <= ((n + w - 1) \div w) - 1
<1> DEFINE q == c \div w
           r == (n + w - 1) \div w
<1>1. n + w - 1 \in Nat
  OBVIOUS
<1>2. q \in Nat /\ w * q <= c
  BY Division
<1>3. r \in Nat /\ n + w - 1 < w * r + w
  BY <1>1, Division
<1> HIDE DEF q, r
<1>4. w * q + w < w * r + w
  BY <1>2, <1>3
<1>5. q < r
  <2> SUFFICES ASSUME r <= q PROVE FALSE
    BY <1>2, <1>3
  <2>1. PICK d \in Nat : q = r + d
    BY <1>2, <1>3
  <2>2. w * q = w * r + w * d /\ w * d >= 0
    BY <1>2, <1>3, <2>1
  <2> QED
    BY <1>2, <1>3, <1>4, <2>2
<1> QED
  BY <1>2, <1>3, <1>5 DEF q, r

LEMMA Window ==
    ASSUME size \in Sizes
    PROVE  /\ GridCols \in Nat /\ GridCols > 0
           /\ VisibleRows \in Nat /\ VisibleRows > 0
           /\ VisibleListRows \in Nat /\ VisibleListRows >= 3
<1>1. size[1] \in Nat /\ size[2] \in Nat
  BY ScreenAssumption
<1>2. (size[1] - sidebarWidth - 2) \div cardOuterW \in Int /\ (size[2] - 2) \div cardOuterH \in Int
  BY <1>1 DEF sidebarWidth, cardOuterW, cardOuterH
<1> QED
  BY <1>1, <1>2 DEF GridCols, VisibleRows, VisibleListRows, AtLeast

\* ensureVisible and ensureListVisible.
LEMMA Scrolled ==
    ASSUME NEW at \in Nat, NEW scroll \in Nat, NEW rows \in Nat, rows > 0
    PROVE  /\ ScrollTo(at, scroll, rows) \in Nat
           /\ ScrollTo(at, scroll, rows) <= at
           /\ at < ScrollTo(at, scroll, rows) + rows
  BY DEF ScrollTo

-----------------------------------------------------------------------------
(* The lists a screen has *)

Facts(list) ==
    /\ Listing(list)
    /\ \A s \in Range(list) : s.score = 0 /\ Gives(s)

LEMMA ListFacts ==
    ASSUME NEW list \in {<<>>, ServerList}
    PROVE  Facts(list)
<1>1. Range(<<>>) = {}
  BY DEF Range
<1>2. CASE list = <<>>
  BY <1>1, <1>2, Known DEF Facts
<1>3. CASE list = ServerList
  BY <1>3, Sent DEF Facts
<1> QED
  BY <1>2, <1>3

LEMMA AccessibleIs ==
    ASSUME NEW chosen
    PROVE  Accessible(chosen) = Matching(servers, Filter("", chosen, ""), Tier)
  BY DEF Accessible, Matching, Matches, Filter

LEMMA ListOfIs ==
    ASSUME Facts(servers), NEW country, NEW chosen
    PROVE  /\ ListOf(country, chosen) \in Seq(ServerRec)
           /\ Range(ListOf(country, chosen)) \subseteq Accessible(chosen)
<1>1. /\ Listing(ListOf(country, chosen))
      /\ Range(ListOf(country, chosen)) = Matching(servers, Filter(country, chosen, ""), Tier)
  BY Filtered DEF Facts, ListOf
<1>2. ListOf(country, chosen) \in Seq(ServerRec)
  BY <1>1 DEF Listing
<1>3. Matching(servers, Filter(country, chosen, ""), Tier) \subseteq Accessible(chosen)
  BY DEF Matching, Matches, Filter, Accessible
<1> QED
  BY <1>1, <1>2, <1>3

-----------------------------------------------------------------------------
(* The invariant *)

VBase ==
    /\ servers \in {<<>>, ServerList}
    /\ filters \in SUBSET Features /\ lastCountry \in {""} \cup STRING
    /\ vpnState \in {"disconnected", "connecting", "connected"}
    /\ connectedServer \in {""} \cup NoQuery.names
    /\ mode \in {"grid", "servers"} /\ searching \in BOOLEAN
    /\ size \in Sizes
    /\ cfg \in [filters: SUBSET Features, lastCountry: {""} \cup STRING]
    /\ request \in {NoServer} \cup ServerRec /\ asks \in 0..MaxAsks
    /\ request # NoServer => request.name \in NoQuery.names

VGrid ==
    /\ grid \in Seq(GridEntry)
    /\ gridScrollY \in Nat
    /\ gridCursor \in 0..AtLeast(Len(grid) - 1, 0)
    /\ Truthful(grid, Accessible(filters))

VList ==
    /\ filtered \in Seq(ServerRec)
    /\ listScrollY \in Nat
    /\ serverIdx \in 0..AtLeast(Len(filtered) - 1, 0)
    /\ mode = "servers" => Range(filtered) \subseteq Accessible(filters) /\ listCountry # ""

VInv == VBase /\ VGrid /\ VList

LEMMA VInvTells ==
    ASSUME VInv
    PROVE  VTypeOK /\ GridTells
<1>1. VTypeOK
  BY DEF VInv, VBase, VGrid, VList, VTypeOK
<1>2. GridTells
  BY Zenon DEF VInv, VGrid, Truthful, GridTells
<1> QED
  BY <1>1, <1>2

-----------------------------------------------------------------------------
(* What the steps share *)

LEMMA LengthOf ==
    ASSUME NEW S, NEW s \in Seq(S)
    PROVE  Len(s) \in Nat /\ DOMAIN s = 1 .. Len(s) /\ \A i \in 1 .. Len(s) : s[i] \in S
  OBVIOUS

LEMMA Indices ==
    ASSUME NEW n \in Nat
    PROVE  0 \in 0..AtLeast(n - 1, 0) /\ 0..AtLeast(n - 1, 0) \subseteq Nat
  BY DEF AtLeast

LEMMA GridKept ==
    ASSUME VGrid, UNCHANGED <<gridPart, servers, filters>>
    PROVE  VGrid'
<1>1. Accessible(filters)' = Accessible(filters)
  BY DEF Accessible
<1>2. grid' = grid /\ gridCursor' = gridCursor /\ gridScrollY' = gridScrollY
  BY DEF gridPart
<1> QED
  BY <1>1, <1>2, Zenon DEF VGrid

LEMMA GridShown ==
    ASSUME VGrid, NEW entries \in Seq(GridEntry), ShowGrid(entries),
           Truthful(entries, Accessible(filters)')
    PROVE  VGrid'
<1> HIDE DEF GridEntry
<1>1. Len(entries) \in Nat /\ Len(grid) \in Nat /\ gridCursor \in Nat
  BY DEF VGrid, AtLeast
<1>2. CursorIn(entries) \in 0..AtLeast(Len(entries) - 1, 0)
  BY <1>1 DEF CursorIn, AtLeast
<1>3. grid' = entries /\ gridCursor' = CursorIn(entries) /\ gridScrollY' = gridScrollY
  BY DEF ShowGrid
<1> QED
  BY <1>2, <1>3, Zenon DEF VGrid

LEMMA GridMoved ==
    ASSUME VBase, VGrid, NEW c \in 0..AtLeast(Len(grid) - 1, 0), MoveGrid(c)
    PROVE  VGrid'
<1> HIDE DEF GridEntry
<1>1. Len(grid) \in Nat /\ c \in Nat /\ gridScrollY \in Nat
  BY DEF VGrid, AtLeast
<1>2. GridCols \in Nat /\ GridCols > 0 /\ VisibleRows \in Nat /\ VisibleRows > 0
  BY Window DEF VBase
<1>3. c \div GridCols \in Nat
  BY <1>1, <1>2, Division
<1>4. ScrollTo(c \div GridCols, gridScrollY, VisibleRows) \in Nat
  BY <1>1, <1>2, <1>3, Scrolled
<1>5. /\ grid' = grid /\ gridCursor' = c
      /\ gridScrollY' = ScrollTo(c \div GridCols, gridScrollY, VisibleRows)
      /\ servers' = servers /\ filters' = filters
  BY DEF MoveGrid, world, choice
<1>6. Accessible(filters)' = Accessible(filters)
  BY <1>5 DEF Accessible
<1> QED
  BY <1>4, <1>5, <1>6, Zenon DEF VGrid

LEMMA ListKept ==
    ASSUME VList, UNCHANGED <<listPart, servers, filters, mode>>
    PROVE  VList'
<1>1. Accessible(filters)' = Accessible(filters)
  BY DEF Accessible
<1>2. filtered' = filtered /\ listCountry' = listCountry /\ serverIdx' = serverIdx
      /\ listScrollY' = listScrollY /\ mode' = mode
  BY DEF listPart
<1> QED
  BY <1>1, <1>2, Zenon DEF VList

LEMMA ListShown ==
    ASSUME NEW list \in Seq(ServerRec), NEW country, ShowList(list, country),
           mode' = "servers" => Range(list) \subseteq Accessible(filters)' /\ country # ""
    PROVE  VList'
<1>1. Len(list) \in Nat
  BY LengthOf, Zenon
<1>2. 0 \in 0..AtLeast(Len(list) - 1, 0) /\ 0 \in Nat
  <2>1. 0 \in Nat
    OBVIOUS
  <2> QED
    BY <1>1, <2>1, Indices, Zenon
<1>3. filtered' = list /\ listCountry' = country /\ serverIdx' = 0 /\ listScrollY' = 0
  BY DEF ShowList
<1> QED
  BY <1>2, <1>3, Zenon DEF VList

LEMMA ListMoved ==
    ASSUME VBase, VList, NEW i \in 0..AtLeast(Len(filtered) - 1, 0), MoveList(i)
    PROVE  VList'
<1>1. Len(filtered) \in Nat /\ listScrollY \in Nat
  BY LengthOf, Zenon DEF VList
<1>6. i \in Nat
  BY <1>1, Indices, Zenon
<1>2. VisibleListRows \in Nat /\ VisibleListRows >= 3
  BY Window, Zenon DEF VBase
<1>3. ScrollTo(i, listScrollY, VisibleListRows) \in Nat
  BY <1>1, <1>2, <1>6, Scrolled
<1>4. /\ filtered' = filtered /\ listCountry' = listCountry /\ serverIdx' = i
      /\ listScrollY' = ScrollTo(i, listScrollY, VisibleListRows)
      /\ servers' = servers /\ filters' = filters /\ mode' = mode
  BY DEF MoveList, world, choice
<1>5. Accessible(filters)' = Accessible(filters)
  BY <1>4 DEF Accessible
<1> QED
  BY <1>3, <1>4, <1>5, Zenon DEF VList

\* The grid made of the servers that are kept.
LEMMA GridOfIs ==
    ASSUME NEW list, Facts(list), NEW chosen
    PROVE  /\ GridOf(list, chosen) \in Seq(GridEntry)
           /\ Truthful(GridOf(list, chosen), Matching(list, Filter("", chosen, ""), Tier))
  BY GridMade DEF Facts

LEMMA AccessibleNext ==
    Accessible(filters)' = Matching(servers', Filter("", filters', ""), Tier)
  BY DEF Accessible, Matching, Matches, Filter

\* What the screen shows can be asked for.
LEMMA AccessibleGiven ==
    ASSUME VBase, NEW s \in Accessible(filters)
    PROVE  /\ s \in ServerRec /\ s.name # "" /\ s.country # "" /\ s # NoServer
           /\ s.name \in NoQuery.names /\ Gives(s)
<1>1. Facts(servers)
  BY ListFacts DEF VBase
<1>2. PICK i \in DOMAIN servers : s = servers[i]
  BY DEF Accessible, Range
<1>3. s \in ServerRec /\ s.name # "" /\ s.country # ""
  <2>1. servers \in Seq(ServerRec)
    BY <1>1 DEF Facts, Listing
  <2>2. s \in ServerRec
    BY <1>2, <2>1, LengthOf, Zenon
  <2> QED
    BY <1>1, <1>2, <2>2, Zenon DEF Facts, Listing
<1>4. Gives(s)
  BY <1>1 DEF Facts, Accessible
<1>5. s.name \in NoQuery.names
  BY <1>4 DEF Gives, NoQuery
<1>6. NoServer.name = ""
  BY DEF NoServer
<1> QED
  BY <1>3, <1>4, <1>5, <1>6

LEMMA CardIs ==
    ASSUME VBase, VGrid, gridCursor < Len(grid)
    PROVE  /\ grid[gridCursor + 1].server \in Accessible(filters)
           /\ grid[gridCursor + 1].country \in STRING
           /\ grid[gridCursor + 1].country # ""
<1> DEFINE i == gridCursor + 1
<1>1. i \in DOMAIN grid /\ grid[i] \in GridEntry
  <2> HIDE DEF GridEntry
  <2> QED
    BY DEF VGrid, AtLeast
<1>2. grid[i].server \in Accessible(filters) /\ grid[i].server.country = grid[i].country
  BY <1>1 DEF VGrid, Truthful
<1>3. grid[i].country \in STRING
  BY <1>1 DEF GridEntry
<1> QED
  BY <1>2, <1>3, AccessibleGiven

-----------------------------------------------------------------------------
(* The servers the daemon and Q choose *)

LEMMA MinIs ==
    ASSUME NEW T \in SUBSET Nat, T # {}
    PROVE  Min(T) \in T /\ \A m \in T : Min(T) <= m
  BY LeastNatural DEF Min

LEMMA InCatalogue ==
    ASSUME NEW s \in Range(Catalogue)
    PROVE  s \in ServerRec /\ s.name \in NoQuery.names /\ s.name # "" /\ s # NoServer
<1>1. PICK i \in DOMAIN Catalogue : s = Catalogue[i]
  BY DEF Range
<1>2. s.name # ""
  BY <1>1, CatalogueAssumption
<1>3. s \in ServerRec
  <2>1. Catalogue \in Seq(ServerRec)
    BY CatalogueAssumption
  <2> QED
    BY <1>1, <2>1, LengthOf, Zenon
<1>4. s.name \in NoQuery.names
  BY DEF NoQuery
<1>5. NoServer.name = ""
  BY DEF NoServer
<1> QED
  BY <1>2, <1>3, <1>4, <1>5

LEMMA FastestOfCatalogue ==
    ASSUME NEW f
    PROVE  LET best == FindFastestServer(Catalogue, f, MaxTier)
           IN  /\ best \in {NoServer} \cup Range(Catalogue)
               /\ Matching(Catalogue, f, MaxTier) = {} => best = NoServer
               /\ Matching(Catalogue, f, MaxTier) # {} =>
                     best # NoServer /\ BestOf(best, Matching(Catalogue, f, MaxTier))
<1>1. Matching(Catalogue, f, MaxTier) \subseteq Range(Catalogue)
  BY DEF Matching
<1>2. Listing(Catalogue)
  BY Known
<1> QED
  BY <1>1, <1>2, Fastest DEF BestOf

LEMMA NamedOfCatalogue ==
    ASSUME NEW name
    PROVE  FindServerByName(Catalogue, name) \in {NoServer} \cup Range(Catalogue)
<1> DEFINE at == {i \in DOMAIN Catalogue : Catalogue[i].name = name}
<1>1. at \in SUBSET Nat /\ at \subseteq DOMAIN Catalogue
  <2>1. Catalogue \in Seq(ServerRec)
    BY CatalogueAssumption
  <2>2. DOMAIN Catalogue = 1 .. Len(Catalogue)
    BY <2>1, LengthOf, Zenon
  <2>3. 1 .. Len(Catalogue) \subseteq Nat
    BY <2>1, LengthOf
  <2> QED
    BY <2>2, <2>3
<1>2. at # {} => Min(at) \in DOMAIN Catalogue
  BY <1>1, MinIs
<1>3. at # {} => Catalogue[Min(at)] \in Range(Catalogue)
  BY <1>2 DEF Range
<1> QED
  BY <1>3 DEF FindServerByName

LEMMA RequestedOfCatalogue ==
    ASSUME NEW p
    PROVE  Requested(p) \in {NoServer} \cup Range(Catalogue)
  BY FastestOfCatalogue, NamedOfCatalogue DEF Requested

LEMMA OfferedIs ==
    ASSUME NEW country, NEW wanted
    PROVE  Offered(country, wanted) = Matching(Catalogue, Filter(country, wanted, ""), MaxTier)
<1>1. ASSUME NEW s
      PROVE  Matches(s, Filter(country, wanted, ""), MaxTier) <=>
                /\ s.online /\ EffectiveTier(s) <= MaxTier
                /\ country \in {"", s.country} /\ wanted \subseteq s.features
  BY DEF Matches, Filter
<1> QED
  BY <1>1 DEF Offered, Matching

LEMMA AutoFinds ==
    ASSUME NEW country, NEW wanted
    PROVE  LET best  == AutoConnectServer(country, wanted)
               both  == Offered(country, wanted)
               there == Offered(country, {})
           IN  /\ best \in {NoServer} \cup Range(Catalogue)
               /\ best # NoServer =>
                     IF both # {} THEN BestOf(best, both)
                     ELSE IF there # {} THEN BestOf(best, there)
                     ELSE BestOf(best, Offered("", {}))
<1> DEFINE tries == << Filter(country, wanted, ""), Filter(country, {}, ""), Everything >>
           found == [i \in 1..3 |-> FindFastestServer(Catalogue, tries[i], MaxTier)]
           at    == {i \in 1..3 : found[i] # NoServer}
           from(i) == Matching(Catalogue, tries[i], MaxTier)
<1>1. AutoConnectServer(country, wanted) = IF at = {} THEN NoServer ELSE found[Min(at)]
  BY DEF AutoConnectServer
<1>2. /\ from(1) = Offered(country, wanted) /\ from(2) = Offered(country, {})
      /\ from(3) = Offered("", {})
  BY OfferedIs DEF Everything
<1>3. ASSUME NEW i \in 1..3
      PROVE  /\ found[i] \in {NoServer} \cup Range(Catalogue)
             /\ (i \in at) <=> from(i) # {}
             /\ i \in at => BestOf(found[i], from(i))
  <2>1. found[i] = FindFastestServer(Catalogue, tries[i], MaxTier)
    OBVIOUS
  <2> QED
    BY <2>1, FastestOfCatalogue
<1>5. at \subseteq 1..3
  OBVIOUS
<1>4. at # {} => Min(at) \in at /\ \A m \in at : Min(at) <= m
  <2> HIDE DEF at
  <2>1. at \in SUBSET Nat
    BY <1>5
  <2> QED
    BY <2>1, MinIs
<1> HIDE DEF at, found, from
<1>6. CASE at = {}
  BY <1>1, <1>6
<1>7. CASE at # {}
  <2>1. AutoConnectServer(country, wanted) = found[Min(at)] /\ Min(at) \in 1..3
    BY <1>1, <1>4, <1>5, <1>7
  <2>2. Min(at) = IF from(1) # {} THEN 1 ELSE IF from(2) # {} THEN 2 ELSE 3
    <3>1. 1 \in 1..3 /\ 2 \in 1..3 /\ 3 \in 1..3
      OBVIOUS
    <3>2. (1 \in at <=> from(1) # {}) /\ (2 \in at <=> from(2) # {})
      BY <1>3, <3>1
    <3> QED
      BY <1>4, <1>7, <2>1, <3>2
  <2>3. BestOf(found[Min(at)], from(Min(at))) /\ found[Min(at)] \in {NoServer} \cup Range(Catalogue)
    BY <1>3, <1>4, <1>7, <2>1
  <2> QED
    BY <1>2, <2>1, <2>2, <2>3
<1> QED
  BY <1>6, <1>7

LEMMA QuickFinds ==
    ASSUME VBase
    PROVE  LET others == {s \in Accessible(filters) :
                             vpnState = "connected" => s.name # connectedServer}
               near   == {s \in others : s.country = lastCountry}
           IN  QuickConnectServer # NoServer =>
                  BestOf(QuickConnectServer, IF near # {} THEN near ELSE others)
<1> DEFINE others == {s \in Accessible(filters) :
                             vpnState = "connected" => s.name # connectedServer}
           near   == {s \in others : s.country = lastCountry}
           current == IF vpnState = "connected" THEN connectedServer ELSE ""
           Best(c) == FindFastestServer(servers, Filter(c, filters, current), Tier)
           From(c) == Matching(servers, Filter(c, filters, current), Tier)
<1>1. Listing(servers)
  BY ListFacts DEF VBase, Facts
<1>2. ASSUME NEW s \in Accessible(filters) PROVE s.name # "" /\ s.country # ""
  BY AccessibleGiven
<1>3. ASSUME NEW c
      PROVE  From(c) = {s \in Accessible(filters) :
                           (current # "" => s.name # current) /\ (c # "" => s.country = c)}
  BY DEF Accessible, Matching, Matches, Filter
<1>4. From("") = others
  BY <1>2, <1>3
<1>5. lastCountry # "" => From(lastCountry) = near
  BY <1>2, <1>3
<1>6. lastCountry = "" => near = {}
  BY <1>2
<1>7. ASSUME NEW c
      PROVE  (From(c) = {} => Best(c) = NoServer)
             /\ (From(c) # {} => Best(c) # NoServer /\ BestOf(Best(c), From(c)))
  BY <1>1, Fastest
<1>8. QuickConnectServer = IF Best(lastCountry) = NoServer /\ lastCountry # "" THEN Best("")
                           ELSE Best(lastCountry)
  BY DEF QuickConnectServer
<1> HIDE DEF Best, From, others, near
<1>9. QuickConnectServer # NoServer =>
         BestOf(QuickConnectServer, IF near # {} THEN near ELSE others)
  <2>1. CASE lastCountry = ""
    BY <1>4, <1>6, <1>7, <1>8, <2>1
  <2>2. CASE lastCountry # ""
    <3>1. /\ near = {} => Best(lastCountry) = NoServer
          /\ near # {} => Best(lastCountry) # NoServer /\ BestOf(Best(lastCountry), near)
      BY <1>5, <1>7, <2>2
    <3>2. Best("") # NoServer => BestOf(Best(""), others)
      BY <1>4, <1>7
    <3> QED
      BY <1>8, <2>2, <3>1, <3>2
  <2> QED
    BY <2>1, <2>2
<1> QED
  BY <1>9 DEF others, near

-----------------------------------------------------------------------------
(* The invariant holds at first and is kept by every step *)

LEMMA NothingTold ==
    ASSUME NEW S
    PROVE  <<>> \in Seq(GridEntry) /\ <<>> \in Seq(ServerRec) /\ Truthful(<<>>, S)
           /\ 0 \in 0..AtLeast(Len(<<>>) - 1, 0)
<1>1. DOMAIN <<>> = {}
  OBVIOUS
<1>2. Truthful(<<>>, S)
  BY <1>1, Zenon DEF Truthful
<1>3. <<>> \in Seq(GridEntry) /\ <<>> \in Seq(ServerRec) /\ 0 \in 0..AtLeast(Len(<<>>) - 1, 0)
  BY DEF AtLeast
<1> QED
  BY <1>2, <1>3

LEMMA VInitGood ==
    ASSUME VInit
    PROVE  VInv
<1>1. cfg \in [filters: SUBSET Features, lastCountry: {""} \cup STRING]
  BY ScreenAssumption, Zenon DEF VInit
<1>2. filters \in SUBSET Features /\ lastCountry \in {""} \cup STRING
  BY <1>1 DEF VInit
<1>3. 0 \in 0..MaxAsks
  <2>1. MaxAsks \in Nat
    BY ScreenAssumption, Zenon
  <2> QED
    BY <2>1
<1>4. VBase
  BY <1>1, <1>2, <1>3 DEF VInit, VBase
<1>5. Truthful(<<>>, Accessible(filters)) /\ <<>> \in Seq(GridEntry)
      /\ <<>> \in Seq(ServerRec) /\ 0 \in 0..AtLeast(Len(<<>>) - 1, 0) /\ 0 \in Nat
  BY NothingTold
<1>6. /\ grid = <<>> /\ gridCursor = 0 /\ gridScrollY = 0
      /\ filtered = <<>> /\ serverIdx = 0 /\ listScrollY = 0 /\ mode = "grid"
  BY DEF VInit
<1>7. VGrid
  BY <1>5, <1>6, Zenon DEF VGrid
<1>8. VList
  BY <1>5, <1>6 DEF VList
<1> QED
  BY <1>4, <1>7, <1>8 DEF VInv

\* VBase is kept by what touches nothing but the screen.
LEMMA BaseKept ==
    ASSUME VBase, UNCHANGED <<choice, link, world>>,
           mode' \in {"grid", "servers"}, searching' \in BOOLEAN
    PROVE  VBase'
  BY DEF VBase, choice, link, world

LEMMA RestartGood ==
    ASSUME VInv, Restart
    PROVE  VInv'
<1>1. VBase'
  <2>1. /\ servers' = <<>> /\ filters' = cfg.filters /\ lastCountry' = cfg.lastCountry
        /\ mode' = "grid" /\ searching' = FALSE
        /\ size' = size /\ cfg' = cfg /\ request' = request /\ asks' = asks
    BY DEF Restart
  <2>2. vpnState' \in {"disconnected", "connecting", "connected"}
        /\ connectedServer' \in {""} \cup NoQuery.names
    BY DEF Restart, VInv, VBase
  <2> QED
    BY <2>1, <2>2 DEF VInv, VBase
<1>2. Truthful(<<>>, Accessible(filters)') /\ <<>> \in Seq(GridEntry)
      /\ <<>> \in Seq(ServerRec) /\ 0 \in 0..AtLeast(Len(<<>>) - 1, 0) /\ 0 \in Nat
  BY NothingTold
<1>3. /\ grid' = <<>> /\ gridCursor' = 0 /\ gridScrollY' = 0
      /\ filtered' = <<>> /\ serverIdx' = 0 /\ listScrollY' = 0 /\ mode' = "grid"
  BY DEF Restart
<1>4. VGrid'
  BY <1>2, <1>3, Zenon DEF VGrid
<1>5. VList'
  BY <1>2, <1>3 DEF VList
<1> QED
  BY <1>1, <1>4, <1>5 DEF VInv

LEMMA SetServersGood ==
    ASSUME VInv, SetServers
    PROVE  VInv'
<1>1. VBase'
  BY DEF VInv, VBase, SetServers, choice, link
<1>2. VGrid'
  <2>1. Facts(ServerList)
    BY ListFacts
  <2>2. /\ GridOf(ServerList, filters) \in Seq(GridEntry)
        /\ Truthful(GridOf(ServerList, filters), Matching(ServerList, Filter("", filters, ""), Tier))
    BY <2>1, GridOfIs
  <2>3. servers' = ServerList /\ filters' = filters /\ ShowGrid(GridOf(ServerList, filters))
    BY DEF SetServers, choice
  <2>4. Accessible(filters)' = Matching(ServerList, Filter("", filters, ""), Tier)
    BY <2>3, AccessibleNext
  <2>5. VGrid
    BY DEF VInv
  <2> QED
    BY <2>2, <2>3, <2>4, <2>5, GridShown
<1>3. VList'
  <2>1. Accessible(filters) = {}
    BY DEF SetServers, Accessible, Range
  <2>2. UNCHANGED <<listPart, mode>>
    BY DEF SetServers
  <2> QED
    BY <2>1, <2>2 DEF VInv, VList, listPart
<1> QED
  BY <1>1, <1>2, <1>3 DEF VInv

LEMMA SetSizeGood ==
    ASSUME VInv, SetSize
    PROVE  VInv'
<1>1. VBase'
  BY DEF VInv, VBase, SetSize, choice, link
<1>2. VGrid'
  BY GridKept DEF VInv, SetSize, choice
<1>3. VList'
  BY ListKept DEF VInv, SetSize, choice
<1> QED
  BY <1>1, <1>2, <1>3 DEF VInv

LEMMA StartSearchGood ==
    ASSUME VInv, StartSearch
    PROVE  VInv'
<1>1. VBase'
  BY BaseKept DEF VInv, VBase, StartSearch
<1>2. VGrid'
  BY GridKept DEF VInv, StartSearch, choice, world
<1>3. VList'
  BY ListKept DEF VInv, StartSearch, choice, world
<1> QED
  BY <1>1, <1>2, <1>3 DEF VInv

LEMMA TypeGood ==
    ASSUME VInv, NEW q, Type(q)
    PROVE  VInv'
<1>1. UNCHANGED <<searching, choice, link, mode, world>>
  BY DEF Type
<1>2. VBase'
  BY <1>1, BaseKept DEF VInv, VBase
<1>3. VBase /\ VGrid /\ VList /\ Facts(servers)
  BY ListFacts DEF VInv, VBase
<1>4. Accessible(filters)' = Accessible(filters)
  BY <1>1 DEF Accessible, choice, world
<1>5. CASE mode = "servers" /\ listCountry # ""
  <2> DEFINE list == ListOf(listCountry, filters)
             at == {i \in DOMAIN list : list[i].name \in q.names}
  <2>1. ShowList(Kept(list, at), listCountry) /\ UNCHANGED gridPart
    BY <1>5 DEF Type
  <2>2. list \in Seq(ServerRec) /\ Range(list) \subseteq Accessible(filters)
    BY <1>3, ListOfIs
  <2>3. at \in SUBSET DOMAIN list
    OBVIOUS
  <2> HIDE DEF list, at
  <2>4. /\ Kept(list, at) \in Seq(ServerRec)
        /\ \A k \in DOMAIN Kept(list, at) : \E i \in DOMAIN list : Kept(list, at)[k] = list[i]
    BY <2>2, <2>3, KeptOf
  <2>5. Range(Kept(list, at)) \subseteq Range(list)
    BY <2>4 DEF Range
  <2>6. VList'
    BY <1>4, <1>5, <2>1, <2>2, <2>4, <2>5, ListShown
  <2>7. VGrid'
    BY <1>1, <1>3, <2>1, GridKept DEF choice, world
  <2> QED
    BY <1>2, <2>6, <2>7 DEF VInv
<1>6. CASE ~(mode = "servers" /\ listCountry # "")
  <2> DEFINE cards == GridOf(servers, filters)
             at == {i \in DOMAIN cards : cards[i].country \in q.countries}
  <2>1. ShowGrid(Kept(cards, at)) /\ UNCHANGED listPart
    BY <1>6 DEF Type
  <2>2. cards \in Seq(GridEntry) /\ Truthful(cards, Accessible(filters))
    BY <1>3, GridOfIs, AccessibleIs
  <2>3. at \in SUBSET DOMAIN cards
    OBVIOUS
  <2> HIDE DEF cards, at
  <2>4. Kept(cards, at) \in Seq(GridEntry) /\ Truthful(Kept(cards, at), Accessible(filters))
    BY <2>2, <2>3, KeptTruthful
  <2>5. VGrid'
    BY <1>3, <1>4, <2>1, <2>4, GridShown
  <2>6. VList'
    BY <1>1, <1>3, <2>1, ListKept DEF choice, world
  <2> QED
    BY <1>2, <2>5, <2>6 DEF VInv
<1> QED
  BY <1>5, <1>6

LEMMA Refilters ==
    ASSUME VInv, NEW chosen, Refilter(chosen), listCountry # "",
           servers' = servers, filters' = chosen
    PROVE  VList'
<1>1. Facts(servers)
  BY ListFacts DEF VInv, VBase
<1>2. ListOf(listCountry, chosen) \in Seq(ServerRec)
      /\ Range(ListOf(listCountry, chosen)) \subseteq Accessible(chosen)
  BY <1>1, ListOfIs
<1>3. Accessible(filters)' = Accessible(chosen)
  BY DEF Accessible
<1>4. ShowList(ListOf(listCountry, chosen), listCountry)
  BY DEF Refilter
<1> QED
  BY <1>2, <1>3, <1>4, ListShown

\* The grid and the list after the grid was made again.
LEMMA Regrids ==
    ASSUME VInv, NEW chosen, ShowGrid(GridOf(servers, chosen)),
           servers' = servers, filters' = chosen
    PROVE  VGrid'
<1>1. Facts(servers) /\ VGrid
  BY ListFacts DEF VInv, VBase
<1>2. GridOf(servers, chosen) \in Seq(GridEntry)
      /\ Truthful(GridOf(servers, chosen), Matching(servers, Filter("", chosen, ""), Tier))
  BY <1>1, GridOfIs
<1>3. Accessible(filters)' = Matching(servers, Filter("", chosen, ""), Tier)
  BY AccessibleNext
<1> QED
  BY <1>1, <1>2, <1>3, GridShown

LEMMA EscapeSearchGood ==
    ASSUME VInv, EscapeSearch
    PROVE  VInv'
<1>1. UNCHANGED <<choice, link, mode, world>> /\ searching' = FALSE
  BY DEF EscapeSearch
<1>2. VBase'
  BY <1>1, BaseKept DEF VInv, VBase
<1>3. servers' = servers /\ filters' = filters /\ VGrid /\ VList
  BY <1>1 DEF world, choice, VInv
<1>4. CASE mode = "servers" /\ listCountry # ""
  <2>1. Refilter(filters) /\ UNCHANGED gridPart
    BY <1>4 DEF EscapeSearch
  <2>2. VList'
    BY <1>3, <1>4, <2>1, Refilters
  <2>3. VGrid'
    BY <1>3, <2>1, GridKept
  <2> QED
    BY <1>2, <2>2, <2>3 DEF VInv
<1>5. CASE ~(mode = "servers" /\ listCountry # "")
  <2>1. ShowGrid(GridOf(servers, filters)) /\ UNCHANGED listPart
    BY <1>5 DEF EscapeSearch
  <2>2. VGrid'
    BY <1>3, <2>1, Regrids
  <2>3. VList'
    BY <1>1, <1>3, <2>1, ListKept
  <2> QED
    BY <1>2, <2>2, <2>3 DEF VInv
<1> QED
  BY <1>4, <1>5

LEMMA EnterSearchGood ==
    ASSUME VInv, EnterSearch
    PROVE  VInv'
<1>1. VBase'
  BY BaseKept DEF VInv, VBase, EnterSearch
<1>2. VGrid'
  <2>1. gridCursor' \in 0..AtLeast(Len(grid) - 1, 0)
    <3>1. Len(grid) \in Nat
      BY LengthOf, Zenon DEF VInv, VGrid
    <3>2. 0 \in 0..AtLeast(Len(grid) - 1, 0)
      BY <3>1, Indices, Zenon
    <3> QED
      BY <3>2 DEF EnterSearch, VInv, VGrid
  <2>2. grid' = grid /\ gridScrollY' = gridScrollY
    BY DEF EnterSearch
  <2>3. Accessible(filters)' = Accessible(filters)
    BY DEF Accessible, EnterSearch, choice, world
  <2> QED
    BY <2>1, <2>2, <2>3, Zenon DEF VInv, VGrid
<1>3. VList'
  BY ListKept DEF VInv, EnterSearch, choice, world
<1> QED
  BY <1>1, <1>2, <1>3 DEF VInv

LEMMA ToggleGood ==
    ASSUME VInv, NEW f \in Toggles, Toggle(f)
    PROVE  VInv'
<1> DEFINE chosen == IF f \in filters THEN filters \ {f} ELSE filters \cup {f}
<1>1. /\ filters' = chosen /\ cfg' = [cfg EXCEPT !.filters = chosen]
      /\ UNCHANGED <<lastCountry, link, mode, searching, servers, size>>
      /\ ShowGrid(GridOf(servers, chosen))
      /\ IF mode = "servers" THEN Refilter(chosen) ELSE UNCHANGED listPart
  BY DEF Toggle
<1>2. chosen \in SUBSET Features
  BY ScreenAssumption DEF VInv, VBase
<1> HIDE DEF chosen
<1>3. VBase'
  <2>1. cfg' \in [filters: SUBSET Features, lastCountry: {""} \cup STRING]
    BY <1>1, <1>2 DEF VInv, VBase
  <2> QED
    BY <1>1, <1>2, <2>1 DEF VInv, VBase, link
<1>4. VGrid'
  BY <1>1, Regrids
<1>5. VList'
  <2>1. CASE mode = "servers"
    BY <1>1, <2>1, Refilters DEF VInv, VList
  <2>2. CASE mode # "servers"
    BY <1>1, <2>2 DEF VInv, VList, listPart
  <2> QED
    BY <2>1, <2>2
<1> QED
  BY <1>3, <1>4, <1>5 DEF VInv

-----------------------------------------------------------------------------
(* Movement *)

LEMMA CursorMoves ==
    ASSUME VInv, GridUp \/ GridDown \/ GridLeft \/ GridRight
    PROVE  /\ \E c \in 0..AtLeast(Len(grid) - 1, 0) : MoveGrid(c)
           /\ mode' = mode
<1>1. Len(grid) \in Nat /\ gridCursor \in 0..AtLeast(Len(grid) - 1, 0)
  BY LengthOf, Zenon DEF VInv, VGrid
<1>2. gridCursor \in Nat
  BY <1>1 DEF AtLeast
<1>3. GridCols \in Nat /\ GridCols > 0
  BY Window DEF VInv, VBase
<1>4. CASE GridUp
  <2> DEFINE c == IF gridCursor >= GridCols THEN gridCursor - GridCols ELSE gridCursor
  <2>1. c \in 0..AtLeast(Len(grid) - 1, 0)
    BY <1>1, <1>3 DEF AtLeast
  <2> QED
    BY <1>4, <2>1 DEF GridUp, MoveGrid
<1>5. CASE GridDown
  <2> DEFINE c == IF gridCursor + GridCols < Len(grid) THEN gridCursor + GridCols
                  ELSE IF gridCursor < Len(grid) - 1 THEN Len(grid) - 1 ELSE gridCursor
  <2>1. c \in 0..AtLeast(Len(grid) - 1, 0)
    BY <1>1, <1>3 DEF AtLeast
  <2> QED
    BY <1>5, <2>1 DEF GridDown, MoveGrid
<1>6. CASE GridLeft
  <2>1. gridCursor - 1 \in 0..AtLeast(Len(grid) - 1, 0)
    BY <1>1, <1>6 DEF AtLeast, GridLeft
  <2> QED
    BY <1>6, <2>1 DEF GridLeft, MoveGrid
<1>7. CASE GridRight
  <2>1. gridCursor + 1 \in 0..AtLeast(Len(grid) - 1, 0)
    BY <1>1, <1>7 DEF AtLeast, GridRight
  <2> QED
    BY <1>7, <2>1 DEF GridRight, MoveGrid
<1> QED
  BY <1>4, <1>5, <1>6, <1>7

LEMMA GridMoveGood ==
    ASSUME VInv, GridUp \/ GridDown \/ GridLeft \/ GridRight
    PROVE  VInv'
<1>1. PICK c \in 0..AtLeast(Len(grid) - 1, 0) : MoveGrid(c)
  BY CursorMoves
<1>2. UNCHANGED <<grid, listPart, choice, link, mode, searching, world>>
  BY <1>1 DEF MoveGrid
<1>3. VBase'
  BY <1>2, BaseKept DEF VInv, VBase
<1>4. VGrid'
  BY <1>1, GridMoved DEF VInv
<1>5. VList'
  BY <1>2, ListKept DEF VInv, choice, world
<1> QED
  BY <1>3, <1>4, <1>5 DEF VInv

LEMMA IndexMoves ==
    ASSUME VInv, ListUp \/ ListDown
    PROVE  \E i \in 0..AtLeast(Len(filtered) - 1, 0) : MoveList(i)
<1>1. Len(filtered) \in Nat /\ serverIdx \in 0..AtLeast(Len(filtered) - 1, 0)
  BY LengthOf, Zenon DEF VInv, VList
<1>2. CASE ListUp
  <2>1. serverIdx - 1 \in 0..AtLeast(Len(filtered) - 1, 0)
    BY <1>1, <1>2 DEF AtLeast, ListUp
  <2> QED
    BY <1>2, <2>1 DEF ListUp
<1>3. CASE ListDown
  <2>1. serverIdx + 1 \in 0..AtLeast(Len(filtered) - 1, 0)
    BY <1>1, <1>3 DEF AtLeast, ListDown
  <2> QED
    BY <1>3, <2>1 DEF ListDown
<1> QED
  BY <1>2, <1>3

LEMMA ListMoveGood ==
    ASSUME VInv, ListUp \/ ListDown
    PROVE  VInv'
<1>1. PICK i \in 0..AtLeast(Len(filtered) - 1, 0) : MoveList(i)
  BY IndexMoves
<1>2. UNCHANGED <<filtered, listCountry, gridPart, choice, link, mode, searching, world>>
  BY <1>1 DEF MoveList
<1>3. VBase'
  BY <1>2, BaseKept DEF VInv, VBase
<1>4. VGrid'
  BY <1>2, GridKept DEF VInv, choice, world
<1>5. VList'
  BY <1>1, ListMoved DEF VInv
<1> QED
  BY <1>3, <1>4, <1>5 DEF VInv

LEMMA OpenCountryGood ==
    ASSUME VInv, OpenCountry
    PROVE  VInv'
<1> DEFINE country == grid[gridCursor + 1].country
<1>1. /\ gridCursor < Len(grid) /\ mode' = "servers"
      /\ ShowList(ListOf(country, filters), country)
      /\ UNCHANGED <<gridPart, choice, link, searching, world>>
  BY DEF OpenCountry
<1>2. country # ""
  BY <1>1, CardIs DEF VInv
<1>3. Facts(servers)
  BY ListFacts DEF VInv, VBase
<1> HIDE DEF country
<1>4. ListOf(country, filters) \in Seq(ServerRec)
      /\ Range(ListOf(country, filters)) \subseteq Accessible(filters)
  BY <1>3, ListOfIs
<1>5. Accessible(filters)' = Accessible(filters)
  BY <1>1 DEF Accessible, choice, world
<1>6. VBase'
  BY <1>1, BaseKept DEF VInv, VBase
<1>7. VGrid'
  BY <1>1, GridKept DEF VInv, choice, world
<1>8. VList'
  BY <1>1, <1>2, <1>4, <1>5, ListShown
<1> QED
  BY <1>6, <1>7, <1>8 DEF VInv

LEMMA CloseCountryGood ==
    ASSUME VInv, CloseCountry
    PROVE  VInv'
<1>1. mode' = "grid" /\ ShowList(<<>>, "") /\ UNCHANGED <<gridPart, choice, link, searching, world>>
  BY DEF CloseCountry
<1>2. VBase'
  BY <1>1, BaseKept DEF VInv, VBase
<1>3. VGrid'
  BY <1>1, GridKept DEF VInv, choice, world
<1>4. VList'
  BY <1>1, NothingTold, ListShown
<1> QED
  BY <1>2, <1>3, <1>4 DEF VInv

-----------------------------------------------------------------------------
(* Requests and reports *)

LEMMA OneMoreAsk ==
    ASSUME NEW m \in Nat, NEW n \in 0..m, n < m
    PROVE  n + 1 \in 0..m
  OBVIOUS

LEMMA AskGood ==
    ASSUME VInv, NEW s, Ask(s), s \in ServerRec, s.name \in NoQuery.names,
           lastCountry' \in {""} \cup STRING
    PROVE  VInv'
<1>1. /\ request' = s /\ vpnState' = "connecting" /\ connectedServer' = s.name
      /\ asks < MaxAsks /\ asks' = asks + 1
      /\ UNCHANGED <<mode, gridPart, listPart, searching, filters, world>>
  BY DEF Ask, Want
<1>2. asks' \in 0..MaxAsks
  <2>1. MaxAsks \in Nat /\ asks \in 0..MaxAsks
    BY ScreenAssumption, Zenon DEF VInv, VBase
  <2> QED
    BY <1>1, <2>1, OneMoreAsk, Zenon
<1>3. VBase'
  BY <1>1, <1>2 DEF VInv, VBase, world
<1>4. VGrid'
  BY <1>1, GridKept DEF VInv, world
<1>5. VList'
  BY <1>1, ListKept DEF VInv, world
<1> QED
  BY <1>3, <1>4, <1>5 DEF VInv

LEMMA ListedIs ==
    ASSUME VInv, NEW i \in 0..Len(filtered), AskListed(i)
    PROVE  filtered[i + 1] \in Accessible(filters)
<1>1. mode = "servers" /\ i < Len(filtered)
  BY DEF AskListed, InList
<1>2. Len(filtered) \in Nat /\ DOMAIN filtered = 1 .. Len(filtered)
  BY LengthOf, Zenon DEF VInv, VList
<1>3. i + 1 \in DOMAIN filtered
  BY <1>1, <1>2
<1> QED
  BY <1>1, <1>3 DEF VInv, VList, Range

LEMMA AskCountryGood ==
    ASSUME VInv, AskCountry
    PROVE  VInv'
<1>1. /\ gridCursor < Len(grid) /\ lastCountry' = grid[gridCursor + 1].country
      /\ Ask(grid[gridCursor + 1].server)
  BY DEF AskCountry
<1>2. grid[gridCursor + 1].server \in Accessible(filters) /\ lastCountry' \in STRING
  BY <1>1, CardIs DEF VInv
<1>3. grid[gridCursor + 1].server \in ServerRec /\ grid[gridCursor + 1].server.name \in NoQuery.names
  BY <1>2, AccessibleGiven DEF VInv
<1> QED
  BY <1>1, <1>2, <1>3, AskGood

LEMMA AskListedGood ==
    ASSUME VInv, NEW i \in 0..Len(filtered), AskListed(i)
    PROVE  VInv'
<1>1. Ask(filtered[i + 1]) /\ lastCountry' = filtered[i + 1].country
  BY DEF AskListed
<1>2. filtered[i + 1] \in ServerRec /\ filtered[i + 1].name \in NoQuery.names
  BY ListedIs, AccessibleGiven DEF VInv
<1>3. filtered[i + 1].country \in STRING
  BY <1>2 DEF ServerRec
<1> QED
  BY <1>1, <1>2, <1>3, AskGood

LEMMA QuickConnectGood ==
    ASSUME VInv, QuickConnect
    PROVE  VInv'
<1>1. QuickConnectServer # NoServer /\ Ask(QuickConnectServer) /\ lastCountry' = lastCountry
  BY DEF QuickConnect
<1>2. QuickConnectServer \in Accessible(filters)
  BY <1>1, QuickFinds DEF VInv, BestOf
<1>3. QuickConnectServer \in ServerRec /\ QuickConnectServer.name \in NoQuery.names
  BY <1>2, AccessibleGiven DEF VInv
<1>4. lastCountry' \in {""} \cup STRING
  BY <1>1 DEF VInv, VBase
<1> QED
  BY <1>1, <1>3, <1>4, AskGood

LEMMA WantGood ==
    ASSUME VInv, NEW s \in Range(Catalogue), Want(s),
           UNCHANGED <<vpnState, connectedServer, mode, gridPart, listPart, searching, choice, world>>
    PROVE  VInv'
<1>1. request' = s /\ asks < MaxAsks /\ asks' = asks + 1
  BY DEF Want
<1>2. asks' \in 0..MaxAsks
  <2>1. MaxAsks \in Nat /\ asks \in 0..MaxAsks
    BY ScreenAssumption, Zenon DEF VInv, VBase
  <2> QED
    BY <1>1, <2>1, OneMoreAsk, Zenon
<1>3. s \in ServerRec /\ s.name \in NoQuery.names
  BY InCatalogue
<1>4. VBase'
  BY <1>1, <1>2, <1>3 DEF VInv, VBase, world, choice
<1>5. VGrid'
  BY GridKept DEF VInv, world, choice
<1>6. VList'
  BY ListKept DEF VInv, world, choice
<1> QED
  BY <1>4, <1>5, <1>6 DEF VInv

LEMMA AutoConnectGood ==
    ASSUME VInv, AutoConnect
    PROVE  VInv'
<1>1. AutoConnectServer(cfg.lastCountry, cfg.filters) \in Range(Catalogue)
  BY AutoFinds DEF AutoConnect
<1> QED
  BY <1>1, WantGood DEF AutoConnect

LEMMA CommandConnectGood ==
    ASSUME VInv, NEW p, CommandConnect(p)
    PROVE  VInv'
<1>1. Requested(p) \in Range(Catalogue)
  BY RequestedOfCatalogue DEF CommandConnect
<1> QED
  BY <1>1, WantGood DEF CommandConnect

LEMMA ConnectedGood ==
    ASSUME VInv, Connected
    PROVE  VInv'
<1>1. /\ request # NoServer /\ vpnState' = "connected" /\ connectedServer' = request.name
      /\ request' = NoServer /\ asks' = asks
      /\ cfg' = [cfg EXCEPT !.lastCountry = request.country]
      /\ UNCHANGED <<mode, gridPart, listPart, searching, choice, servers, size>>
  BY DEF Connected
<1>2. request \in ServerRec /\ request.name \in NoQuery.names
  BY <1>1 DEF VInv, VBase
<1>3. cfg' \in [filters: SUBSET Features, lastCountry: {""} \cup STRING]
  <2>1. request.country \in STRING
    BY <1>2 DEF ServerRec
  <2> QED
    BY <1>1, <2>1 DEF VInv, VBase
<1>4. VBase'
  BY <1>1, <1>2, <1>3 DEF VInv, VBase, choice
<1>5. VGrid'
  BY <1>1, GridKept DEF VInv, choice
<1>6. VList'
  BY <1>1, ListKept DEF VInv, choice
<1> QED
  BY <1>4, <1>5, <1>6 DEF VInv

LEMMA ReportGood ==
    ASSUME VInv, Disconnected \/ Busy
    PROVE  VInv'
<1>1. /\ vpnState' \in {"disconnected", "connecting"}
      /\ connectedServer' \in {"", connectedServer} /\ request' \in {NoServer, request}
      /\ asks' = asks
      /\ UNCHANGED <<mode, gridPart, listPart, searching, choice, world>>
  BY DEF Disconnected, Busy
<1>2. VBase'
  BY <1>1 DEF VInv, VBase, choice, world
<1>3. VGrid'
  BY <1>1, GridKept DEF VInv, choice, world
<1>4. VList'
  BY <1>1, ListKept DEF VInv, choice, world
<1> QED
  BY <1>2, <1>3, <1>4 DEF VInv

LEMMA VStep ==
    ASSUME VInv, [VNext]_vvars
    PROVE  VInv'
<1>1. CASE UNCHANGED vvars
  <2>1. UNCHANGED <<choice, link, world>> /\ mode' = mode /\ searching' = searching
        /\ UNCHANGED <<gridPart, listPart, servers, filters>>
    BY <1>1 DEF vvars, choice, link, world, gridPart, listPart
  <2>2. VBase'
    BY <2>1, BaseKept DEF VInv, VBase
  <2>3. VGrid'
    BY <2>1, GridKept DEF VInv
  <2>4. VList'
    BY <2>1, ListKept DEF VInv
  <2> QED
    BY <2>2, <2>3, <2>4 DEF VInv
<1>2. CASE VNext
  <2>1. CASE Restart \/ SetServers \/ SetSize
    BY <2>1, RestartGood, SetServersGood, SetSizeGood
  <2>2. CASE StartSearch \/ EscapeSearch \/ EnterSearch
    BY <2>2, StartSearchGood, EscapeSearchGood, EnterSearchGood
  <2>3. CASE \E q \in Queries \cup {NoQuery} : Type(q)
    BY <2>3, TypeGood
  <2>4. CASE \E f \in Toggles : Toggle(f)
    BY <2>4, ToggleGood
  <2>5. CASE GridUp \/ GridDown \/ GridLeft \/ GridRight
    BY <2>5, GridMoveGood
  <2>6. CASE ListUp \/ ListDown
    BY <2>6, ListMoveGood
  <2>7. CASE OpenCountry \/ CloseCountry
    BY <2>7, OpenCountryGood, CloseCountryGood
  <2>8. CASE AskCountry \/ QuickConnect
    BY <2>8, AskCountryGood, QuickConnectGood
  <2>9. CASE \E i \in 0..Len(filtered) : AskListed(i)
    BY <2>9, AskListedGood
  <2>10. CASE AutoConnect
    BY <2>10, AutoConnectGood
  <2>11. CASE \E p \in Commands : CommandConnect(p)
    BY <2>11, CommandConnectGood
  <2>12. CASE Connected
    BY <2>12, ConnectedGood
  <2>13. CASE Disconnected \/ Busy
    BY <2>13, ReportGood
  <2> QED
    BY <1>2, <2>1, <2>2, <2>3, <2>4, <2>5, <2>6, <2>7, <2>8, <2>9, <2>10, <2>11, <2>12, <2>13 DEF VNext
<1> QED
  BY <1>1, <1>2

LEMMA VInvHolds == VSpec => []VInv
<1>1. VInit => VInv
  BY VInitGood
<1>2. VInv /\ [VNext]_vvars => VInv'
  BY VStep
<1> QED
  BY <1>1, <1>2, PTL DEF VSpec

-----------------------------------------------------------------------------
(* The theorems *)

\* Every part of the screen keeps its type, and both cursors stay on an entry
\* however grid and list shrink.
THEOREM ScreenTyped == VSpec => []VTypeOK
<1>1. VInv => VTypeOK
  BY VInvTells
<1> QED
  BY <1>1, VInvHolds, PTL

\* The grid always tells the truth about its countries, whichever screen
\* changed the filters.
THEOREM GridTruthful == VSpec => []GridTells
<1>1. VInv => GridTells
  BY VInvTells
<1> QED
  BY <1>1, VInvHolds, PTL

\* A pick is among the servers the filters now allow and the daemon can give.
THEOREM PicksAllowed == VSpec => PickedSuits
<1> DEFINE Suits ==
      AskCountry \/ (\E i \in 0..Len(filtered) : AskListed(i))
          => /\ request' \in Accessible(filters)
             /\ \E s \in Range(Catalogue) : s.name = request'.name /\ s.online
                                            /\ EffectiveTier(s) <= MaxTier
<1>1. VInv /\ [VNext]_vvars => [Suits]_vvars
  <2> SUFFICES ASSUME VInv, AskCountry \/ (\E i \in 0..Len(filtered) : AskListed(i))
               PROVE  /\ request' \in Accessible(filters)
                      /\ \E s \in Range(Catalogue) : s.name = request'.name /\ s.online
                                                     /\ EffectiveTier(s) <= MaxTier
    OBVIOUS
  <2>1. request' \in Accessible(filters)
    <3>1. CASE AskCountry
      BY <3>1, CardIs DEF VInv, AskCountry, Ask, Want
    <3>2. CASE \E i \in 0..Len(filtered) : AskListed(i)
      BY <3>2, ListedIs DEF AskListed, Ask, Want
    <3> QED
      BY <3>1, <3>2
  <2>2. Gives(request')
    BY <2>1, AccessibleGiven DEF VInv
  <2> QED
    BY <2>1, <2>2 DEF Gives
<1> QED
  BY <1>1, VInvHolds, PTL DEF VSpec, PickedSuits

LEMMA GridFollows ==
    ASSUME VInv, GridUp \/ GridDown \/ GridLeft \/ GridRight
    PROVE  GridCursorShown'
<1>1. PICK c \in 0..AtLeast(Len(grid) - 1, 0) : MoveGrid(c)
  BY CursorMoves
<1>2. Len(grid) \in Nat /\ gridScrollY \in Nat
  BY LengthOf, Zenon DEF VInv, VGrid
<1>3. GridCols \in Nat /\ GridCols > 0 /\ VisibleRows \in Nat /\ VisibleRows > 0
  BY Window DEF VInv, VBase
<1>4. /\ grid' = grid /\ gridCursor' = c /\ GridCols' = GridCols /\ VisibleRows' = VisibleRows
      /\ gridScrollY' = ScrollTo(c \div GridCols, gridScrollY, VisibleRows)
  BY <1>1 DEF MoveGrid, world, GridCols, VisibleRows
<1> DEFINE row == c \div GridCols
           rows == VisibleRows
           scroll == ScrollTo(row, gridScrollY, rows)
           pages == (Len(grid) + GridCols - 1) \div GridCols
           last == AtLeast(pages - rows, 0)
<1>5. c \in Nat
  BY <1>2, Indices, Zenon
<1>6. row \in Nat
  BY <1>3, <1>5, Division
<1>7. scroll \in Nat /\ scroll <= row /\ row < scroll + rows
  BY <1>2, <1>3, <1>6, Scrolled
<1>8. row \in (IF scroll > last THEN last ELSE scroll) .. ((IF scroll > last THEN last ELSE scroll) + rows - 1)
  <2>1. CASE Len(grid) = 0
    <3>1. c = 0
      BY <2>1 DEF AtLeast
    <3>2. row = 0
      BY <1>3, <3>1
    <3>3. pages \in Nat
      BY <1>2, <1>3, Division
    <3> HIDE DEF row, rows, scroll, pages
    <3> QED
      BY <1>3, <1>7, <3>2, <3>3 DEF AtLeast, rows
  <2>2. CASE Len(grid) # 0
    <3>1. c < Len(grid)
      BY <1>2, <2>2 DEF AtLeast
    <3>2. pages \in Nat /\ row <= pages - 1
      BY <1>2, <1>3, <1>5, <3>1, RowWithin
    <3> HIDE DEF row, rows, scroll, pages
    <3> QED
      BY <1>3, <1>6, <1>7, <3>2 DEF AtLeast, rows
  <2> QED
    BY <2>1, <2>2
<1> QED
  BY <1>4, <1>8 DEF GridCursorShown, GridTop

LEMMA ListFollows ==
    ASSUME VInv, ListUp \/ ListDown
    PROVE  ListCursorShown'
<1>1. PICK i \in 0..AtLeast(Len(filtered) - 1, 0) : MoveList(i)
  BY IndexMoves
<1>2. Len(filtered) \in Nat /\ listScrollY \in Nat
  BY LengthOf, Zenon DEF VInv, VList
<1>3. i \in Nat
  BY <1>2, Indices, Zenon
<1>4. VisibleListRows \in Nat /\ VisibleListRows >= 3
  BY Window DEF VInv, VBase
<1>5. /\ serverIdx' = i /\ VisibleListRows' = VisibleListRows
      /\ listScrollY' = ScrollTo(i, listScrollY, VisibleListRows)
  BY <1>1 DEF MoveList, world, VisibleListRows
<1>6. /\ ScrollTo(i, listScrollY, VisibleListRows) \in Nat
      /\ ScrollTo(i, listScrollY, VisibleListRows) <= i
      /\ i < ScrollTo(i, listScrollY, VisibleListRows) + VisibleListRows
  BY <1>2, <1>3, <1>4, Scrolled
<1> QED
  BY <1>3, <1>4, <1>5, <1>6 DEF ListCursorShown

\* Whatever the terminal's size, a movement key leaves the cursor in view.
THEOREM MovesShown == VSpec => MoveShowsCursor
<1>1. VInv /\ [VNext]_vvars =>
        [/\ (GridUp \/ GridDown \/ GridLeft \/ GridRight) => GridCursorShown'
         /\ (ListUp \/ ListDown) => ListCursorShown']_vvars
  BY GridFollows, ListFollows
<1> QED
  BY <1>1, VInvHolds, PTL DEF VSpec, MoveShowsCursor

LEMMA BestAtOnce ==
    ASSUME VInv
    PROVE  (AutoConnect => AutoTakesBest) /\ (QuickConnect => QuickTakesBest)
<1>1. ASSUME AutoConnect PROVE AutoTakesBest
  <2>1. request' = AutoConnectServer(cfg.lastCountry, cfg.filters) /\ request' # NoServer
    BY <1>1 DEF AutoConnect, Want
  <2> QED
    BY <2>1, AutoFinds DEF AutoTakesBest
<1>2. ASSUME QuickConnect PROVE QuickTakesBest
  <2>1. request' = QuickConnectServer /\ QuickConnectServer # NoServer
    BY <1>2 DEF QuickConnect, Ask, Want
  <2>2. VBase
    BY DEF VInv
  <2> QED
    BY <2>1, <2>2, QuickFinds DEF QuickTakesBest
<1> QED
  BY <1>1, <1>2

\* The daemon's own connection and Q take the best server there is.
THEOREM BestTaken == VSpec => BestIsChosen
<1>1. VInv /\ [VNext]_vvars =>
        [(AutoConnect => AutoTakesBest) /\ (QuickConnect => QuickTakesBest)]_vvars
  BY BestAtOnce
<1> QED
  BY <1>1, VInvHolds, PTL DEF VSpec, BestIsChosen

=============================================================================
