------------------------- MODULE RouteNegotiationProofs -------------------------
(***************************************************************************)
(* Proofs about the router: that the copy it searches is what it offers in *)
(* the end (CopyIsTheOffer), that what it offers is executed as it is      *)
(* (RouterIsExecuted), and that a net it calls routed is joined in what it *)
(* offers (RoutedIsJoined).  They hold for every set of boards and         *)
(* requests that meets the assumptions of RouteNegotiation, whatever the   *)
(* search answers among the ways RouteSearch lets it find.                 *)
(***************************************************************************)
EXTENDS RouteNegotiation, FiniteSetTheorems, FunctionTheorems, SequenceTheorems,
        WellFoundedInduction, TLAPS

Conductors(b) == b.routes \cup b.vias
SegmentsOf(solved) == UNION {solved[n].segments : n \in DOMAIN solved}
ViasIn(solved) == UNION {solved[n].vias : n \in DOMAIN solved}
Removable(b) == IdsOf(Unlocked(b.routes))

BoardIsSound(b) ==
  /\ IsBoard(b) /\ Loadable(b) /\ IsFiniteSet(Conductors(b))
  /\ IsFiniteSet(b.layers) /\ {p.id : p \in b.pads} \subseteq Range(PadOrder)

\* New copper lies on the board.
IsRun(b, n, o) == /\ IsRoute(o) /\ o.net = n /\ ~o.lock /\ o.layers \subseteq b.layers
                  /\ RectContains(b.outline, o.start) /\ RectContains(b.outline, o.end)
IsBore(b, n, o) == /\ IsVia(o) /\ o.net = n /\ ~o.lock /\ o.layers \subseteq b.layers
                   /\ RectContains(b.outline, o.pos)

\* New copper has a copper's name, and that of nothing on the board but a removed route.
IsNamed(b, removed, o) ==
  /\ Len(o.id) = 4 /\ o.id[1] \in {"route", "via"}
  /\ o.id \notin IdsOf(b.vias)
  /\ o.id \in IdsOf(b.routes) => o.id \in removed

\* The copy differs from the board in its routes and vias alone, and no two of them share an id.
CopyIsSound(b, work) ==
  /\ DOMAIN work = DOMAIN b /\ \A x \in DOMAIN b \ {"routes", "vias"} : work[x] = b[x]
  /\ IsFiniteSet(Conductors(work))
  /\ (\A o \in work.routes : IsRoute(o)) /\ \A o \in work.vias : IsVia(o)
  /\ \A o, q \in Conductors(work) : o.id = q.id => o = q

\* It has the routes the offer will have, and the vias.
CopyIsKept(b, work, solved, removed) ==
  /\ work.routes = {o \in b.routes : o.id \notin removed} \cup SegmentsOf(solved)
  /\ b.vias \cup ViasIn(solved) \subseteq work.vias
  /\ removed \subseteq Removable(b)

SolvedIsSound(b, solved, removed) ==
  /\ \A n \in DOMAIN solved : /\ n \in DOMAIN b.class
                              /\ \A o \in solved[n].segments : IsRun(b, n, o)
                              /\ \A o \in solved[n].vias : IsBore(b, n, o)
  /\ \A o \in SegmentsOf(solved) \cup ViasIn(solved) : IsNamed(b, removed, o)

WorkIsSound(b, work, solved, removed) ==
  CopyIsSound(b, work) /\ CopyIsKept(b, work, solved, removed) /\ SolvedIsSound(b, solved, removed)

\* Every requested net is solved, lost or still to come, and no two of these.
NetsAreSplit(b, r) ==
  LET ahead == IF r.phase = "first" THEN r.todo ELSE {} IN
  /\ r.requested \subseteq Range(NetOrder)
  /\ r.requested = DOMAIN r.solved \cup r.lost \cup ahead
  /\ DOMAIN r.solved \cap r.lost = {}
  /\ (DOMAIN r.solved \cup r.lost) \cap ahead = {}
  /\ r.hopeless \subseteq r.lost
  /\ \A n \in (DOMAIN r.solved \cup r.lost) \ r.hopeless : Routable(b, n)
  /\ DOMAIN r.solved \cap r.hopeless = {}

\* What is taken up again is lost, and what is tried is in the copy.
TriesAreSound(b, r) ==
  /\ r.phase \in {"round", "try"} => r.todo \subseteq r.lost \ r.hopeless
  /\ r.phase = "try" =>
       /\ r.net \in r.lost \ r.hopeless
       /\ \A t \in r.tries :
            \/ t[1] = "net" /\ t[2] \in DOMAIN r.solved
            \/ /\ t[1] = "route" /\ t[2] \in Removable(b)
               /\ \E o \in r.work.routes : o.id = t[2] /\ o.net \notin r.requested
  /\ r.phase = "again" => r.stripped \in r.lost \ r.hopeless

Phases == {"idle", "first", "between", "round", "try", "again", "done"}

CallIsSound(b, r) ==
  /\ DOMAIN r = DOMAIN RouteIdle /\ r.phase \in Phases
  /\ r.phase \notin {"idle", "done"} =>
       WorkIsSound(b, r.work, r.solved, r.removed) /\ NetsAreSplit(b, r) /\ TriesAreSound(b, r)
  /\ r.phase = "done" => /\ r.requested = DOMAIN r.solved \cup r.lost
                         /\ DOMAIN r.solved \cap r.lost = {}

\* What is proposed is what the rules were asked about, and they found nothing.
OfferIsSound(b, r, p) ==
  p # NoProposal =>
    /\ r.phase = "done"
    /\ p = [by |-> "router", ops |-> <<[type |-> "route", removed |-> r.removed,
              segments |-> Segments(r), vias |-> Vias(r)]>>]
    /\ IdsOf(Segments(r) \cup Vias(r)) \cap r.removed = {}
    /\ Check(Laid(b, Found(r), r.removed)) = {}
    /\ WorkIsSound(b, r.work, r.solved, r.removed)

IInv ==
  /\ BoardIsSound(board)
  /\ CallIsSound(board, route)
  /\ OfferIsSound(board, route, proposal)

-----------------------------------------------------------------------------
(* Numbers and finite sets. *)

\* A nonempty set of natural numbers has a least element.
LEMMA LeastNumber ==
  ASSUME NEW T, T \subseteq Nat, T # {}
  PROVE  \E n \in T : \A m \in T : n <= m
<1>1. PICK n \in T : \A m \in T : ~(<<m, n>> \in OpToRel(<, Nat))
  BY WFMin, NatLessThanWellFounded
<1>2. \A m \in T : <<m, n>> \in OpToRel(<, Nat) <=> m < n
  BY DEF OpToRel
<1>3. \A m \in T : ~(m < n)
  BY <1>1, <1>2
<1> QED BY <1>3

\* What holds of a number and of the successor of every number it holds of holds from there on.
LEMMA FromOn ==
  ASSUME NEW a \in Nat, NEW N \in Nat, NEW G,
         a \in G, \A n \in a .. N - 1 : n \in G => n + 1 \in G
  PROVE  a .. N \subseteq G
<1> SUFFICES ASSUME ~(a .. N \subseteq G) PROVE FALSE
  OBVIOUS
<1> DEFINE T == (a .. N) \ G
<1>1. T # {} /\ T \subseteq Nat
  OBVIOUS
<1>2. PICK n \in T : \A m \in T : n <= m
  BY <1>1, LeastNumber
<1>3. n # a /\ n - 1 \in a .. N - 1
  OBVIOUS
<1>4. n - 1 \in G
  BY <1>2, <1>3
<1> QED BY <1>4, <1>3

\* The values of a function on a finite set are finitely many.
LEMMA FinitelyMany ==
  ASSUME NEW f, IsFiniteSet(DOMAIN f)
  PROVE  IsFiniteSet({f[x] : x \in DOMAIN f})
<1> DEFINE g == [x \in DOMAIN f |-> f[x]]
           T == {f[x] : x \in DOMAIN f}
<1>1. g \in Surjection(DOMAIN f, T)
  BY DEF Surjection
<1> HIDE DEF g, T
<1>2. IsFiniteSet(T)
  BY <1>1, FS_Surjection
<1> QED BY <1>2 DEF T


\* Of a finite set of numbers with a member there is a least one.
LEMMA MinIs ==
  ASSUME NEW S, S \subseteq Nat, S # {}
  PROVE  Min(S) \in S /\ \A m \in S : Min(S) <= m
<1>1. \E n \in S : \A m \in S : n <= m
  BY LeastNumber
<1> QED BY <1>1 DEF Min

\* The members of a set of numbers that are no greater than one of them are fewer than those that
\* are no greater than a greater one.
LEMMA RankGrows ==
  ASSUME NEW S, S \subseteq Int, IsFiniteSet(S), NEW i \in S, NEW k \in S
  PROVE  /\ Cardinality({j \in S : j <= i}) \in 1 .. Cardinality(S)
         /\ i < k => Cardinality({j \in S : j <= i}) < Cardinality({j \in S : j <= k})
<1> DEFINE upto(x) == {j \in S : j <= x}
<1>1. ASSUME NEW x \in S
      PROVE  /\ IsFiniteSet(upto(x)) /\ Cardinality(upto(x)) \in Nat
             /\ Cardinality(upto(x)) <= Cardinality(S) /\ x \in upto(x)
  <2>1. upto(x) \in SUBSET S /\ x \in upto(x)
    OBVIOUS
  <2> HIDE DEF upto
  <2> QED BY <2>1, FS_Subset, FS_CardinalityType
<1>2. Cardinality(upto(i)) # 0
  <2>1. IsFiniteSet(upto(i)) /\ upto(i) # {}
    BY <1>1
  <2> HIDE DEF upto
  <2> QED BY <2>1, FS_EmptySet
<1>3. ASSUME i < k PROVE Cardinality(upto(i)) < Cardinality(upto(k))
  <2>1. upto(i) \in SUBSET upto(k) /\ upto(i) # upto(k)
    <3>1. k \in upto(k) /\ k \notin upto(i)
      BY <1>3
    <3>2. \A j \in S : j <= i => j <= k
      <4>1. i \in Int /\ k \in Int /\ S \subseteq Int
        OBVIOUS
      <4> QED BY <4>1, <1>3
    <3>3. upto(i) \subseteq upto(k)
      BY <3>2
    <3> QED BY <3>1, <3>3
  <2>2. IsFiniteSet(upto(k)) /\ Cardinality(upto(i)) \in Nat /\ Cardinality(upto(k)) \in Nat
    BY <1>1
  <2> HIDE DEF upto
  <2>3. Cardinality(upto(i)) <= Cardinality(upto(k)) /\ Cardinality(upto(i)) # Cardinality(upto(k))
    BY <2>1, <2>2, FS_Subset
  <2> QED BY <2>2, <2>3
<1>4. Cardinality(S) \in Nat
  BY FS_CardinalityType
<1>5. Cardinality(upto(i)) \in 1 .. Cardinality(S)
  <2>1. Cardinality(upto(i)) \in Nat /\ Cardinality(upto(i)) <= Cardinality(S)
    BY <1>1
  <2> HIDE DEF upto
  <2> QED BY <2>1, <1>2, <1>4
<1> QED BY <1>3, <1>5

\* The members of a finite set of numbers in their order: each of them once, and the lesser first.
LEMMA AscendingIs ==
  ASSUME NEW S, S \subseteq Int, IsFiniteSet(S)
  PROVE  /\ Cardinality(S) \in Nat /\ Ascending(S) \in Seq(S)
         /\ DOMAIN Ascending(S) = 1 .. Cardinality(S) /\ Len(Ascending(S)) = Cardinality(S)
         /\ \A k \in 1 .. Cardinality(S) : Ascending(S)[k] \in S
         /\ \A i \in S : \E k \in 1 .. Cardinality(S) : Ascending(S)[k] = i
         /\ \A k, l \in 1 .. Cardinality(S) : k < l => Ascending(S)[k] < Ascending(S)[l]
<1> DEFINE N == Cardinality(S)
           rank == [i \in S |-> Cardinality({j \in S : j <= i})]
           A == Ascending(S)
<1>1. N \in Nat /\ IsFiniteSet(1 .. N) /\ Cardinality(1 .. N) = N
  <2>1. N \in Nat
    BY FS_CardinalityType
  <2> HIDE DEF N
  <2>2. IsFiniteSet(1 .. N) /\ Cardinality(1 .. N) = IF 1 > N THEN 0 ELSE N - 1 + 1
    BY <2>1, FS_Interval
  <2> QED BY <2>1, <2>2
<1>2. /\ \A i \in S : rank[i] \in 1 .. N
      /\ \A i, k \in S : i < k => rank[i] < rank[k]
  BY RankGrows
<1>3. rank \in Injection(S, 1 .. N)
  <2>1. rank \in [S -> 1 .. N]
    BY <1>2
  <2>2. ASSUME NEW i \in S, NEW k \in S, rank[i] = rank[k] PROVE i = k
    <3>1. i \in Int /\ k \in Int /\ rank[i] \in Int
      BY <1>2, <1>1
    <3> HIDE DEF rank
    <3>2. ~(i < k) /\ ~(k < i)
      BY <1>2, <2>2, <3>1
    <3> QED BY <3>1, <3>2
  <2>3. DOMAIN rank = S
    OBVIOUS
  <2> HIDE DEF rank
  <2> QED BY <2>1, <2>2, <2>3 DEF Injection, IsInjective
<1>4. rank \in Surjection(S, 1 .. N)
  <2> HIDE DEF rank
  <2> QED BY <1>1, <1>3, FS_Injection DEF N
<1>5. A = [k \in 1 .. N |-> CHOOSE i \in S : Cardinality({j \in S : j <= i}) = k]
  BY DEF Ascending
<1>r. \A i \in S : rank[i] = Cardinality({j \in S : j <= i})
  OBVIOUS
<1> HIDE DEF A, rank, N
<1>6. ASSUME NEW k \in 1 .. N PROVE A[k] \in S /\ rank[A[k]] = k
  <2>1. \E i \in S : rank[i] = k
    BY <1>4 DEF Surjection
  <2>2. \E i \in S : Cardinality({j \in S : j <= i}) = k
    BY <2>1, <1>r
  <2>3. A[k] \in S /\ Cardinality({j \in S : j <= A[k]}) = k
    BY <2>2, <1>5
  <2> QED BY <2>3, <1>r
<1>7. ASSUME NEW i \in S PROVE rank[i] \in 1 .. N /\ A[rank[i]] = i
  <2>1. rank[i] \in 1 .. N
    BY <1>2
  <2>2. A[rank[i]] \in S /\ rank[A[rank[i]]] = rank[i]
    BY <2>1, <1>6
  <2> QED BY <2>1, <2>2, <1>3 DEF Injection, IsInjective
<1>8. ASSUME NEW k \in 1 .. N, NEW l \in 1 .. N, k < l PROVE A[k] < A[l]
  <2>1. A[k] \in S /\ A[l] \in S /\ rank[A[k]] = k /\ rank[A[l]] = l
    BY <1>6
  <2>2. A[l] # A[k] /\ ~(A[l] < A[k])
    <3>1. k \in Int /\ l \in Int
      BY <1>1
    <3>2. A[l] < A[k] => l < k
      BY <2>1, <1>2
    <3> QED BY <2>1, <3>1, <3>2, <1>8
  <2>3. A[k] \in Int /\ A[l] \in Int
    BY <2>1
  <2> QED BY <2>2, <2>3
<1>9. A \in Seq(S) /\ DOMAIN A = 1 .. N /\ Len(A) = N
  <2>1. A \in [1 .. N -> S]
    BY <1>5, <1>6
  <2>2. A \in Seq(S)
    BY <2>1, <1>1, SeqDef
  <2> QED BY <2>1, <2>2, <1>1, LenProperties
<1> QED BY <1>1, <1>6, <1>7, <1>8, <1>9 DEF A, N

IsFlat(ss, flat, n) ==
  flat = [i \in 1 .. n |-> IF i = 1 THEN ss[i] ELSE flat[i - 1] \o ss[i]]

\* The first sequences can be put one after the other, however many they are.
LEMMA FlatsExist ==
  ASSUME NEW ss, NEW N \in Nat \ {0}
  PROVE  \E flat : IsFlat(ss, flat, N)
<1> DEFINE G == {n \in Nat : \E flat : IsFlat(ss, flat, n)}
<1>1. 1 \in G
  <2> DEFINE flat == [m \in 1 .. 1 |-> ss[1]]
  <2>1. \A m \in 1 .. 1 : m = 1
    OBVIOUS
  <2>2. IsFlat(ss, flat, 1)
    BY <2>1 DEF IsFlat
  <2> QED BY <2>2
<1>2. ASSUME NEW n \in 1 .. N - 1, n \in G
      PROVE  n + 1 \in G
  <2>1. PICK old : IsFlat(ss, old, n)
    BY <1>2
  <2> DEFINE flat == [m \in 1 .. n + 1 |-> IF m = n + 1 THEN old[n] \o ss[n + 1] ELSE old[m]]
  <2>2. \A m \in 1 .. n : flat[m] = old[m]
    OBVIOUS
  <2>3. \A m \in 1 .. n + 1 : flat[m] = IF m = 1 THEN ss[m] ELSE flat[m - 1] \o ss[m]
    <3> TAKE m \in 1 .. n + 1
    <3>1. CASE m = n + 1
      <4>1. m # 1 /\ m - 1 = n /\ n \in 1 .. n
        BY <3>1
      <4>2. flat[m] = old[n] \o ss[m] /\ flat[m - 1] = old[n]
        BY <4>1, <3>1, <2>2
      <4> QED BY <4>1, <4>2
    <3>2. CASE m # n + 1
      <4>1. m \in 1 .. n /\ flat[m] = old[m] /\ (m # 1 => flat[m - 1] = old[m - 1])
        BY <3>2, <2>2
      <4>2. old[m] = IF m = 1 THEN ss[m] ELSE old[m - 1] \o ss[m]
        BY <4>1, <2>1 DEF IsFlat
      <4> HIDE DEF flat
      <4> QED BY <4>1, <4>2
    <3> QED BY <3>1, <3>2
  <2>4. flat = [m \in 1 .. n + 1 |-> flat[m]]
    OBVIOUS
  <2> HIDE DEF flat
  <2>5. IsFlat(ss, flat, n + 1)
    BY <2>3, <2>4 DEF IsFlat
  <2> QED BY <2>5
<1> HIDE DEF G
<1>3. 1 .. N \subseteq G
  BY <1>1, <1>2, FromOn
<1> QED BY <1>3 DEF G

\* Two sequences, one after the other, have the members of both.
LEMMA MembersOfBoth ==
  ASSUME NEW T, NEW s \in Seq(T), NEW u \in Seq(T)
  PROVE  s \o u \in Seq(T) /\ Range(s \o u) = Range(s) \cup Range(u)
<1>1. /\ s \o u \in Seq(T) /\ Len(s \o u) = Len(s) + Len(u)
      /\ \A i \in 1 .. Len(s) + Len(u) : (s \o u)[i] = IF i <= Len(s) THEN s[i] ELSE u[i - Len(s)]
  BY ConcatProperties
<1>2. /\ Len(s) \in Nat /\ DOMAIN s = 1 .. Len(s)
      /\ Len(u) \in Nat /\ DOMAIN u = 1 .. Len(u)
      /\ DOMAIN (s \o u) = 1 .. Len(s) + Len(u)
  BY <1>1, LenProperties
<1>3. ASSUME NEW i \in DOMAIN (s \o u) PROVE (s \o u)[i] \in Range(s) \cup Range(u)
  <2>1. CASE i <= Len(s)
    BY <2>1, <1>1, <1>2 DEF Range
  <2>2. CASE ~(i <= Len(s))
    <3>1. i - Len(s) \in DOMAIN u /\ (s \o u)[i] = u[i - Len(s)]
      BY <2>2, <1>1, <1>2
    <3> QED BY <3>1 DEF Range
  <2> QED BY <2>1, <2>2
<1>4. ASSUME NEW i \in DOMAIN s PROVE s[i] \in Range(s \o u)
  <2>1. i \in DOMAIN (s \o u) /\ (s \o u)[i] = s[i]
    BY <1>1, <1>2
  <2> QED BY <2>1 DEF Range
<1>5. ASSUME NEW i \in DOMAIN u PROVE u[i] \in Range(s \o u)
  <2>1. i + Len(s) \in DOMAIN (s \o u) /\ (s \o u)[i + Len(s)] = u[i]
    BY <1>1, <1>2
  <2> QED BY <2>1 DEF Range
<1>6. Range(s \o u) \subseteq Range(s) \cup Range(u)
  BY <1>3 DEF Range
<1>7. Range(s) \subseteq Range(s \o u) /\ Range(u) \subseteq Range(s \o u)
  BY <1>4, <1>5 DEF Range
<1> QED BY <1>1, <1>6, <1>7

\* Many sequences, one after the other, have the members of all.
LEMMA FlattenIs ==
  ASSUME NEW T, NEW ss, NEW N \in Nat, Len(ss) = N, \A i \in 1 .. N : ss[i] \in Seq(T),
         N = 0 => ss = <<>>
  PROVE  /\ FlattenSeq(ss) \in Seq(T)
         /\ Range(FlattenSeq(ss)) = UNION {Range(ss[i]) : i \in 1 .. N}
<1>1. CASE N = 0
  <2>1. FlattenSeq(ss) = ss /\ ss = <<>>
    BY <1>1 DEF FlattenSeq
  <2>2. <<>> \in Seq(T) /\ Range(<<>>) = {} /\ 1 .. N = {}
    BY <1>1 DEF Range
  <2>3. UNION {Range(ss[i]) : i \in 1 .. N} = {}
    BY <2>2
  <2> QED BY <2>1, <2>2, <2>3
<1>2. CASE N # 0
  <2> DEFINE flat == CHOOSE flat : IsFlat(ss, flat, N)
             members(n) == UNION {Range(ss[i]) : i \in 1 .. n}
             G == {n \in Nat : flat[n] \in Seq(T) /\ Range(flat[n]) = members(n)}
  <2>1. IsFlat(ss, flat, N)
    BY <1>2, FlatsExist
  <2>2. FlattenSeq(ss) = flat[N]
    BY <1>2 DEF FlattenSeq, IsFlat
  <2> HIDE DEF flat
  <2>3. \A i \in 1 .. N : flat[i] = IF i = 1 THEN ss[i] ELSE flat[i - 1] \o ss[i]
    BY <2>1 DEF IsFlat
  <2>4. 1 \in G
    <3>1. flat[1] = ss[1] /\ ss[1] \in Seq(T)
      BY <2>3, <1>2
    <3>2. \A i \in 1 .. 1 : i = 1
      OBVIOUS
    <3>3. members(1) = Range(ss[1])
      BY <3>2
    <3> QED BY <3>1, <3>3
  <2>5. ASSUME NEW n \in 1 .. N - 1, n \in G PROVE n + 1 \in G
    <3>1. flat[n + 1] = flat[n] \o ss[n + 1] /\ ss[n + 1] \in Seq(T)
      <4>1. n + 1 \in 1 .. N /\ n + 1 # 1 /\ (n + 1) - 1 = n
        OBVIOUS
      <4> QED BY <4>1, <2>3
    <3>2. flat[n] \in Seq(T) /\ Range(flat[n]) = members(n)
      BY <2>5
    <3>3. members(n + 1) = members(n) \cup Range(ss[n + 1])
      <4>1. 1 .. n + 1 = (1 .. n) \cup {n + 1}
        OBVIOUS
      <4> QED BY <4>1
    <3> HIDE DEF members
    <3>4. /\ flat[n] \o ss[n + 1] \in Seq(T)
          /\ Range(flat[n] \o ss[n + 1]) = Range(flat[n]) \cup Range(ss[n + 1])
      BY <3>1, <3>2, MembersOfBoth
    <3>5. flat[n + 1] \in Seq(T) /\ Range(flat[n + 1]) = members(n + 1)
      BY <3>1, <3>2, <3>3, <3>4
    <3> QED BY <3>5
  <2> HIDE DEF G
  <2>6. 1 .. N \subseteq G
    BY <2>4, <2>5, <1>2, FromOn
  <2>7. N \in G
    BY <2>6, <1>2
  <2> QED BY <2>2, <2>7 DEF G
<1> QED BY <1>1, <1>2

\* A name with the first free number is new.
LEMMA FreshIdIs ==
  ASSUME NEW name, NEW n \in Nat, Len(name) = n, NEW T, name \in Seq(T),
         NEW used, IsFiniteSet(used)
  PROVE  \E k \in Nat : FreshId(name, used) = Append(name, k) /\ FreshId(name, used) \notin used
<1> DEFINE C == Cardinality(used)
           numbers == 1 .. C + 1
           free == {k \in numbers : Append(name, k) \notin used}
           f == [k \in numbers |-> Append(name, k)]
<1>1. C \in Nat
  BY FS_CardinalityType
<1>2. IsFiniteSet(numbers) /\ Cardinality(numbers) = C + 1
  <2> HIDE DEF C
  <2>1. IsFiniteSet(1 .. C + 1) /\ Cardinality(1 .. C + 1) = IF 1 > C + 1 THEN 0 ELSE (C + 1) - 1 + 1
    BY <1>1, FS_Interval
  <2> QED BY <2>1, <1>1
<1>3. ASSUME NEW k, NEW l, Append(name, k) = Append(name, l) PROVE k = l
  <2>1. name \in Seq(T \cup {k, l})
    BY SeqMonotonic
  <2>2. Append(name, k)[n + 1] = k /\ Append(name, l)[n + 1] = l
    BY <2>1
  <2> QED BY <2>2, <1>3
<1>4. free # {}
  <2> SUFFICES ASSUME \A k \in numbers : Append(name, k) \in used PROVE FALSE
    OBVIOUS
  <2>1. f \in [numbers -> used]
    OBVIOUS
  <2>2. Cardinality(used) < Cardinality(numbers)
    <3>1. C < Cardinality(numbers)
      <4> HIDE DEF C, numbers
      <4> QED BY <1>1, <1>2
    <3> QED BY <3>1
  <2> HIDE DEF f, numbers
  <2>3. \E x, y \in numbers : x # y /\ f[x] = f[y]
    BY <2>1, <2>2, <1>2, FS_PigeonHole
  <2>4. \A x \in numbers : f[x] = Append(name, x)
    BY DEF f
  <2> QED BY <2>3, <2>4, <1>3
<1>5. free \subseteq Nat
  <2>1. numbers \subseteq Nat
    <3> HIDE DEF C
    <3> QED BY <1>1
  <2> QED BY <2>1
<1>6. FreshId(name, used) = Append(name, Min(free))
  BY DEF FreshId
<1> HIDE DEF numbers
<1>7. Min(free) \in free
  <2> HIDE DEF free
  <2> QED BY <1>4, <1>5, MinIs
<1>8. Min(free) \in Nat /\ Append(name, Min(free)) \notin used
  BY <1>7, <1>5
<1> HIDE DEF free
<1> QED BY <1>6, <1>8

-----------------------------------------------------------------------------
(* What the search finds: ways along the grid, from a pad to the next. *)

Places(b) == GridPoints(b) \X b.layers

\* From one place to the next a way keeps its layer or its point, never both.
IsStep(p, q) == \/ p[2] = q[2] /\ p[1] # q[1]
                \/ p[1] = q[1] /\ p[2] # q[2]

IsMove(b, m) == /\ m.from \in Places(b) /\ m.to \in Places(b) /\ m.via \in {0, 1}
                /\ IsStep(m.from, m.to)

\* A way that begins at one of the places in begin.
IsWayTo(b, begin, place, w) ==
  /\ w \in Seq(Places(b)) /\ Len(w) \in Nat \ {0}
  /\ w[1] \in begin /\ w[Len(w)] = place
  /\ \A i \in 1 .. Len(w) - 1 : IsStep(w[i], w[i + 1])

PlacesOf(pad) == {pad.pos} \X pad.layers

IsWay(b, start, target, w) ==
  \E place \in PlacesOf(target) : IsWayTo(b, PlacesOf(start), place, w)

\* The grid of a board has finitely many points, all of them on the board.
LEMMA GridIs ==
  ASSUME NEW b, b.outline \in Rects
  PROVE  /\ IsFiniteSet(GridPoints(b))
         /\ \A p \in GridPoints(b) : p \in Points /\ RectContains(b.outline, p)
         /\ \A p \in Points : OnGrid(p) /\ RectContains(b.outline, p) => p \in GridPoints(b)
<1> DEFINE o == b.outline
           X == {c \in o.x .. o.x + o.w : c % Step = 0}
           Y == {c \in o.y .. o.y + o.h : c % Step = 0}
           point == [c \in X \X Y |-> Point(c[1], c[2])]
           G == {point[c] : c \in X \X Y}
<1>1. o.x \in Int /\ o.y \in Int /\ o.w \in Int /\ o.h \in Int
  BY DEF Rects
<1>2. IsFiniteSet(X) /\ IsFiniteSet(Y)
  <2>1. IsFiniteSet(o.x .. o.x + o.w) /\ IsFiniteSet(o.y .. o.y + o.h)
    <3>1. o.x + o.w \in Int /\ o.y + o.h \in Int
      BY <1>1
    <3> HIDE DEF o
    <3> QED BY <1>1, <3>1, FS_Interval
  <2>2. X \in SUBSET (o.x .. o.x + o.w) /\ Y \in SUBSET (o.y .. o.y + o.h)
    OBVIOUS
  <2> HIDE DEF X, Y, o
  <2> QED BY <2>1, <2>2, FS_Subset
<1>3. GridPoints(b) = G
  <2>1. \A x \in X, y \in Y : <<x, y>> \in X \X Y /\ point[<<x, y>>] = Point(x, y)
    OBVIOUS
  <2>2. GridPoints(b) = {Point(x, y) : x \in X, y \in Y}
    BY DEF GridPoints
  <2>3. \A c \in X \X Y : c[1] \in X /\ c[2] \in Y /\ point[c] = Point(c[1], c[2])
    OBVIOUS
  <2> HIDE DEF X, Y, point
  <2>4. ASSUME NEW x \in X, NEW y \in Y PROVE Point(x, y) \in G
    <3>1. point[<<x, y>>] = Point(x, y) /\ <<x, y>> \in X \X Y
      BY <2>1
    <3> QED BY <3>1
  <2>5. \A p \in G : p \in {Point(x, y) : x \in X, y \in Y}
    BY <2>3
  <2>6. G \subseteq GridPoints(b)
    BY <2>2, <2>5
  <2> HIDE DEF G
  <2>7. GridPoints(b) \subseteq G
    BY <2>2, <2>4
  <2> QED BY <2>6, <2>7
<1>4. IsFiniteSet(G)
  <2>1. IsFiniteSet(X \X Y)
    <3> HIDE DEF X, Y
    <3> QED BY <1>2, FS_Product
  <2>2. DOMAIN point = X \X Y
    OBVIOUS
  <2> HIDE DEF point, X, Y
  <2> QED BY <2>1, <2>2, FinitelyMany
<1>5. ASSUME NEW p \in GridPoints(b) PROVE p \in Points /\ RectContains(o, p)
  <2>1. PICK x \in X : \E y \in Y : p = Point(x, y)
    BY DEF GridPoints
  <2>2. PICK y \in Y : p = Point(x, y)
    BY <2>1
  <2>3. x \in Int /\ o.x <= x /\ x <= o.x + o.w /\ y \in Int /\ o.y <= y /\ y <= o.y + o.h
    BY <1>1
  <2> HIDE DEF o, X, Y
  <2> QED BY <2>2, <2>3 DEF Point, Points, RectContains
<1>6. ASSUME NEW p \in Points, OnGrid(p), RectContains(o, p) PROVE p \in GridPoints(b)
  <2>1. p.x \in Int /\ p.y \in Int /\ p = Point(p.x, p.y)
    BY DEF Points, Point
  <2>2. p.x \in X /\ p.y \in Y
    BY <2>1, <1>1, <1>6 DEF OnGrid, RectContains
  <2>3. GridPoints(b) = {Point(x, y) : x \in X, y \in Y}
    BY DEF GridPoints
  <2> HIDE DEF X, Y
  <2> QED BY <2>1, <2>2, <2>3
<1> HIDE DEF G
<1> QED BY <1>3, <1>4, <1>5, <1>6

\* A move leads from a place to another, on its layer or through the board.
LEMMA MovesAre ==
  ASSUME NEW b, NEW n, NEW own, NEW cong, NEW m \in Moves(b, n, own, cong)
  PROVE  IsMove(b, m)
<1> DEFINE free == {s \in GridPoints(b) \X b.layers :
                      ~Blocked(b, n, s[1], s[2], own, Width[b.class[n]] \div 2)}
           near(p) == {Point(p.x + dx, p.y + dy) : dx \in {-Step, 0, Step}, dy \in {-Step, 0, Step}} \ {p}
           along == {t \in UNION {{<<p, s>> : p \in near(s[1]) \cap GridPoints(b)} : s \in free} :
                       ~EdgeBlocked(b, n, t[1], t[2][1], t[2][2], own)}
           bored == {p \in GridPoints(b) :
                       \A l \in b.layers : ~Blocked(b, n, p, l, own, ViaSize[b.class[n]] \div 2)}
           A == {[from |-> <<t[1], t[2][2]>>, to |-> t[2], via |-> 0,
                  cost |-> (IF t[1].x # t[2][1].x /\ t[1].y # t[2][1].y THEN 1414 ELSE 1000)
                             + Penalty(b, t[2][1], t[2][2], cong)] : t \in along}
           V == {[from |-> <<p, q[1]>>, to |-> <<p, q[2]>>, via |-> 1, cost |-> 25000] :
                   p \in bored, q \in {q \in b.layers \X b.layers : q[1] # q[2]}}
<1>1. m \in A \cup V
  BY DEF Moves
<1>2. ASSUME NEW t \in along
      PROVE  \E s \in free : \E p \in near(s[1]) \cap GridPoints(b) : t = <<p, s>>
  OBVIOUS
<1>3. \A s \in free : s \in GridPoints(b) \X b.layers
  OBVIOUS
<1>4. \A q : \A p \in near(q) : p # q
  OBVIOUS
<1>5. \A p \in bored : p \in GridPoints(b)
  OBVIOUS
<1>6. CASE m \in A
  <2> HIDE DEF near, free, bored
  <2>1. PICK t \in along : /\ m.from = <<t[1], t[2][2]>> /\ m.to = t[2] /\ m.via = 0
    BY <1>6
  <2> HIDE DEF along
  <2>2. PICK s \in free : \E p \in near(s[1]) \cap GridPoints(b) : t = <<p, s>>
    BY <1>2
  <2>3. PICK p \in near(s[1]) \cap GridPoints(b) : t = <<p, s>>
    BY <2>2
  <2>4. s \in GridPoints(b) \X b.layers /\ p \in GridPoints(b) /\ p # s[1]
    BY <1>3, <1>4
  <2>5. m.from = <<p, s[2]>> /\ m.to = s /\ m.via = 0
    BY <2>1, <2>3
  <2> QED BY <2>4, <2>5 DEF IsMove, IsStep, Places
<1>7. CASE m \in V
  <2> HIDE DEF near, free, along, bored
  <2>1. PICK p \in bored : \E q \in {q \in b.layers \X b.layers : q[1] # q[2]} :
           m.from = <<p, q[1]>> /\ m.to = <<p, q[2]>> /\ m.via = 1
    BY <1>7
  <2>2. PICK q \in b.layers \X b.layers : q[1] # q[2] /\ m.from = <<p, q[1]>>
                                            /\ m.to = <<p, q[2]>> /\ m.via = 1
    BY <2>1
  <2>3. p \in GridPoints(b)
    BY <1>5
  <2> QED BY <2>2, <2>3 DEF IsMove, IsStep, Places
<1> HIDE DEF A, V
<1> QED BY <1>1, <1>6, <1>7

RoundAfter(moves, vias, last) ==
  LET fresh == Cheaper(last.cost, Reached(moves, last.fresh, vias))
  IN  IF last.fresh = <<>> THEN last ELSE [cost |-> Over(last.cost, fresh), fresh |-> fresh]

IsRounds(moves, begin, vias, round, N) ==
  round = [n \in 0 .. N |-> IF n = 0 THEN [cost |-> begin, fresh |-> begin]
                            ELSE RoundAfter(moves, vias, round[n - 1])]

\* The search may make any number of rounds.
LEMMA RoundsExist ==
  ASSUME NEW moves, NEW begin, NEW vias, NEW N \in Nat
  PROVE  \E round : IsRounds(moves, begin, vias, round, N)
<1> DEFINE G == {n \in Nat : \E round : IsRounds(moves, begin, vias, round, n)}
           First == [cost |-> begin, fresh |-> begin]
<1>1. 0 \in G
  <2> DEFINE round == [m \in 0 .. 0 |-> First]
  <2>1. \A m \in 0 .. 0 : m = 0
    OBVIOUS
  <2>2. IsRounds(moves, begin, vias, round, 0)
    BY <2>1 DEF IsRounds
  <2> QED BY <2>2
<1>2. ASSUME NEW n \in 0 .. N - 1, n \in G
      PROVE  n + 1 \in G
  <2>1. PICK old : IsRounds(moves, begin, vias, old, n)
    BY <1>2
  <2> DEFINE round == [m \in 0 .. n + 1 |-> IF m = n + 1 THEN RoundAfter(moves, vias, old[n]) ELSE old[m]]
  <2>2. \A m \in 0 .. n : round[m] = old[m]
    OBVIOUS
  <2>3. \A m \in 0 .. n + 1 : round[m] = IF m = 0 THEN First ELSE RoundAfter(moves, vias, round[m - 1])
    <3> TAKE m \in 0 .. n + 1
    <3>1. CASE m = n + 1
      <4>1. m # 0 /\ m - 1 = n /\ n \in 0 .. n
        BY <3>1
      <4>2. round[m] = RoundAfter(moves, vias, old[n]) /\ round[m - 1] = old[n]
        BY <4>1, <3>1, <2>2
      <4> QED BY <4>1, <4>2
    <3>2. CASE m # n + 1
      <4>1. m \in 0 .. n /\ round[m] = old[m] /\ (m # 0 => round[m - 1] = old[m - 1])
        BY <3>2, <2>2
      <4>2. old[m] = IF m = 0 THEN First ELSE RoundAfter(moves, vias, old[m - 1])
        BY <4>1, <2>1 DEF IsRounds
      <4> HIDE DEF round
      <4> QED BY <4>1, <4>2
    <3> QED BY <3>1, <3>2
  <2>4. round = [m \in 0 .. n + 1 |-> round[m]]
    OBVIOUS
  <2> HIDE DEF round
  <2>5. IsRounds(moves, begin, vias, round, n + 1)
    BY <2>3, <2>4 DEF IsRounds
  <2> QED BY <2>5
<1> HIDE DEF G
<1>3. 0 .. N \subseteq G
  BY <1>1, <1>2, FromOn
<1> QED BY <1>3 DEF G

\* What the search has a cost for are places of the board, with a number of vias it may bore.
LEMMA LeastCostsAre ==
  ASSUME NEW b, b.outline \in Rects, IsFiniteSet(b.layers),
         NEW moves, \A m \in moves : IsMove(b, m),
         NEW begin, DOMAIN begin \subseteq Places(b) \X (0 .. MaxNetVias),
         NEW vias \in Int, vias <= MaxNetVias
  PROVE  /\ DOMAIN LeastCosts(b, moves, begin, vias) \subseteq Places(b) \X (0 .. MaxNetVias)
         /\ IsFiniteSet(DOMAIN LeastCosts(b, moves, begin, vias))
<1> DEFINE most == Cardinality(GridPoints(b)) * Cardinality(b.layers) * (MaxNetVias + 1)
           round == CHOOSE round : IsRounds(moves, begin, vias, round, most)
           States == Places(b) \X (0 .. MaxNetVias)
           G == {n \in Nat : DOMAIN round[n].cost \subseteq States /\ DOMAIN round[n].fresh \subseteq States}
<1>1. IsFiniteSet(GridPoints(b)) /\ MaxNetVias \in Nat
  BY GridIs, StepAssumption
<1>2. most \in Nat
  <2>1. Cardinality(GridPoints(b)) \in Nat /\ Cardinality(b.layers) \in Nat
    BY <1>1, FS_CardinalityType
  <2>2. \A x, y, z \in Nat : x * y * (z + 1) \in Nat
    OBVIOUS
  <2> QED BY <2>1, <2>2, <1>1
<1>3. IsFiniteSet(States)
  <2>1. IsFiniteSet(Places(b))
    BY <1>1, FS_Product DEF Places
  <2>2. IsFiniteSet(0 .. MaxNetVias)
    BY <1>1, FS_Interval
  <2> QED BY <2>1, <2>2, FS_Product
<1>4. LeastCosts(b, moves, begin, vias) = round[most].cost
  BY DEF LeastCosts, IsRounds, RoundAfter
<1> HIDE DEF most
<1>5. IsRounds(moves, begin, vias, round, most)
  BY <1>2, RoundsExist
<1> HIDE DEF round
<1>6. \A n \in 0 .. most : round[n] = IF n = 0 THEN [cost |-> begin, fresh |-> begin]
                                      ELSE RoundAfter(moves, vias, round[n - 1])
  BY <1>5 DEF IsRounds
<1>7. 0 \in G
  <2>1. round[0] = [cost |-> begin, fresh |-> begin]
    BY <1>6, <1>2
  <2> QED BY <2>1
<1>8. ASSUME NEW n \in 0 .. most - 1, n \in G PROVE n + 1 \in G
  <2> DEFINE last == round[n]
             reached == Reached(moves, last.fresh, vias)
             fresh == Cheaper(last.cost, reached)
  <2>1. round[n + 1] = RoundAfter(moves, vias, last)
    <3>1. n + 1 \in 0 .. most /\ n + 1 # 0 /\ (n + 1) - 1 = n
      BY <1>2
    <3> QED BY <3>1, <1>6
  <2>2. DOMAIN last.cost \subseteq States /\ DOMAIN last.fresh \subseteq States
    BY <1>8
  <2>3. ASSUME NEW r \in reached PROVE r[1] \in States
    <3>1. PICK t \in moves \X DOMAIN last.fresh :
              /\ t[2][2] + t[1].via <= vias
              /\ r = <<<<t[1].to, t[2][2] + t[1].via>>, last.fresh[t[2]] + t[1].cost>>
      BY <2>3 DEF Reached
    <3> DEFINE m == t[1]
               v == t[2][2]
    <3>2. m.to \in Places(b) /\ m.via \in {0, 1}
      BY DEF IsMove
    <3>3. v \in 0 .. MaxNetVias
      BY <2>2
    <3>4. r[1] = <<m.to, v + m.via>> /\ v + m.via <= vias
      BY <3>1
    <3> HIDE DEF m, v
    <3>5. v + m.via \in 0 .. MaxNetVias
      BY <3>2, <3>3, <3>4, <1>1
    <3> QED BY <3>2, <3>4, <3>5
  <2>4. \A s \in DOMAIN fresh : \E r \in reached : r[1] = s
    <3> HIDE DEF reached
    <3> QED BY DEF Cheaper
  <2>5. DOMAIN fresh \subseteq States
    <3> HIDE DEF fresh, reached, States
    <3> QED BY <2>3, <2>4
  <2>6. CASE last.fresh = <<>>
    <3>1. round[n + 1] = last
      BY <2>1, <2>6 DEF RoundAfter
    <3> QED BY <3>1, <2>2
  <2>7. CASE last.fresh # <<>>
    <3>1. round[n + 1] = [cost |-> Over(last.cost, fresh), fresh |-> fresh]
      BY <2>1, <2>7 DEF RoundAfter
    <3> HIDE DEF fresh, last
    <3>2. round[n + 1].cost = Over(last.cost, fresh) /\ round[n + 1].fresh = fresh
      BY <3>1
    <3>3. DOMAIN Over(last.cost, fresh) = DOMAIN fresh \cup DOMAIN last.cost
      BY DEF Over
    <3> QED BY <3>2, <3>3, <2>2, <2>5
  <2> QED BY <2>6, <2>7
<1> HIDE DEF G
<1>9. 0 .. most \subseteq G
  BY <1>2, <1>7, <1>8, FromOn
<1>10. most \in G
  BY <1>2, <1>9
<1>11. DOMAIN LeastCosts(b, moves, begin, vias) \in SUBSET States
  BY <1>4, <1>10 DEF G
<1> HIDE DEF States
<1> QED BY <1>3, <1>11, FS_Subset DEF States

Before(m, s) == <<m.from, s[2] - m.via>>
Into(moves, cost, s) == {m \in moves : /\ m.to = s[1] /\ Before(m, s) \in DOMAIN cost
                                       /\ cost[Before(m, s)] + m.cost = cost[s]}

WaysAfter(moves, begin, cost, n, old) ==
  [s \in DOMAIN cost |->
     IF s \in DOMAIN begin THEN {<<s[1]>>}
     ELSE IF n = 0 THEN {}
     ELSE UNION {{Append(w, s[1]) : w \in old[Before(m, s)]} : m \in Into(moves, cost, s)}]

IsWays(moves, begin, cost, ways, N) ==
  ways = [n \in 0 .. N |-> WaysAfter(moves, begin, cost, n, ways[n - 1])]

\* There are ways, if none at all, of any number of moves.
LEMMA WaysExist ==
  ASSUME NEW moves, NEW begin, NEW cost, NEW N \in Nat
  PROVE  \E ways : IsWays(moves, begin, cost, ways, N)
<1> DEFINE After(n, old) == WaysAfter(moves, begin, cost, n, old)
           G == {n \in Nat : \E ways : IsWays(moves, begin, cost, ways, n)}
<1>0. \A x, y : After(0, x) = After(0, y)
  BY DEF WaysAfter
<1>1. 0 \in G
  <2> DEFINE ways == [m \in 0 .. 0 |-> After(0, {})]
  <2>1. \A m \in 0 .. 0 : m = 0
    OBVIOUS
  <2>2. \A m \in 0 .. 0 : After(0, {}) = After(m, ways[m - 1])
    BY <2>1, <1>0
  <2>3. ways = [m \in 0 .. 0 |-> After(m, ways[m - 1])]
    BY <2>2
  <2> HIDE DEF ways
  <2>4. IsWays(moves, begin, cost, ways, 0)
    BY <2>3 DEF IsWays
  <2> QED BY <2>4
<1>2. ASSUME NEW n \in 0 .. N - 1, n \in G
      PROVE  n + 1 \in G
  <2>1. PICK old : IsWays(moves, begin, cost, old, n)
    BY <1>2
  <2> DEFINE ways == [m \in 0 .. n + 1 |-> IF m = n + 1 THEN After(n + 1, old[n]) ELSE old[m]]
  <2>2. \A m \in 0 .. n : ways[m] = old[m]
    OBVIOUS
  <2>3. \A m \in 0 .. n + 1 : ways[m] = After(m, ways[m - 1])
    <3> TAKE m \in 0 .. n + 1
    <3>1. CASE m = n + 1
      <4>1. m - 1 = n /\ n \in 0 .. n
        BY <3>1
      <4>2. ways[m] = After(n + 1, old[n]) /\ ways[m - 1] = old[n]
        BY <4>1, <3>1, <2>2
      <4> HIDE DEF ways, After
      <4> QED BY <4>2, <3>1
    <3>2. CASE m # n + 1
      <4>1. m \in 0 .. n /\ ways[m] = old[m] /\ (m # 0 => ways[m - 1] = old[m - 1])
        BY <3>2, <2>2
      <4>2. old[m] = After(m, old[m - 1])
        BY <4>1, <2>1 DEF IsWays
      <4> HIDE DEF ways, After
      <4>3. After(m, ways[m - 1]) = After(m, old[m - 1])
        BY <4>1, <1>0
      <4> QED BY <4>1, <4>2, <4>3
    <3> QED BY <3>1, <3>2
  <2>4. ways = [m \in 0 .. n + 1 |-> ways[m]]
    OBVIOUS
  <2> HIDE DEF ways
  <2>5. IsWays(moves, begin, cost, ways, n + 1)
    BY <2>3, <2>4 DEF IsWays
  <2> QED BY <2>5
<1> HIDE DEF G
<1>3. 0 .. N \subseteq G
  BY <1>1, <1>2, FromOn
<1> QED BY <1>3 DEF G

\* A way that goes on with a move is a way to where the move leads.
LEMMA WayGoesOn ==
  ASSUME NEW b, NEW from, NEW m, IsMove(b, m), NEW w, IsWayTo(b, from, m.from, w)
  PROVE  IsWayTo(b, from, m.to, Append(w, m.to))
<1> DEFINE n == Len(w)
           u == Append(w, m.to)
<1>1. /\ w \in Seq(Places(b)) /\ n \in Nat \ {0} /\ w[1] \in from /\ w[n] = m.from
      /\ \A i \in 1 .. n - 1 : IsStep(w[i], w[i + 1])
  BY DEF IsWayTo
<1>2. m.to \in Places(b) /\ IsStep(m.from, m.to)
  BY DEF IsMove
<1>3. u \in Seq(Places(b)) /\ Len(u) = n + 1 /\ u[n + 1] = m.to /\ \A i \in 1 .. n : u[i] = w[i]
  BY <1>1, <1>2, AppendProperties
<1> HIDE DEF u, n
<1>4. ASSUME NEW i \in 1 .. n PROVE IsStep(u[i], u[i + 1])
  <2>1. CASE i = n
    <3>1. u[i] = m.from /\ u[i + 1] = m.to
      BY <2>1, <1>1, <1>3
    <3> QED BY <3>1, <1>2
  <2>2. CASE i # n
    <3>1. i \in 1 .. n - 1 /\ i \in 1 .. n /\ i + 1 \in 1 .. n
      BY <2>2, <1>1
    <3>2. u[i] = w[i] /\ u[i + 1] = w[i + 1]
      BY <3>1, <1>3
    <3> QED BY <3>1, <3>2, <1>1
  <2> QED BY <2>1, <2>2
<1>5. 1 \in 1 .. n /\ (n + 1) - 1 = n /\ n + 1 \in Nat \ {0}
  BY <1>1
<1>6. IsWayTo(b, from, m.to, u)
  <2>1. u[1] = w[1]
    BY <1>3, <1>5
  <2> QED BY <1>1, <1>3, <1>4, <1>5, <2>1 DEF IsWayTo
<1> QED BY <1>6 DEF u

\* What the search returns is a way from one of the places it begins at to one of the goals.
LEMMA CheapestAre ==
  ASSUME NEW b, NEW moves, \A m \in moves : IsMove(b, m),
         NEW from, NEW begin, \A s \in DOMAIN begin : s[1] \in from /\ s[1] \in Places(b),
         NEW cost, IsFiniteSet(DOMAIN cost),
         NEW goals, goals \subseteq DOMAIN cost, NEW w \in Cheapest(moves, begin, cost, goals)
  PROVE  \E g \in goals : IsWayTo(b, from, g[1], w)
<1> DEFINE N == Cardinality(DOMAIN cost)
           ways == CHOOSE ways : IsWays(moves, begin, cost, ways, N)
           G == {n \in Nat : \A s \in DOMAIN cost : \A u \in ways[n][s] : IsWayTo(b, from, s[1], u)}
<1>1. N \in Nat
  BY FS_CardinalityType
<1>2. IsWays(moves, begin, cost, ways, N)
  <2> HIDE DEF N
  <2> QED BY <1>1, WaysExist
<1>3. Cheapest(moves, begin, cost, goals) =
        UNION {ways[N][g] : g \in {g \in goals : \A o \in goals : cost[g] <= cost[o]}}
  BY DEF Cheapest, IsWays, WaysAfter, Into, Before
<1> HIDE DEF ways, N
<1>4. \A n \in 0 .. N : ways[n] = WaysAfter(moves, begin, cost, n, ways[n - 1])
  BY <1>2 DEF IsWays
<1>5. ASSUME NEW n \in 0 .. N, NEW s \in DOMAIN cost, NEW u \in ways[n][s],
             n # 0 => n - 1 \in G
      PROVE  IsWayTo(b, from, s[1], u)
  <2> DEFINE on == UNION {{Append(v, s[1]) : v \in ways[n - 1][Before(m, s)]} : m \in Into(moves, cost, s)}
  <2>1. ways[n][s] = IF s \in DOMAIN begin THEN {<<s[1]>>} ELSE IF n = 0 THEN {} ELSE on
    BY <1>4 DEF WaysAfter
  <2>2. CASE s \in DOMAIN begin
    <3>1. u = <<s[1]>> /\ s[1] \in from /\ s[1] \in Places(b)
      BY <2>1, <2>2
    <3>2. u \in Seq(Places(b)) /\ Len(u) = 1 /\ u[1] = s[1] /\ 1 .. 1 - 1 = {}
      BY <3>1
    <3> QED BY <3>1, <3>2 DEF IsWayTo
  <2>3. CASE s \notin DOMAIN begin
    <3>1. n # 0 /\ u \in on
      BY <2>1, <2>3
    <3>2. PICK m \in Into(moves, cost, s) : u \in {Append(v, s[1]) : v \in ways[n - 1][Before(m, s)]}
      BY <3>1
    <3>3. PICK v \in ways[n - 1][Before(m, s)] : u = Append(v, s[1])
      BY <3>2
    <3>4. m \in moves /\ m.to = s[1] /\ Before(m, s) \in DOMAIN cost /\ Before(m, s)[1] = m.from
      BY DEF Into, Before
    <3>5. IsWayTo(b, from, m.from, v)
      BY <3>1, <3>3, <3>4, <1>5
    <3> QED BY <3>3, <3>4, <3>5, WayGoesOn
  <2> QED BY <2>2, <2>3
<1>6. 0 \in G
  BY <1>5, <1>1
<1>7. ASSUME NEW n \in 0 .. N - 1, n \in G PROVE n + 1 \in G
  <2>1. n + 1 \in 0 .. N /\ (n + 1) - 1 = n
    BY <1>1
  <2>2. \A s \in DOMAIN cost : \A u \in ways[n + 1][s] : IsWayTo(b, from, s[1], u)
    BY <2>1, <1>5, <1>7
  <2> QED BY <2>2, <2>1, <1>1
<1> HIDE DEF G
<1>8. 0 .. N \subseteq G
  BY <1>1, <1>6, <1>7, FromOn
<1>9. N \in G
  BY <1>1, <1>8
<1>10. PICK g \in goals : w \in ways[N][g]
  BY <1>3
<1> QED BY <1>9, <1>10 DEF G

\* From one pad to another, with the vias that are left, the search finds ways from pad to pad.
LEMMA CheapestWaysAre ==
  ASSUME NEW b, b.outline \in Rects, IsFiniteSet(b.layers), NEW n, NEW cong,
         NEW start, start.pos \in GridPoints(b), start.layers \subseteq b.layers, NEW target,
         NEW vias \in Int, vias <= MaxNetVias, NEW w \in CheapestWays(b, n, start, target, cong, vias)
  PROVE  IsWay(b, start, target, w)
<1> DEFINE begin == [s \in {<<<<start.pos, l>>, 0>> : l \in start.layers} |-> 0]
           goals(cost) == {g \in DOMAIN cost : g[1][1] = target.pos /\ g[1][2] \in target.layers}
           moves == Moves(b, n, {start.fp, target.fp}, cong)
           cost == LeastCosts(b, moves, begin, vias)
<1>1. w \in Cheapest(moves, begin, cost, goals(cost))
  BY DEF CheapestWays
<1>2. \A m \in moves : IsMove(b, m)
  BY MovesAre
<1>3. ASSUME NEW s \in DOMAIN begin
      PROVE  s[1] \in PlacesOf(start) /\ s[1] \in Places(b) /\ s \in Places(b) \X (0 .. MaxNetVias)
  <2>1. PICK l \in start.layers : s = <<<<start.pos, l>>, 0>>
    OBVIOUS
  <2>2. 0 \in 0 .. MaxNetVias
    BY StepAssumption
  <2> QED BY <2>1, <2>2 DEF PlacesOf, Places
<1> HIDE DEF begin, moves
<1>4. DOMAIN begin \subseteq Places(b) \X (0 .. MaxNetVias)
  BY <1>3
<1>5. DOMAIN cost \subseteq Places(b) \X (0 .. MaxNetVias) /\ IsFiniteSet(DOMAIN cost)
  BY <1>2, <1>4, LeastCostsAre
<1> HIDE DEF cost
<1>6. goals(cost) \subseteq DOMAIN cost
  OBVIOUS
<1>7. ASSUME NEW g \in goals(cost) PROVE g[1] \in PlacesOf(target)
  <2>1. g[1] \in GridPoints(b) \X b.layers
    BY <1>5 DEF Places
  <2>2. g[1] = <<g[1][1], g[1][2]>>
    BY <2>1
  <2>3. g[1][1] = target.pos /\ g[1][2] \in target.layers
    OBVIOUS
  <2> HIDE DEF goals
  <2>4. <<g[1][1], g[1][2]>> \in {target.pos} \X target.layers
    BY <2>3
  <2> QED BY <2>2, <2>4 DEF PlacesOf
<1>8. \E g \in goals(cost) : IsWayTo(b, PlacesOf(start), g[1], w)
  <2> HIDE DEF goals
  <2> QED BY <1>1, <1>2, <1>3, <1>5, <1>6, CheapestAre
<1> HIDE DEF goals
<1> QED BY <1>7, <1>8 DEF IsWay

\* The pads of a net in the order of their ids are its pads, each of them.
LEMMA PadsInOrderAre ==
  ASSUME NEW b, NEW n, \A p, q \in b.pads : p.id = q.id => p = q,
         {p.id : p \in b.pads} \subseteq Range(PadOrder), OfNet(b.pads, n) # {}
  PROVE  /\ PadsInOrder(b, n) \in Seq(OfNet(b.pads, n))
         /\ Len(PadsInOrder(b, n)) \in Nat \ {0}
         /\ Range(PadsInOrder(b, n)) = OfNet(b.pads, n)
<1> DEFINE P == OfNet(b.pads, n)
           S == {i \in DOMAIN PadOrder : \E p \in P : p.id = PadOrder[i]}
           order == Ascending(S)
           pad == [k \in DOMAIN order |-> CHOOSE p \in b.pads : p.id = PadOrder[order[k]]]
<1>1. pad = PadsInOrder(b, n)
  BY DEF PadsInOrder
<1>2. Len(PadOrder) \in Nat /\ DOMAIN PadOrder = 1 .. Len(PadOrder)
  BY OrderAssumption, LenProperties
<1>3. S \subseteq Int /\ IsFiniteSet(S)
  <2>1. S \in SUBSET (1 .. Len(PadOrder))
    BY <1>2
  <2>2. IsFiniteSet(1 .. Len(PadOrder)) /\ 1 .. Len(PadOrder) \subseteq Int
    BY <1>2, FS_Interval
  <2> HIDE DEF S
  <2> QED BY <2>1, <2>2, FS_Subset
<1>4. P \subseteq b.pads
  BY DEF OfNet
<1>5. ASSUME NEW p \in P PROVE \E i \in S : PadOrder[i] = p.id
  <2>1. p.id \in Range(PadOrder)
    BY <1>4
  <2>2. PICK i \in DOMAIN PadOrder : PadOrder[i] = p.id
    BY <2>1 DEF Range
  <2> QED BY <2>2
<1>6. S # {}
  BY <1>5
<1>7. \A i \in S : \E p \in P : p.id = PadOrder[i]
  OBVIOUS
<1> HIDE DEF S
<1>8. /\ Cardinality(S) \in Nat /\ DOMAIN order = 1 .. Cardinality(S)
      /\ \A k \in 1 .. Cardinality(S) : order[k] \in S
      /\ \A i \in S : \E k \in 1 .. Cardinality(S) : order[k] = i
  BY <1>3, AscendingIs
<1>9. Cardinality(S) # 0
  BY <1>3, <1>6, FS_EmptySet
<1> HIDE DEF order, P
<1>10. ASSUME NEW k \in DOMAIN order, NEW p \in P, p.id = PadOrder[order[k]]
       PROVE  pad[k] = p
  <2>1. p \in b.pads
    BY <1>4
  <2>2. \E q \in b.pads : q.id = PadOrder[order[k]]
    BY <2>1, <1>10
  <2>3. pad[k] \in b.pads /\ pad[k].id = PadOrder[order[k]]
    BY <2>2
  <2> QED BY <2>1, <2>3, <1>10
<1>11. ASSUME NEW k \in DOMAIN order PROVE pad[k] \in P
  <2>1. PICK p \in P : p.id = PadOrder[order[k]]
    BY <1>7, <1>8
  <2> QED BY <2>1, <1>10
<1>12. ASSUME NEW p \in P PROVE \E k \in DOMAIN order : pad[k] = p
  <2>1. PICK i \in S : PadOrder[i] = p.id
    BY <1>5
  <2>2. PICK k \in DOMAIN order : order[k] = i
    BY <1>8
  <2> QED BY <2>1, <2>2, <1>10
<1>13. pad \in Seq(P) /\ Len(pad) \in Nat \ {0}
  <2>1. pad \in [1 .. Cardinality(S) -> P]
    BY <1>8, <1>11
  <2> HIDE DEF pad
  <2>2. pad \in Seq(P)
    BY <2>1, <1>8, SeqDef
  <2>3. Len(pad) = Cardinality(S)
    BY <2>1, <2>2, <1>8, LenProperties
  <2> QED BY <2>2, <2>3, <1>8, <1>9
<1>14. Range(pad) = P
  <2>1. DOMAIN pad = DOMAIN order
    OBVIOUS
  <2> HIDE DEF pad
  <2> QED BY <2>1, <1>11, <1>12 DEF Range
<1> HIDE DEF pad
<1> QED BY <1>1, <1>13, <1>14 DEF P

-----------------------------------------------------------------------------
(* The ways of a net join its pads one after the other. *)

WaysJoin(b, pads, ways) ==
  /\ ways \in Seq(Seq(Places(b))) /\ Len(ways) = Len(pads) - 1
  /\ \A i \in 1 .. Len(ways) : IsWay(b, pads[i], pads[i + 1], ways[i])

Extended(b, n, cong, pads, t, i) ==
  LET next == CheapestWays(b, n, pads[i], pads[i + 1], cong, t.left)
  IN  IF next = {} THEN {[t EXCEPT !.ways = NoWay]}
      ELSE {[ways |-> Append(t.ways, w), left |-> t.left - ViasOf(w)] : w \in next}

JoinedAfter(b, n, cong, pads, i, old) ==
  UNION {IF i > 1 /\ t.ways = NoWay THEN {t} ELSE Extended(b, n, cong, pads, t, i) : t \in old}

JoinedFirst == {[ways |-> NoWay, left |-> MaxNetVias]}

IsJoining(b, n, cong, pads, joined, N) ==
  joined = [i \in 0 .. N |-> IF i = 0 THEN JoinedFirst ELSE JoinedAfter(b, n, cong, pads, i, joined[i - 1])]

\* There are ways through any number of pads, if none at all.
LEMMA JoiningExists ==
  ASSUME NEW b, NEW n, NEW cong, NEW pads, NEW N \in Nat
  PROVE  \E joined : IsJoining(b, n, cong, pads, joined, N)
<1> DEFINE After(i, old) == JoinedAfter(b, n, cong, pads, i, old)
           G == {k \in Nat : \E joined : IsJoining(b, n, cong, pads, joined, k)}
<1>1. 0 \in G
  <2> DEFINE joined == [m \in 0 .. 0 |-> JoinedFirst]
  <2>1. \A m \in 0 .. 0 : m = 0
    OBVIOUS
  <2>2. IsJoining(b, n, cong, pads, joined, 0)
    BY <2>1 DEF IsJoining
  <2> QED BY <2>2
<1>2. ASSUME NEW k \in 0 .. N - 1, k \in G
      PROVE  k + 1 \in G
  <2>1. PICK old : IsJoining(b, n, cong, pads, old, k)
    BY <1>2
  <2> DEFINE joined == [m \in 0 .. k + 1 |-> IF m = k + 1 THEN After(k + 1, old[k]) ELSE old[m]]
  <2>2. \A m \in 0 .. k : joined[m] = old[m]
    OBVIOUS
  <2>3. \A m \in 0 .. k + 1 : joined[m] = IF m = 0 THEN JoinedFirst ELSE After(m, joined[m - 1])
    <3> TAKE m \in 0 .. k + 1
    <3>1. CASE m = k + 1
      <4>1. m # 0 /\ m - 1 = k /\ k \in 0 .. k
        BY <3>1
      <4>2. joined[m] = After(k + 1, old[k]) /\ joined[m - 1] = old[k]
        BY <4>1, <3>1, <2>2
      <4> HIDE DEF joined, After
      <4> QED BY <4>1, <4>2, <3>1
    <3>2. CASE m # k + 1
      <4>1. m \in 0 .. k /\ joined[m] = old[m] /\ (m # 0 => joined[m - 1] = old[m - 1])
        BY <3>2, <2>2
      <4>2. old[m] = IF m = 0 THEN JoinedFirst ELSE After(m, old[m - 1])
        BY <4>1, <2>1 DEF IsJoining
      <4> HIDE DEF joined, After
      <4> QED BY <4>1, <4>2
    <3> QED BY <3>1, <3>2
  <2>4. joined = [m \in 0 .. k + 1 |-> joined[m]]
    OBVIOUS
  <2> HIDE DEF joined
  <2>5. IsJoining(b, n, cong, pads, joined, k + 1)
    BY <2>3, <2>4 DEF IsJoining
  <2> QED BY <2>5
<1> HIDE DEF G
<1>3. 0 .. N \subseteq G
  BY <1>1, <1>2, FromOn
<1> QED BY <1>3 DEF G

\* The vias of a way are a number.
LEMMA ViasAreCounted ==
  ASSUME NEW w, Len(w) \in Nat
  PROVE  ViasOf(w) \in Nat
<1> DEFINE at == {i \in 1 .. Len(w) - 1 : w[i][2] # w[i + 1][2]}
<1>1. at \in SUBSET (1 .. Len(w) - 1) /\ IsFiniteSet(1 .. Len(w) - 1)
  <2>1. Len(w) - 1 \in Int /\ 1 \in Int
    OBVIOUS
  <2>2. IsFiniteSet(1 .. Len(w) - 1)
    BY <2>1, FS_Interval
  <2> QED BY <2>2
<1>2. ViasOf(w) = Cardinality(at)
  BY DEF ViasOf
<1> HIDE DEF at
<1>3. IsFiniteSet(at)
  BY <1>1, FS_Subset
<1> QED BY <1>2, <1>3, FS_CardinalityType

\* What is known of the ways after i pads, and of the vias that are left for the rest.
Underway(b, pads, i, t) ==
  /\ t = [ways |-> t.ways, left |-> t.left] /\ t.left \in Int /\ t.left <= MaxNetVias
  /\ t.ways = NoWay \/ /\ t.ways \in Seq(Seq(Places(b))) /\ Len(t.ways) = i
                       /\ \A k \in 1 .. i : IsWay(b, pads[k], pads[k + 1], t.ways[k])

\* One more pad is joined, or the ways are lost.
LEMMA OneMoreIsJoined ==
  ASSUME NEW b, b.outline \in Rects, IsFiniteSet(b.layers), NEW n, NEW cong, NEW pads,
         NEW i \in Nat \ {0}, pads[i].pos \in GridPoints(b), pads[i].layers \subseteq b.layers,
         NEW old, \A t \in old : Underway(b, pads, i - 1, t),
         NEW t \in JoinedAfter(b, n, cong, pads, i, old)
  PROVE  Underway(b, pads, i, t)
<1>1. PICK s \in old : t \in IF i > 1 /\ s.ways = NoWay THEN {s} ELSE Extended(b, n, cong, pads, s, i)
  BY DEF JoinedAfter
<1>2. Underway(b, pads, i - 1, s)
  OBVIOUS
<1>3. CASE i > 1 /\ s.ways = NoWay
  BY <1>1, <1>2, <1>3 DEF Underway
<1>4. CASE ~(i > 1 /\ s.ways = NoWay)
  <2> DEFINE next == CheapestWays(b, n, pads[i], pads[i + 1], cong, s.left)
  <2>1. t \in Extended(b, n, cong, pads, s, i)
    BY <1>1, <1>4
  <2>2. s.left \in Int /\ s.left <= MaxNetVias
    BY <1>2 DEF Underway
  <2>3. CASE next = {}
    <3>1. t = [s EXCEPT !.ways = NoWay]
      BY <2>1, <2>3 DEF Extended
    <3>2. t.ways = NoWay /\ t.left = s.left /\ t = [ways |-> t.ways, left |-> t.left]
      BY <3>1, <1>2 DEF Underway
    <3> QED BY <3>2, <2>2 DEF Underway
  <2>4. CASE next # {}
    <3>1. PICK w \in next : t = [ways |-> Append(s.ways, w), left |-> s.left - ViasOf(w)]
      BY <2>1, <2>4 DEF Extended
    <3>2. IsWay(b, pads[i], pads[i + 1], w)
      BY <2>2, CheapestWaysAre
    <3>3. w \in Seq(Places(b)) /\ Len(w) \in Nat
      BY <3>2 DEF IsWay, IsWayTo
    <3>4. ViasOf(w) \in Nat
      BY <3>3, ViasAreCounted
    <3>5. /\ s.ways \in Seq(Seq(Places(b))) /\ Len(s.ways) = i - 1
          /\ \A k \in 1 .. i - 1 : IsWay(b, pads[k], pads[k + 1], s.ways[k])
      <4>1. CASE s.ways = NoWay
        <5>1. i = 1
          BY <4>1, <1>4
        <5> QED BY <5>1, <4>1 DEF NoWay
      <4> QED BY <4>1, <1>2 DEF Underway
    <3> HIDE DEF next
    <3>6. /\ t.ways = Append(s.ways, w) /\ t.left = s.left - ViasOf(w)
          /\ t = [ways |-> t.ways, left |-> t.left]
      BY <3>1
    <3>7. t.left \in Int /\ t.left <= MaxNetVias
      BY <3>4, <3>6, <2>2, StepAssumption
    <3>8. /\ t.ways \in Seq(Seq(Places(b))) /\ Len(t.ways) = i /\ t.ways[i] = w
          /\ \A k \in 1 .. i - 1 : t.ways[k] = s.ways[k]
      <4>1. /\ Append(s.ways, w) \in Seq(Seq(Places(b))) /\ Len(Append(s.ways, w)) = (i - 1) + 1
            /\ \A k \in 1 .. i - 1 : Append(s.ways, w)[k] = s.ways[k]
            /\ Append(s.ways, w)[(i - 1) + 1] = w
        BY <3>3, <3>5, AppendProperties
      <4>2. (i - 1) + 1 = i
        OBVIOUS
      <4> QED BY <4>1, <4>2, <3>6
    <3>9. ASSUME NEW k \in 1 .. i PROVE IsWay(b, pads[k], pads[k + 1], t.ways[k])
      <4>1. CASE k = i
        BY <4>1, <3>2, <3>8
      <4>2. CASE k # i
        <5>1. k \in 1 .. i - 1
          BY <4>2
        <5> QED BY <5>1, <3>5, <3>8
      <4> QED BY <4>1, <4>2
    <3> QED BY <3>6, <3>7, <3>8, <3>9 DEF Underway
  <2> QED BY <2>3, <2>4
<1> QED BY <1>3, <1>4

\* What the search for a net answers: nothing, or ways that join its pads one after the other.
LEMMA NetWaysAre ==
  ASSUME NEW b, b.outline \in Rects, IsFiniteSet(b.layers), NEW n, NEW cong,
         NEW P, PadsInOrder(b, n) \in Seq(P), Len(PadsInOrder(b, n)) \in Nat \ {0},
         \A p \in P : p.pos \in GridPoints(b) /\ p.layers \subseteq b.layers,
         NEW ways \in NetWays(b, n, cong)
  PROVE  ways = NoWay \/ WaysJoin(b, PadsInOrder(b, n), ways)
<1> DEFINE pads == PadsInOrder(b, n)
           N == Len(pads) - 1
           joined == CHOOSE joined : IsJoining(b, n, cong, pads, joined, N)
           G == {i \in Nat : \A t \in joined[i] : Underway(b, pads, i, t)}
<1>1. N \in Nat /\ Len(pads) = N + 1
  <2> HIDE DEF pads
  <2> QED BY DEF pads
<1>2. ways \in {t.ways : t \in joined[N]}
  BY DEF NetWays, IsJoining, JoinedAfter, JoinedFirst, Extended
<1>3. \A i \in 1 .. N : pads[i].pos \in GridPoints(b) /\ pads[i].layers \subseteq b.layers
  <2>1. pads \in Seq(P)
    OBVIOUS
  <2> HIDE DEF pads, N
  <2>2. \A i \in 1 .. N : i \in 1 .. Len(pads)
    BY <1>1
  <2>3. \A i \in 1 .. N : pads[i] \in P
    BY <2>1, <2>2, ElementOfSeq
  <2> QED BY <2>3
<1> HIDE DEF pads, N
<1>4. IsJoining(b, n, cong, pads, joined, N)
  BY <1>1, JoiningExists
<1> HIDE DEF joined
<1>5. \A i \in 0 .. N : joined[i] = IF i = 0 THEN JoinedFirst
                                    ELSE JoinedAfter(b, n, cong, pads, i, joined[i - 1])
  BY <1>4 DEF IsJoining
<1>6. 0 \in G
  <2>1. joined[0] = JoinedFirst
    BY <1>1, <1>5
  <2>2. \A t \in JoinedFirst : Underway(b, pads, 0, t)
    BY StepAssumption DEF JoinedFirst, Underway
  <2> QED BY <2>1, <2>2
<1>7. ASSUME NEW i \in 0 .. N - 1, i \in G PROVE i + 1 \in G
  <2>1. i + 1 \in 1 .. N /\ i + 1 \in Nat \ {0} /\ i + 1 \in 0 .. N /\ (i + 1) - 1 = i
    BY <1>1
  <2>2. joined[i + 1] = JoinedAfter(b, n, cong, pads, i + 1, joined[i])
    BY <2>1, <1>5
  <2>3. \A t \in joined[i] : Underway(b, pads, (i + 1) - 1, t)
    BY <2>1, <1>7
  <2>4. pads[i + 1].pos \in GridPoints(b) /\ pads[i + 1].layers \subseteq b.layers
    BY <2>1, <1>3
  <2>5. \A t \in joined[i + 1] : Underway(b, pads, i + 1, t)
    BY <2>1, <2>2, <2>3, <2>4, OneMoreIsJoined
  <2> QED BY <2>1, <2>5
<1> HIDE DEF G
<1>8. 0 .. N \subseteq G
  BY <1>1, <1>6, <1>7, FromOn
<1>9. N \in G
  BY <1>1, <1>8
<1>10. PICK t \in joined[N] : ways = t.ways
  BY <1>2
<1>11. Underway(b, pads, N, t)
  BY <1>9, <1>10 DEF G
<1>12. ways = NoWay \/ WaysJoin(b, pads, ways)
  BY <1>1, <1>10, <1>11 DEF Underway, WaysJoin, N
<1> QED BY <1>12 DEF pads

-----------------------------------------------------------------------------
(* The copper of the ways: runs and bores on the board, with new names. *)

\* A run ends at the next turn of the way.
LEMMA RunEndIs ==
  ASSUME NEW w, Len(w) \in Nat, NEW i \in Turns(w) \ {Len(w)}
  PROVE  /\ i \in 1 .. Len(w) - 1 /\ RunEnd(w, i) \in i + 1 .. Len(w) /\ RunEnd(w, i) \in Turns(w)
         /\ \A j \in Turns(w) : i < j => RunEnd(w, i) <= j
<1> DEFINE L == Len(w)
           S == {j \in Turns(w) : j > i}
<1>1. Turns(w) \subseteq 1 .. L /\ i \in 1 .. L /\ i # L
  BY DEF Turns
<1>2. L \in Turns(w)
  <2>1. L \in 1 .. L
    BY <1>1
  <2> QED BY <2>1 DEF Turns
<1> HIDE DEF L
<1>3. L \in Nat
  BY DEF L
<1>4. S # {} /\ S \subseteq Nat
  <2>1. L \in S
    BY <1>1, <1>2, <1>3
  <2> QED BY <2>1, <1>1, <1>3
<1>5. \A j \in S : j \in Turns(w) /\ j > i
  OBVIOUS
<1>6. \A j \in Turns(w) : i < j => j \in S
  BY <1>1, <1>3
<1>7. RunEnd(w, i) = Min(S)
  BY DEF RunEnd
<1> HIDE DEF S
<1>8. Min(S) \in S /\ \A m \in S : Min(S) <= m
  BY <1>4, MinIs
<1>9. RunEnd(w, i) \in i + 1 .. L
  BY <1>1, <1>3, <1>5, <1>7, <1>8
<1>10. i \in 1 .. L - 1
  BY <1>1, <1>3
<1> QED BY <1>5, <1>6, <1>7, <1>8, <1>9, <1>10 DEF L

\* The runs of a way are pairs of its places: where a run starts, and where it ends.
LEMMA RunsAre ==
  ASSUME NEW T, NEW w \in Seq(T)
  PROVE  /\ Runs(w) \in Seq(T \X T)
         /\ Range(Runs(w)) = {<<w[i], w[RunEnd(w, i)]>> : i \in RunStarts(w)}
<1> DEFINE S == RunStarts(w)
           starts == Ascending(S)
           f == [k \in DOMAIN starts |-> <<w[starts[k]], w[RunEnd(w, starts[k])]>>]
<1>1. Len(w) \in Nat /\ DOMAIN w = 1 .. Len(w) /\ \A i \in 1 .. Len(w) : w[i] \in T
  BY LenProperties, ElementOfSeq
<1>2. ASSUME NEW i \in S PROVE i \in 1 .. Len(w) /\ RunEnd(w, i) \in 1 .. Len(w)
  <2>1. i \in Turns(w) \ {Len(w)}
    BY DEF RunStarts
  <2>2. i \in 1 .. Len(w) - 1 /\ RunEnd(w, i) \in i + 1 .. Len(w)
    BY <2>1, <1>1, RunEndIs
  <2> QED BY <2>2, <1>1
<1>3. S \subseteq Int /\ IsFiniteSet(S)
  <2>1. S \in SUBSET (1 .. Len(w))
    BY <1>2
  <2>2. IsFiniteSet(1 .. Len(w)) /\ 1 .. Len(w) \subseteq Int
    BY <1>1, FS_Interval
  <2> HIDE DEF S
  <2> QED BY <2>1, <2>2, FS_Subset
<1>4. Runs(w) = f
  BY DEF Runs
<1> HIDE DEF S
<1>5. /\ Cardinality(S) \in Nat /\ DOMAIN starts = 1 .. Cardinality(S)
      /\ \A k \in 1 .. Cardinality(S) : starts[k] \in S
      /\ \A i \in S : \E k \in 1 .. Cardinality(S) : starts[k] = i
  BY <1>3, AscendingIs
<1> HIDE DEF starts
<1>6. \A k \in DOMAIN starts : f[k] = <<w[starts[k]], w[RunEnd(w, starts[k])]>> /\ f[k] \in T \X T
  BY <1>1, <1>2, <1>5
<1>7. f \in [1 .. Cardinality(S) -> T \X T] /\ DOMAIN f = DOMAIN starts
  BY <1>5, <1>6
<1> HIDE DEF f
<1>8. f \in Seq(T \X T)
  BY <1>5, <1>7, SeqDef
<1>9. Range(f) = {<<w[i], w[RunEnd(w, i)]>> : i \in S}
  <2>1. \A r \in Range(f) : \E i \in S : r = <<w[i], w[RunEnd(w, i)]>>
    BY <1>5, <1>6, <1>7 DEF Range
  <2>2. ASSUME NEW i \in S PROVE <<w[i], w[RunEnd(w, i)]>> \in Range(f)
    <3>1. PICK k \in DOMAIN starts : starts[k] = i
      BY <1>5
    <3> QED BY <3>1, <1>6, <1>7 DEF Range
  <2> QED BY <2>1, <2>2
<1> QED BY <1>4, <1>8, <1>9 DEF S

\* The bores of a way are its places before it changes its layer.
LEMMA BoresAre ==
  ASSUME NEW T, NEW w \in Seq(T)
  PROVE  /\ Bores(w) \in Seq(T)
         /\ Range(Bores(w)) = {w[i] : i \in {i \in 1 .. Len(w) - 1 : w[i][2] # w[i + 1][2]}}
<1> DEFINE S == {i \in 1 .. Len(w) - 1 : w[i][2] # w[i + 1][2]}
           at == Ascending(S)
           f == [k \in DOMAIN at |-> w[at[k]]]
<1>1. Len(w) \in Nat /\ \A i \in 1 .. Len(w) : w[i] \in T
  BY LenProperties, ElementOfSeq
<1>2. \A i \in S : i \in 1 .. Len(w)
  BY <1>1
<1>3. S \subseteq Int /\ IsFiniteSet(S)
  <2>1. S \in SUBSET (1 .. Len(w))
    BY <1>2
  <2>2. IsFiniteSet(1 .. Len(w)) /\ 1 .. Len(w) \subseteq Int
    BY <1>1, FS_Interval
  <2> HIDE DEF S
  <2> QED BY <2>1, <2>2, FS_Subset
<1>4. Bores(w) = f
  BY DEF Bores
<1> HIDE DEF S
<1>5. /\ Cardinality(S) \in Nat /\ DOMAIN at = 1 .. Cardinality(S)
      /\ \A k \in 1 .. Cardinality(S) : at[k] \in S
      /\ \A i \in S : \E k \in 1 .. Cardinality(S) : at[k] = i
  BY <1>3, AscendingIs
<1> HIDE DEF at
<1>6. \A k \in DOMAIN at : f[k] = w[at[k]] /\ f[k] \in T
  BY <1>1, <1>2, <1>5
<1>7. f \in [1 .. Cardinality(S) -> T] /\ DOMAIN f = DOMAIN at
  BY <1>5, <1>6
<1> HIDE DEF f
<1>8. f \in Seq(T)
  BY <1>5, <1>7, SeqDef
<1>9. Range(f) = {w[i] : i \in S}
  <2>1. \A r \in Range(f) : \E i \in S : r = w[i]
    BY <1>5, <1>6, <1>7 DEF Range
  <2>2. ASSUME NEW i \in S PROVE w[i] \in Range(f)
    <3>1. PICK k \in DOMAIN at : at[k] = i
      BY <1>5
    <3> QED BY <3>1, <1>6, <1>7 DEF Range
  <2> QED BY <2>1, <2>2
<1> QED BY <1>4, <1>8, <1>9 DEF S

\* The runs and the bores of several ways, one after the other.
LEMMA RunsOfWaysAre ==
  ASSUME NEW T, NEW ways \in Seq(Seq(T))
  PROVE  LET runs == FlattenSeq([i \in 1 .. Len(ways) |-> Runs(ways[i])])
             bores == FlattenSeq([i \in 1 .. Len(ways) |-> Bores(ways[i])])
         IN  /\ runs \in Seq(T \X T) /\ bores \in Seq(T)
             /\ Range(runs) = UNION {Range(Runs(ways[i])) : i \in 1 .. Len(ways)}
             /\ Range(bores) = UNION {Range(Bores(ways[i])) : i \in 1 .. Len(ways)}
<1> DEFINE N == Len(ways)
           rs == [i \in 1 .. N |-> Runs(ways[i])]
           bs == [i \in 1 .. N |-> Bores(ways[i])]
<1>1. N \in Nat /\ \A i \in 1 .. N : ways[i] \in Seq(T)
  BY LenProperties, ElementOfSeq
<1>2. \A i \in 1 .. N : rs[i] = Runs(ways[i]) /\ bs[i] = Bores(ways[i])
  OBVIOUS
<1>3. \A i \in 1 .. N : rs[i] \in Seq(T \X T) /\ bs[i] \in Seq(T)
  BY <1>1, <1>2, RunsAre, BoresAre
<1>4. rs \in Seq(Seq(T \X T)) /\ bs \in Seq(Seq(T)) /\ DOMAIN rs = 1 .. N /\ DOMAIN bs = 1 .. N
  <2>1. DOMAIN rs = 1 .. N /\ DOMAIN bs = 1 .. N
    OBVIOUS
  <2>2. rs \in [1 .. N -> Seq(T \X T)] /\ bs \in [1 .. N -> Seq(T)]
    BY <1>3
  <2> HIDE DEF rs, bs, N
  <2> QED BY <2>1, <2>2, <1>1, SeqDef
<1>5. Len(rs) = N /\ Len(bs) = N
  <2> HIDE DEF rs, bs, N
  <2> QED BY <1>1, <1>4, LenProperties
<1>6. N = 0 => rs = <<>> /\ bs = <<>>
  <2> HIDE DEF rs, bs, N
  <2> QED BY <1>4, <1>5, EmptySeq
<1>7. /\ FlattenSeq(rs) \in Seq(T \X T)
      /\ Range(FlattenSeq(rs)) = UNION {Range(rs[i]) : i \in 1 .. N}
  <2> HIDE DEF rs, bs, N
  <2> QED BY <1>1, <1>3, <1>5, <1>6, FlattenIs
<1>8. /\ FlattenSeq(bs) \in Seq(T)
      /\ Range(FlattenSeq(bs)) = UNION {Range(bs[i]) : i \in 1 .. N}
  <2> HIDE DEF rs, bs, N
  <2> QED BY <1>1, <1>3, <1>5, <1>6, FlattenIs
<1>9. /\ UNION {Range(rs[i]) : i \in 1 .. N} = UNION {Range(Runs(ways[i])) : i \in 1 .. N}
      /\ UNION {Range(bs[i]) : i \in 1 .. N} = UNION {Range(Bores(ways[i])) : i \in 1 .. N}
  <2> HIDE DEF rs, bs, N
  <2> QED BY <1>2
<1> QED BY <1>7, <1>8, <1>9

\* The name of new copper has four parts, and no other route or via has it.
LEMMA NamesAreNew ==
  ASSUME NEW a, NEW n, NEW i, NEW used, IsFiniteSet(used)
  PROVE  LET id == FreshId(<<a, n, i>>, used)
         IN  Len(id) = 4 /\ id[1] = a /\ id[3] = i /\ id \notin used
<1> DEFINE name == <<a, n, i>>
<1>1. name \in Seq({a, n, i}) /\ Len(name) = 3 /\ name[1] = a /\ name[3] = i
  OBVIOUS
<1> HIDE DEF name
<1>2. PICK k \in Nat : FreshId(name, used) = Append(name, k) /\ FreshId(name, used) \notin used
  BY <1>1, FreshIdIs
<1>3. name \in Seq({a, n, i} \cup {k})
  BY <1>1, SeqMonotonic
<1>4. Len(Append(name, k)) = 4 /\ Append(name, k)[1] = a /\ Append(name, k)[3] = i
  <2>1. /\ Len(Append(name, k)) = Len(name) + 1
        /\ \A j \in 1 .. Len(name) : Append(name, k)[j] = name[j]
    BY <1>3, AppendProperties
  <2> HIDE DEF name
  <2> QED BY <1>1, <2>1
<1> QED BY <1>2, <1>4 DEF name

\* A set with a member for every index of a sequence is finite.
LEMMA IndexedIsFinite ==
  ASSUME NEW f, NEW N \in Nat, DOMAIN f = 1 .. N
  PROVE  IsFiniteSet({f[i] : i \in 1 .. N})
<1>1. IsFiniteSet(1 .. N)
  BY FS_Interval
<1> QED BY <1>1, FinitelyMany

CopperIsSound(b, n, c) ==
  /\ c = [segments |-> c.segments, vias |-> c.vias] /\ IsFiniteSet(c.segments \cup c.vias)
  /\ \A o \in c.segments : IsRun(b, n, o)
  /\ \A o \in c.vias : IsBore(b, n, o)
  /\ \A o \in c.segments \cup c.vias : /\ Len(o.id) = 4 /\ o.id[1] \in {"route", "via"}
                                       /\ o.id \notin IdsOf(Conductors(b))
  /\ \A o, q \in c.segments \cup c.vias : o.id = q.id => o = q

\* The copper of ways over the board lies on the board, and no two pieces of it share a name.
LEMMA CopperIs ==
  ASSUME NEW b, b.outline \in Rects, IsFiniteSet(Conductors(b)),
         NEW n, b.class[n] \in DOMAIN Clearance,
         NEW ways \in Seq(Seq(Places(b)))
  PROVE  CopperIsSound(b, n, Copper(b, n, ways))
<1> DEFINE used == {o.id : o \in b.routes \cup b.vias}
           runs == FlattenSeq([i \in 1 .. Len(ways) |-> Runs(ways[i])])
           bores == FlattenSeq([i \in 1 .. Len(ways) |-> Bores(ways[i])])
           run == [i \in DOMAIN runs |->
                     [kind |-> "route", id |-> FreshId(<<"route", n, i>>, used), net |-> n,
                      start |-> runs[i][1][1], end |-> runs[i][2][1], width |-> Width[b.class[n]],
                      layers |-> {runs[i][1][2]}, lock |-> FALSE]]
           bore == [i \in DOMAIN bores |->
                      [kind |-> "via", id |-> FreshId(<<"via", n, i>>, used), net |-> n,
                       pos |-> bores[i][1], diameter |-> ViaSize[b.class[n]], layers |-> b.layers,
                       lock |-> FALSE]]
           S == {run[i] : i \in DOMAIN runs}
           V == {bore[i] : i \in DOMAIN bores}
<1>1. Copper(b, n, ways) = [segments |-> S, vias |-> V]
  BY DEF Copper
<1>2. runs \in Seq(Places(b) \X Places(b)) /\ bores \in Seq(Places(b))
  BY RunsOfWaysAre
<1>3. IsFiniteSet(used) /\ used = IdsOf(Conductors(b))
  <2> DEFINE id == [o \in Conductors(b) |-> o.id]
  <2>1. IsFiniteSet(DOMAIN id)
    OBVIOUS
  <2>2. {id[o] : o \in DOMAIN id} = used
    BY DEF Conductors
  <2> HIDE DEF id, used
  <2>3. IsFiniteSet(used)
    BY <2>1, <2>2, FinitelyMany
  <2> QED BY <2>3 DEF used, IdsOf, Conductors
<1> HIDE DEF runs, bores, used
<1>4. /\ Len(runs) \in Nat /\ DOMAIN runs = 1 .. Len(runs)
      /\ \A i \in DOMAIN runs : runs[i] \in Places(b) \X Places(b)
      /\ Len(bores) \in Nat /\ DOMAIN bores = 1 .. Len(bores)
      /\ \A i \in DOMAIN bores : bores[i] \in Places(b)
  BY <1>2, LenProperties, ElementOfSeq
<1>5. Width[b.class[n]] \in Nat /\ ViaSize[b.class[n]] \in Nat
  BY WidthAssumption
<1>6. \A p \in GridPoints(b) : p \in Points /\ RectContains(b.outline, p)
  BY GridIs
<1>7. ASSUME NEW i \in DOMAIN runs PROVE IsRun(b, n, run[i])
  <2>1. /\ runs[i][1][1] \in GridPoints(b) /\ runs[i][2][1] \in GridPoints(b)
        /\ runs[i][1][2] \in b.layers
    BY <1>4 DEF Places
  <2>2. /\ run[i].kind = "route" /\ run[i].net = n /\ run[i].lock = FALSE
        /\ run[i].start = runs[i][1][1] /\ run[i].end = runs[i][2][1]
        /\ run[i].width = Width[b.class[n]] /\ run[i].layers = {runs[i][1][2]}
        /\ DOMAIN run[i] = {"kind", "id", "net", "start", "end", "width", "layers", "lock"}
    OBVIOUS
  <2> HIDE DEF run
  <2> QED BY <1>5, <1>6, <2>1, <2>2 DEF IsRun, IsRoute
<1>8. ASSUME NEW i \in DOMAIN bores PROVE IsBore(b, n, bore[i])
  <2>1. bores[i][1] \in GridPoints(b)
    BY <1>4 DEF Places
  <2>2. /\ bore[i].kind = "via" /\ bore[i].net = n /\ bore[i].lock = FALSE
        /\ bore[i].pos = bores[i][1] /\ bore[i].diameter = ViaSize[b.class[n]]
        /\ bore[i].layers = b.layers
        /\ DOMAIN bore[i] = {"kind", "id", "net", "pos", "diameter", "layers", "lock"}
    OBVIOUS
  <2> HIDE DEF bore
  <2> QED BY <1>5, <1>6, <2>1, <2>2 DEF IsBore, IsVia
<1>9. ASSUME NEW i \in DOMAIN runs
      PROVE  LET id == run[i].id IN Len(id) = 4 /\ id[1] = "route" /\ id[3] = i /\ id \notin used
  <2>1. run[i].id = FreshId(<<"route", n, i>>, used)
    OBVIOUS
  <2> HIDE DEF run
  <2> QED BY <1>3, <2>1, NamesAreNew
<1>10. ASSUME NEW i \in DOMAIN bores
       PROVE  LET id == bore[i].id IN Len(id) = 4 /\ id[1] = "via" /\ id[3] = i /\ id \notin used
  <2>1. bore[i].id = FreshId(<<"via", n, i>>, used)
    OBVIOUS
  <2> HIDE DEF bore
  <2> QED BY <1>3, <2>1, NamesAreNew
<1>11. DOMAIN run = DOMAIN runs /\ DOMAIN bore = DOMAIN bores
  OBVIOUS
<1> HIDE DEF run, bore
<1>12. IsFiniteSet(S \cup V)
  <2>1. IsFiniteSet(S) /\ IsFiniteSet(V)
    BY <1>4, <1>11, IndexedIsFinite
  <2> HIDE DEF S, V
  <2> QED BY <2>1, FS_Union
<1>13. /\ \A o \in S : \E i \in DOMAIN runs : o = run[i]
       /\ \A o \in V : \E i \in DOMAIN bores : o = bore[i]
  OBVIOUS
<1> HIDE DEF S, V
<1>14. /\ \A o \in S : IsRun(b, n, o)
       /\ \A o \in V : IsBore(b, n, o)
  BY <1>7, <1>8, <1>13
<1>15. \A o \in S \cup V : Len(o.id) = 4 /\ o.id[1] \in {"route", "via"} /\ o.id \notin used
  BY <1>9, <1>10, <1>13
<1>16. ASSUME NEW o \in S \cup V, NEW q \in S \cup V, o.id = q.id PROVE o = q
  <2>1. CASE o \in S
    <3>1. PICK i \in DOMAIN runs : o = run[i]
      BY <1>13, <2>1
    <3>2. q \in S
      <4>1. q \in V => q.id[1] = "via"
        BY <1>10, <1>13
      <4> QED BY <4>1, <1>9, <1>16, <3>1
    <3>3. PICK j \in DOMAIN runs : q = run[j]
      BY <1>13, <3>2
    <3>4. i = j
      BY <1>9, <1>16, <3>1, <3>3
    <3> QED BY <3>1, <3>3, <3>4
  <2>2. CASE o \in V
    <3>1. PICK i \in DOMAIN bores : o = bore[i]
      BY <1>13, <2>2
    <3>2. q \in V
      <4>1. q \in S => q.id[1] = "route"
        BY <1>9, <1>13
      <4> QED BY <4>1, <1>10, <1>16, <3>1
    <3>3. PICK j \in DOMAIN bores : q = bore[j]
      BY <1>13, <3>2
    <3>4. i = j
      BY <1>10, <1>16, <3>1, <3>3
    <3> QED BY <3>1, <3>3, <3>4
  <2> QED BY <2>1, <2>2
<1> QED BY <1>1, <1>3, <1>12, <1>14, <1>15, <1>16 DEF CopperIsSound

-----------------------------------------------------------------------------
(* What is done to the copy keeps it what the offer will be. *)

\* The nets of a function of copper but those that are gone.
Rest(solved, gone) == [n \in DOMAIN solved \ gone |-> solved[n]]

\* A route the search has found is not one that stays of the board's.
LEMMA FoundIsNew ==
  ASSUME NEW b, NEW work, NEW solved, NEW removed, WorkIsSound(b, work, solved, removed),
         NEW o \in SegmentsOf(solved), NEW q \in b.routes, q.id \notin removed
  PROVE  o.id # q.id
BY DEF WorkIsSound, SolvedIsSound, IsNamed, IdsOf

\* What is stripped is copper of the nets that are gone, all their routes and no other net's, or
\* unlocked routes of the board; it is no via.
MayBeStripped(b, work, solved, strip, gone) ==
  /\ \A o \in work.routes :
       o.id \in strip => \/ \E n \in gone \cap DOMAIN solved : o \in solved[n].segments
                        \/ o.id \in Removable(b)
  /\ \A n \in gone \cap DOMAIN solved : \A o \in solved[n].segments : o.id \in strip
  /\ \A n \in DOMAIN solved \ gone : \A o \in solved[n].segments : o.id \notin strip
  /\ \A o \in work.vias : o.id \notin strip

\* Routes can be stripped from the copy: those of the nets that are gone, and unlocked ones of the
\* board, which count as removed.
LEMMA StrippedKeeps ==
  ASSUME NEW b, IsBoard(b), NEW work, NEW solved, NEW removed, WorkIsSound(b, work, solved, removed),
         NEW strip, NEW gone,
         MayBeStripped(b, work, solved, strip, gone)
  PROVE  WorkIsSound(b, Without(work, strip), Rest(solved, gone), removed \cup (strip \cap Removable(b)))
<1> USE DEF MayBeStripped
<1> DEFINE routes == {o \in work.routes : o.id \notin strip}
           rest == Rest(solved, gone)
           taken == removed \cup (strip \cap Removable(b))
           left == Without(work, strip)
<1>1. /\ CopyIsSound(b, work) /\ CopyIsKept(b, work, solved, removed)
      /\ SolvedIsSound(b, solved, removed)
  BY DEF WorkIsSound
<1>2. DOMAIN rest = DOMAIN solved \ gone /\ \A n \in DOMAIN rest : rest[n] = solved[n]
  BY DEF Rest
<1>3. left.routes = routes /\ left.vias = work.vias
      /\ DOMAIN left = DOMAIN b /\ \A x \in DOMAIN b \ {"routes", "vias"} : left[x] = b[x]
  <2>1. {o \in work.vias : o.id \notin strip} = work.vias
    OBVIOUS
  <2>2. left = [work EXCEPT !.routes = routes, !.vias = work.vias]
    BY <2>1 DEF Without
  <2>3. DOMAIN work = DOMAIN b /\ \A x \in DOMAIN b \ {"routes", "vias"} : work[x] = b[x]
    BY <1>1 DEF CopyIsSound
  <2> HIDE DEF routes, left
  <2>4. "routes" \in DOMAIN work /\ "vias" \in DOMAIN work
    BY <2>3 DEF IsBoard
  <2> QED BY <2>2, <2>3, <2>4
<1> HIDE DEF left, rest
<1>4. CopyIsSound(b, left)
  <2>1. Conductors(left) \in SUBSET Conductors(work)
    BY <1>3 DEF Conductors
  <2>2. IsFiniteSet(Conductors(left))
    BY <2>1, <1>1, FS_Subset DEF CopyIsSound
  <2> QED BY <2>1, <2>2, <1>1, <1>3 DEF CopyIsSound
<1>5. SegmentsOf(rest) \subseteq SegmentsOf(solved) /\ ViasIn(rest) \subseteq ViasIn(solved)
  BY <1>2 DEF SegmentsOf, ViasIn
<1>6. routes = {o \in b.routes : o.id \notin taken} \cup SegmentsOf(rest)
  <2>1. work.routes = {o \in b.routes : o.id \notin removed} \cup SegmentsOf(solved)
    BY <1>1 DEF CopyIsKept
  <2>2. ASSUME NEW o \in routes PROVE o \in {q \in b.routes : q.id \notin taken} \cup SegmentsOf(rest)
    <3>1. CASE o \in b.routes /\ o.id \notin removed
      BY <3>1
    <3>2. CASE o \in SegmentsOf(solved)
      <4>1. PICK n \in DOMAIN solved : o \in solved[n].segments
        BY <3>2 DEF SegmentsOf
      <4>2. n \in DOMAIN rest
        BY <4>1, <1>2
      <4> QED BY <4>1, <4>2, <1>2 DEF SegmentsOf
    <3> QED BY <2>1, <3>1, <3>2
  <2>3. ASSUME NEW o \in b.routes, o.id \notin taken PROVE o \in routes
    <3>1. o \in work.routes /\ o.id \notin removed
      BY <2>1, <2>3
    <3>2. o \notin SegmentsOf(solved)
      BY <3>1, FoundIsNew
    <3>3. \A n \in gone \cap DOMAIN solved : o \notin solved[n].segments
      BY <3>2 DEF SegmentsOf
    <3>4. o.id \notin strip
      BY <3>1, <3>3, <2>3
    <3> QED BY <3>1, <3>4
  <2>4. ASSUME NEW o \in SegmentsOf(rest) PROVE o \in routes
    <3>1. PICK n \in DOMAIN rest : o \in rest[n].segments
      BY DEF SegmentsOf
    <3>2. o.id \notin strip /\ o \in SegmentsOf(solved)
      BY <3>1, <1>2, <1>5
    <3> QED BY <3>2, <2>1
  <2> HIDE DEF routes, taken
  <2> QED BY <2>2, <2>3, <2>4
<1>7. CopyIsKept(b, left, rest, taken)
  BY <1>1, <1>3, <1>5, <1>6 DEF CopyIsKept
<1>8. SolvedIsSound(b, rest, taken)
  <2>1. ASSUME NEW o \in SegmentsOf(rest) \cup ViasIn(rest) PROVE IsNamed(b, taken, o)
    <3>1. IsNamed(b, removed, o)
      BY <1>1, <1>5 DEF SolvedIsSound
    <3> QED BY <3>1 DEF IsNamed
  <2>2. \A n \in DOMAIN rest : /\ n \in DOMAIN b.class
                               /\ \A o \in rest[n].segments : IsRun(b, n, o)
                               /\ \A o \in rest[n].vias : IsBore(b, n, o)
    BY <1>1, <1>2 DEF SolvedIsSound
  <2> HIDE DEF taken
  <2> QED BY <2>1, <2>2 DEF SolvedIsSound
<1> QED BY <1>4, <1>7, <1>8 DEF WorkIsSound, left, rest

With(work, c) == [work EXCEPT !.routes = @ \cup c.segments, !.vias = @ \cup c.vias]
And(solved, n, c) == Over(solved, [m \in {n} |-> c])

\* The copper of one more net can be added.
LEMMA AddedKeeps ==
  ASSUME NEW b, IsBoard(b), NEW work, NEW solved, NEW removed, WorkIsSound(b, work, solved, removed),
         NEW n \in DOMAIN b.class, n \notin DOMAIN solved, NEW c,
         NEW whole, CopperIsSound(whole, n, c), whole.outline = b.outline, whole.layers = b.layers,
         Conductors(work) \subseteq Conductors(whole)
  PROVE  WorkIsSound(b, With(work, c), And(solved, n, c), removed)
<1> DEFINE more == With(work, c)
           all == And(solved, n, c)
<1>1. /\ CopyIsSound(b, work) /\ CopyIsKept(b, work, solved, removed)
      /\ SolvedIsSound(b, solved, removed)
  BY DEF WorkIsSound
<1>2. /\ DOMAIN all = DOMAIN solved \cup {n} /\ all[n] = c
      /\ \A m \in DOMAIN solved : all[m] = solved[m]
  BY DEF And, Over
<1>3. /\ more.routes = work.routes \cup c.segments /\ more.vias = work.vias \cup c.vias
      /\ DOMAIN more = DOMAIN b /\ \A x \in DOMAIN b \ {"routes", "vias"} : more[x] = b[x]
  <2>1. DOMAIN work = DOMAIN b /\ \A x \in DOMAIN b \ {"routes", "vias"} : work[x] = b[x]
    BY <1>1 DEF CopyIsSound
  <2>2. "routes" \in DOMAIN work /\ "vias" \in DOMAIN work
    <3>1. "routes" \in DOMAIN b /\ "vias" \in DOMAIN b
      BY DEF IsBoard
    <3> QED BY <2>1, <3>1
  <2> QED BY <2>1, <2>2 DEF With
<1> HIDE DEF more, all
<1>4. \A o \in c.segments \cup c.vias : o.id \notin IdsOf(Conductors(work))
  BY DEF CopperIsSound, IdsOf
<1>5. /\ \A o \in c.segments : IsRun(b, n, o)
      /\ \A o \in c.vias : IsBore(b, n, o)
  BY DEF CopperIsSound, IsRun, IsBore
<1>6. CopyIsSound(b, more)
  <2>1. Conductors(more) = Conductors(work) \cup (c.segments \cup c.vias)
    BY <1>3 DEF Conductors
  <2>2. IsFiniteSet(Conductors(more))
    <3>1. IsFiniteSet(Conductors(work)) /\ IsFiniteSet(c.segments \cup c.vias)
      BY <1>1 DEF CopyIsSound, CopperIsSound
    <3> QED BY <2>1, <3>1, FS_Union
  <2>3. \A o, q \in Conductors(more) : o.id = q.id => o = q
    <3>1. \A o, q \in Conductors(work) : o.id = q.id => o = q
      BY <1>1 DEF CopyIsSound
    <3>2. \A o, q \in c.segments \cup c.vias : o.id = q.id => o = q
      BY DEF CopperIsSound
    <3>3. \A o \in c.segments \cup c.vias : \A q \in Conductors(work) : o.id # q.id
      BY <1>4 DEF IdsOf
    <3> QED BY <2>1, <3>1, <3>2, <3>3
  <2>4. (\A o \in more.routes : IsRoute(o)) /\ \A o \in more.vias : IsVia(o)
    BY <1>1, <1>3, <1>5 DEF CopyIsSound, IsRun, IsBore
  <2> QED BY <1>3, <2>2, <2>3, <2>4 DEF CopyIsSound
<1>7. /\ SegmentsOf(all) = SegmentsOf(solved) \cup c.segments
      /\ ViasIn(all) = ViasIn(solved) \cup c.vias
  BY <1>2 DEF SegmentsOf, ViasIn
<1>8. CopyIsKept(b, more, all, removed)
  BY <1>1, <1>3, <1>7 DEF CopyIsKept
<1>9. SolvedIsSound(b, all, removed)
  <2>1. ASSUME NEW o \in c.segments \cup c.vias PROVE IsNamed(b, removed, o)
    <3>1. Len(o.id) = 4 /\ o.id[1] \in {"route", "via"}
      BY DEF CopperIsSound
    <3>2. b.vias \subseteq Conductors(work) /\ {q \in b.routes : q.id \notin removed} \subseteq Conductors(work)
      BY <1>1 DEF CopyIsKept, Conductors
    <3>3. o.id \notin IdsOf(b.vias)
      BY <3>2, <1>4 DEF IdsOf
    <3>4. o.id \in IdsOf(b.routes) => o.id \in removed
      BY <3>2, <1>4 DEF IdsOf
    <3> QED BY <3>1, <3>3, <3>4 DEF IsNamed
  <2>2. \A o \in SegmentsOf(all) \cup ViasIn(all) : IsNamed(b, removed, o)
    BY <2>1, <1>1, <1>7 DEF SolvedIsSound
  <2>3. ASSUME NEW m \in DOMAIN all
        PROVE  /\ m \in DOMAIN b.class
               /\ \A o \in all[m].segments : IsRun(b, m, o)
               /\ \A o \in all[m].vias : IsBore(b, m, o)
    <3>1. CASE m = n
      BY <3>1, <1>2, <1>5
    <3>2. CASE m # n
      BY <3>2, <1>1, <1>2 DEF SolvedIsSound
    <3> QED BY <3>1, <3>2
  <2> QED BY <2>2, <2>3 DEF SolvedIsSound
<1> QED BY <1>6, <1>8, <1>9 DEF WorkIsSound, more, all

\* The copy has the board's outline, layers, classes and pads.
LEMMA CopyIs ==
  ASSUME NEW b, IsBoard(b), NEW work, CopyIsSound(b, work)
  PROVE  /\ work.outline = b.outline /\ work.layers = b.layers /\ work.class = b.class
         /\ work.pads = b.pads /\ DOMAIN work = DOMAIN b
BY DEF IsBoard, CopyIsSound

\* The pads of a net the router takes are places of the grid.
LEMMA PadsAreOnGrid ==
  ASSUME NEW b, BoardIsSound(b), NEW n, Routable(b, n), NEW p \in OfNet(b.pads, n)
  PROVE  p.pos \in GridPoints(b) /\ p.layers \subseteq b.layers
<1>1. p \in b.pads
  BY DEF OfNet
<1>2. b.outline \in Rects /\ p.pos \in Points
  BY <1>1 DEF BoardIsSound, IsBoard, IsPad
<1>3. RectContains(b.outline, p.pos) /\ p.layers \subseteq b.layers
  BY <1>1 DEF BoardIsSound, Loadable, InsideOutline, ReferencesResolve
<1>4. OnGrid(p.pos)
  BY DEF Routable
<1> QED BY <1>2, <1>3, <1>4, GridIs

\* Whatever the copy has for conductors, the search on it answers nothing or ways from pad to pad.
LEMMA SearchIs ==
  ASSUME NEW b, BoardIsSound(b), NEW work, CopyIsSound(b, work), NEW n, Routable(b, n), NEW cong,
         NEW ways \in NetWays(work, n, cong), ways # NoWay
  PROVE  /\ WaysJoin(work, PadsInOrder(work, n), ways)
         /\ PadsInOrder(work, n) \in Seq(OfNet(b.pads, n))
         /\ Len(PadsInOrder(work, n)) \in Nat \ {0}
         /\ Range(PadsInOrder(work, n)) = OfNet(b.pads, n)
         /\ CopperIsSound(work, n, Copper(work, n, ways))
<1> DEFINE P == OfNet(b.pads, n)
           pads == PadsInOrder(work, n)
<1>1. IsBoard(b) /\ Loadable(b) /\ IsFiniteSet(b.layers) /\ {p.id : p \in b.pads} \subseteq Range(PadOrder)
  BY DEF BoardIsSound
<1>2. /\ work.outline = b.outline /\ work.layers = b.layers /\ work.class = b.class
      /\ work.pads = b.pads
  BY <1>1, CopyIs
<1>3. GridPoints(work) = GridPoints(b)
  BY <1>2 DEF GridPoints
<1>4. \A p, q \in b.pads : p.id = q.id => p = q
  BY <1>1 DEF Loadable, UniqueIds, Objects
<1>5. P # {} /\ IsFiniteSet(P)
  <2>1. P \in SUBSET b.pads /\ IsFiniteSet(b.pads)
    BY <1>1 DEF OfNet, IsBoard
  <2>2. Cardinality(P) >= 2
    BY DEF Routable
  <2> HIDE DEF P
  <2> QED BY <2>1, <2>2, FS_Subset, FS_EmptySet
<1>6. pads \in Seq(P) /\ Len(pads) \in Nat \ {0} /\ Range(pads) = P
  <2>1. OfNet(work.pads, n) = P
    BY <1>2
  <2> QED BY <2>1, <1>1, <1>2, <1>4, <1>5, PadsInOrderAre
<1>7. \A p \in P : p.pos \in GridPoints(work) /\ p.layers \subseteq work.layers
  BY <1>2, <1>3, PadsAreOnGrid
<1>8. work.outline \in Rects /\ IsFiniteSet(work.layers)
  BY <1>1, <1>2 DEF IsBoard
<1>9. WaysJoin(work, pads, ways)
  <2> HIDE DEF P, pads
  <2>1. ways = NoWay \/ WaysJoin(work, PadsInOrder(work, n), ways)
    BY <1>6, <1>7, <1>8, NetWaysAre DEF pads
  <2> QED BY <2>1 DEF pads
<1>10. CopperIsSound(work, n, Copper(work, n, ways))
  <2>1. ways \in Seq(Seq(Places(work)))
    BY <1>9 DEF WaysJoin
  <2>2. IsFiniteSet(Conductors(work))
    BY DEF CopyIsSound
  <2>3. work.class[n] \in DOMAIN Clearance
    BY <1>1, <1>2 DEF IsBoard, Routable
  <2> QED BY <2>1, <2>2, <2>3, <1>8, CopperIs
<1> QED BY <1>6, <1>9, <1>10

\* A net can be solved: its copper takes the place of the routes that are stripped for it.
LEMMA SolvedKeeps ==
  ASSUME NEW b, BoardIsSound(b), NEW work, NEW solved, NEW removed,
         WorkIsSound(b, work, solved, removed), NEW n, Routable(b, n), n \notin DOMAIN solved,
         NEW strip, NEW gone, n \notin gone,
         MayBeStripped(b, work, solved, strip, gone),
         NEW whole, CopyIsSound(b, whole), Conductors(Without(work, strip)) \subseteq Conductors(whole),
         NEW cong, NEW ways \in NetWays(whole, n, cong), ways # NoWay
  PROVE  WorkIsSound(b, With(Without(work, strip), Copper(whole, n, ways)),
                     And(Rest(solved, gone), n, Copper(whole, n, ways)),
                     removed \cup (strip \cap Removable(b)))
<1> DEFINE c == Copper(whole, n, ways)
           left == Without(work, strip)
           rest == Rest(solved, gone)
           taken == removed \cup (strip \cap Removable(b))
<1>1. IsBoard(b)
  BY DEF BoardIsSound
<1>2. WorkIsSound(b, left, rest, taken)
  BY <1>1, StrippedKeeps
<1>3. CopperIsSound(whole, n, c)
  BY SearchIs
<1>4. whole.outline = b.outline /\ whole.layers = b.layers
  BY <1>1, CopyIs
<1>5. n \notin DOMAIN rest
  BY DEF Rest
<1>6. n \in DOMAIN b.class
  BY DEF Routable
<1> HIDE DEF c, rest, taken, left
<1>7. Conductors(left) \subseteq Conductors(whole)
  BY DEF left
<1>8. WorkIsSound(b, With(left, c), And(rest, n, c), taken)
  BY <1>1, <1>2, <1>3, <1>4, <1>5, <1>6, <1>7, AddedKeeps
<1> QED BY <1>8 DEF c, rest, taken, left

\* Of a set of nets that may be requested, the first in their order is taken.
LEMMA FirstOfIs ==
  ASSUME NEW nets, nets \subseteq Range(NetOrder), nets # {}
  PROVE  FirstOf(nets) \in nets
<1> DEFINE S == {i \in DOMAIN NetOrder : NetOrder[i] \in nets}
<1>1. DOMAIN NetOrder = 1 .. Len(NetOrder) /\ Len(NetOrder) \in Nat
  BY RequestsAssumption, LenProperties
<1>2. S \subseteq Nat /\ S # {}
  <2>1. S \subseteq Nat
    BY <1>1
  <2>2. PICK n \in nets : TRUE
    OBVIOUS
  <2>3. \E i \in DOMAIN NetOrder : NetOrder[i] = n
    BY <2>2 DEF Range
  <2> QED BY <2>1, <2>3
<1>3. Min(S) \in S
  <2> HIDE DEF S
  <2> QED BY <1>2, MinIs
<1> QED BY <1>3 DEF FirstOf

-----------------------------------------------------------------------------
(* The invariant, action by action. *)

\* A route of the copy is the board's, or was found for one of the nets that are solved.
LEMMA WhoseIs ==
  ASSUME NEW b, NEW work, NEW solved, NEW removed, WorkIsSound(b, work, solved, removed)
  PROVE  /\ \A o \in work.vias : o.id \notin IdsOf(work.routes)
         /\ \A o \in Unlocked(work.routes) :
              o.id \in Removable(b) \/ \E k \in DOMAIN solved : o \in solved[k].segments /\ o.net = k
         /\ \A k \in DOMAIN solved : \A o \in solved[k].segments : o \in Unlocked(OfNet(work.routes, k))
         /\ \A o, q \in work.routes : o.id = q.id => o = q
<1>1. /\ \A o, q \in work.routes \cup work.vias : o.id = q.id => o = q
      /\ \A o \in work.routes : o.kind = "route"
      /\ \A o \in work.vias : o.kind = "via"
  BY DEF WorkIsSound, CopyIsSound, IsRoute, IsVia, Conductors
<1>2. \A o \in work.vias : o.id \notin IdsOf(work.routes)
  BY <1>1 DEF IdsOf
<1>3. work.routes = {o \in b.routes : o.id \notin removed} \cup SegmentsOf(solved)
  BY DEF WorkIsSound, CopyIsKept
<1>4. \A k \in DOMAIN solved : \A o \in solved[k].segments : o.net = k /\ ~o.lock
  BY DEF WorkIsSound, SolvedIsSound, IsRun
<1>5. ASSUME NEW o \in Unlocked(work.routes)
      PROVE  o.id \in Removable(b) \/ \E k \in DOMAIN solved : o \in solved[k].segments /\ o.net = k
  <2>1. o \in work.routes /\ ~o.lock
    BY DEF Unlocked
  <2>2. CASE o \in b.routes
    BY <2>1, <2>2 DEF Removable, IdsOf, Unlocked
  <2>3. CASE o \in SegmentsOf(solved)
    BY <2>3, <1>4 DEF SegmentsOf
  <2> QED BY <2>1, <2>2, <2>3, <1>3
<1>6. ASSUME NEW k \in DOMAIN solved, NEW o \in solved[k].segments
      PROVE  o \in Unlocked(OfNet(work.routes, k))
  <2>1. o \in work.routes
    BY <1>3 DEF SegmentsOf
  <2> QED BY <2>1, <1>4 DEF Unlocked, OfNet
<1> QED BY <1>1, <1>2, <1>5, <1>6

\* An id names routes of one net alone, all unlocked, and the board's when that net is not solved.
NamesOwn(b, work, solved, n, i) ==
  /\ i \in IdsOf(work.routes)
  /\ \A o \in work.routes : o.id = i => o.net = n /\ o \in Unlocked(work.routes)
  /\ n \notin DOMAIN solved => i \in Removable(b)
  /\ \A k \in DOMAIN solved \ {n} : \A o \in solved[k].segments : o.id # i

\* The unlocked routes of a net share no id with another net's.
LEMMA OwnRoutes ==
  ASSUME NEW b, NEW work, NEW solved, NEW removed, WorkIsSound(b, work, solved, removed)
  PROVE  \A n : \A i \in IdsOf(Unlocked(OfNet(work.routes, n))) : NamesOwn(b, work, solved, n, i)
<1> TAKE n
<1> TAKE i \in IdsOf(Unlocked(OfNet(work.routes, n)))
<1>1. PICK q \in work.routes : q.id = i /\ q.net = n /\ ~q.lock
  BY DEF IdsOf, Unlocked, OfNet
<1>2. \A o \in work.routes : o.id = i => o = q
  BY <1>1, WhoseIs
<1>3. q \in Unlocked(work.routes)
  BY <1>1 DEF Unlocked
<1>4. q.id \in Removable(b) \/ \E k \in DOMAIN solved : q \in solved[k].segments /\ q.net = k
  BY <1>3, WhoseIs
<1>5. ASSUME NEW k \in DOMAIN solved \ {n}, NEW o \in solved[k].segments PROVE o.id # i
  <2>1. o \in Unlocked(OfNet(work.routes, k))
    BY WhoseIs
  <2>2. o \in work.routes /\ o.net = k
    BY <2>1 DEF Unlocked, OfNet
  <2> QED BY <2>2, <1>1, <1>2
<1> QED BY <1>1, <1>2, <1>3, <1>4, <1>5 DEF IdsOf, NamesOwn

\* An action that changes the state of a call that goes on.
LEMMA CallGoesOn ==
  ASSUME IInv, board' = board, proposal' = proposal, route.phase # "done", CallIsSound(board, route')
  PROVE  IInv'
<1>1. proposal = NoProposal
  BY DEF IInv, OfferIsSound
<1> QED BY <1>1 DEF IInv, OfferIsSound

\* The fields of the state of a call.
LEMMA Fields ==
  DOMAIN RouteIdle = {"phase", "requested", "todo", "net", "tries", "stripped", "work", "solved",
                      "lost", "hopeless", "removed", "cong", "round", "found"}
BY DEF RouteIdle

\* What an installed net changes in the state of a call.
LEMMA InstalledIs ==
  ASSUME NEW r, DOMAIN r = DOMAIN RouteIdle, NEW n, NEW ways, NEW strip,
         {"routes", "vias"} \subseteq DOMAIN r.work,
         \A o \in r.work.vias : o.id \notin strip
  PROVE  LET s == Installed(r, n, ways, strip)
             c == Copper(r.work, n, ways)
         IN  /\ DOMAIN s = DOMAIN RouteIdle
             /\ s.work = With(Without(r.work, strip), c) /\ s.solved = And(r.solved, n, c)
             /\ s.removed = r.removed \cup (strip \cap Removable(board)) /\ s.lost = r.lost \ {n}
             /\ s.phase = r.phase /\ s.requested = r.requested /\ s.todo = r.todo /\ s.net = r.net
             /\ s.tries = r.tries /\ s.stripped = r.stripped /\ s.hopeless = r.hopeless
<1> DEFINE c == Copper(r.work, n, ways)
           s == Installed(r, n, ways, strip)
           work == Laid(r.work, c, strip)
           taken == r.removed \cup (strip \cap Original)
           solved == Over(r.solved, [m \in {n} |-> c])
           cong == Recorded(r.cong, ways)
<1>1. /\ DOMAIN s = DOMAIN RouteIdle
      /\ s.work = work /\ s.solved = solved /\ s.removed = taken /\ s.lost = r.lost \ {n}
      /\ s.phase = r.phase /\ s.requested = r.requested /\ s.todo = r.todo /\ s.net = r.net
      /\ s.tries = r.tries /\ s.stripped = r.stripped /\ s.hopeless = r.hopeless
  <2>1. s = [r EXCEPT !.work = work, !.removed = taken, !.solved = solved, !.lost = r.lost \ {n},
                      !.cong = cong]
    BY DEF Installed
  <2> HIDE DEF s, work, taken, solved, cong
  <2> QED BY <2>1, Fields
<1>2. work = With(Without(r.work, strip), c)
  <2>1. {o \in r.work.vias : o.id \notin strip} = r.work.vias
    OBVIOUS
  <2> DEFINE old == r.work
             left == {o \in old.routes : o.id \notin strip}
  <2>2. Without(old, strip) = [old EXCEPT !.routes = left, !.vias = old.vias]
    BY <2>1 DEF Without
  <2>3. work = [old EXCEPT !.routes = left \cup c.segments, !.vias = old.vias \cup c.vias]
    BY DEF Laid
  <2>4. "routes" \in DOMAIN old /\ "vias" \in DOMAIN old
    OBVIOUS
  <2> HIDE DEF old, left, c, work
  <2>5. With(Without(old, strip), c) = [old EXCEPT !.routes = left \cup c.segments, !.vias = old.vias \cup c.vias]
    BY <2>2, <2>4 DEF With
  <2> QED BY <2>3, <2>5 DEF old
<1>3. taken = r.removed \cup (strip \cap Removable(board)) /\ solved = And(r.solved, n, c)
  BY DEF Original, Removable, And
<1> HIDE DEF s, c, work, taken, solved
<1> QED BY <1>1, <1>2, <1>3 DEF s, c

\* Without a net that is gone a function of copper is what it was.
LEMMA AndRest ==
  ASSUME NEW solved, NEW n, NEW c, NEW m, m # n
  PROVE  /\ And(Rest(solved, {}), n, c) = And(solved, n, c)
         /\ And(Rest(solved, {m}), n, c) = [k \in DOMAIN And(solved, n, c) \ {m} |-> And(solved, n, c)[k]]
BY DEF And, Over, Rest

\* In a call every net but a hopeless one that was solved or lost is one the router takes.
LEMMA CallBegins ==
  ASSUME IInv, RouteBegins
  PROVE  IInv'
<1>1. PICK nets \in Requests :
         route' = [RouteIdle EXCEPT !.phase = "first", !.requested = nets, !.todo = nets,
                                    !.work = board, !.round = 1]
  BY DEF RouteBegins
<1>2. route.phase = "idle" /\ board' = board /\ proposal' = proposal
  BY DEF RouteBegins, adapterVars
<1>3. /\ DOMAIN route' = DOMAIN RouteIdle /\ route'.phase = "first" /\ route'.requested = nets
      /\ route'.todo = nets /\ route'.work = board /\ route'.solved = <<>> /\ route'.lost = {}
      /\ route'.hopeless = {} /\ route'.removed = {}
  BY <1>1 DEF RouteIdle
<1>4. BoardIsSound(board)
  BY DEF IInv
<1>5. DOMAIN <<>> = {} /\ SegmentsOf(<<>>) = {} /\ ViasIn(<<>>) = {}
  BY DEF SegmentsOf, ViasIn
<1>6. CopyIsSound(board, board)
  <2>2. \A o, q \in Conductors(board) : o.id = q.id => o = q
    BY <1>4 DEF BoardIsSound, Loadable, UniqueIds, Objects, Conductors
  <2>3. /\ IsFiniteSet(Conductors(board))
        /\ \A o \in board.routes : IsRoute(o)
        /\ \A o \in board.vias : IsVia(o)
    BY <1>4 DEF BoardIsSound, IsBoard
  <2> QED BY <2>2, <2>3 DEF CopyIsSound
<1>7. CopyIsKept(board, board, <<>>, {}) /\ SolvedIsSound(board, <<>>, {})
  BY <1>5 DEF CopyIsKept, SolvedIsSound
<1>8. nets \subseteq Range(NetOrder)
  BY RequestsAssumption
<1>9. NetsAreSplit(board, route')
  BY <1>3, <1>5, <1>8 DEF NetsAreSplit
<1>10. TriesAreSound(board, route')
  BY <1>3 DEF TriesAreSound
<1>11. WorkIsSound(board, route'.work, route'.solved, route'.removed)
  BY <1>3, <1>6, <1>7 DEF WorkIsSound
<1>12. CallIsSound(board, route')
  BY <1>3, <1>9, <1>10, <1>11 DEF CallIsSound, Phases
<1> QED BY <1>2, <1>12, CallGoesOn

\* What is known of a call under way.
LEMMA InCall ==
  ASSUME IInv, route.phase \notin {"idle", "done"}
  PROVE  /\ BoardIsSound(board) /\ IsBoard(board) /\ DOMAIN route = DOMAIN RouteIdle
         /\ WorkIsSound(board, route.work, route.solved, route.removed)
         /\ CopyIsSound(board, route.work)
         /\ NetsAreSplit(board, route) /\ TriesAreSound(board, route)
         /\ {"routes", "vias"} \subseteq DOMAIN route.work
<1>1. /\ BoardIsSound(board) /\ IsBoard(board) /\ DOMAIN route = DOMAIN RouteIdle
      /\ WorkIsSound(board, route.work, route.solved, route.removed)
      /\ NetsAreSplit(board, route) /\ TriesAreSound(board, route)
  BY DEF IInv, CallIsSound, BoardIsSound
<1>2. CopyIsSound(board, route.work)
  BY <1>1 DEF WorkIsSound
<1>3. DOMAIN route.work = DOMAIN board
  BY <1>1, <1>2, CopyIs
<1> QED BY <1>1, <1>2, <1>3 DEF IsBoard

\* In the first round a net is found to be hopeless or lost, or it is solved.
LEMMA FirstRound ==
  ASSUME IInv, RouteFirst
  PROVE  IInv'
<1> DEFINE n == FirstOf(route.todo)
           next == [route EXCEPT !.todo = @ \ {n}]
           own == IdsOf(Unlocked(OfNet(route.work.routes, n)))
<1>1. route.phase = "first" /\ route.todo # {} /\ board' = board /\ proposal' = proposal
  BY DEF RouteFirst, adapterVars
<1>2. \/ ~Routable(board, n) /\ route' = [next EXCEPT !.lost = @ \cup {n}, !.hopeless = @ \cup {n}]
      \/ /\ Routable(board, n)
         /\ \E ways \in NetWays(route.work, n, route.cong) :
              route' = IF ways = NoWay THEN [next EXCEPT !.lost = @ \cup {n}]
                       ELSE Installed(next, n, ways, own)
  BY DEF RouteFirst
<1>3. /\ BoardIsSound(board) /\ DOMAIN route = DOMAIN RouteIdle
      /\ WorkIsSound(board, route.work, route.solved, route.removed)
      /\ CopyIsSound(board, route.work) /\ NetsAreSplit(board, route)
      /\ {"routes", "vias"} \subseteq DOMAIN route.work
  BY <1>1, InCall
<1>4. /\ route.requested \subseteq Range(NetOrder)
      /\ route.requested = DOMAIN route.solved \cup route.lost \cup route.todo
      /\ DOMAIN route.solved \cap route.lost = {}
      /\ (DOMAIN route.solved \cup route.lost) \cap route.todo = {}
      /\ route.hopeless \subseteq route.lost
      /\ \A m \in (DOMAIN route.solved \cup route.lost) \ route.hopeless : Routable(board, m)
      /\ DOMAIN route.solved \cap route.hopeless = {}
  BY <1>1, <1>3 DEF NetsAreSplit
<1>5. n \in route.todo
  BY <1>1, <1>4, FirstOfIs
<1>6. n \notin DOMAIN route.solved /\ n \notin route.lost /\ n \in route.requested
  BY <1>4, <1>5
<1> HIDE DEF n
<1>7. /\ DOMAIN next = DOMAIN RouteIdle /\ next.phase = "first" /\ next.todo = route.todo \ {n}
      /\ next.work = route.work /\ next.solved = route.solved /\ next.removed = route.removed
      /\ next.requested = route.requested /\ next.lost = route.lost
      /\ next.hopeless = route.hopeless
  BY <1>1, <1>3, Fields
<1> HIDE DEF next
<1>8. CASE /\ ~Routable(board, n)
           /\ route' = [next EXCEPT !.lost = @ \cup {n}, !.hopeless = @ \cup {n}]
  <2>1. /\ DOMAIN route' = DOMAIN RouteIdle /\ route'.phase = "first" /\ route'.todo = route.todo \ {n}
        /\ route'.work = route.work /\ route'.solved = route.solved /\ route'.removed = route.removed
        /\ route'.requested = route.requested /\ route'.lost = route.lost \cup {n}
        /\ route'.hopeless = route.hopeless \cup {n}
    BY <1>7, <1>8, Fields
  <2>2. NetsAreSplit(board, route')
    BY <1>4, <1>5, <1>6, <2>1 DEF NetsAreSplit
  <2>3. TriesAreSound(board, route')
    BY <2>1 DEF TriesAreSound
  <2>4. CallIsSound(board, route')
    BY <1>3, <2>1, <2>2, <2>3 DEF CallIsSound, Phases
  <2> QED BY <1>1, <2>4, CallGoesOn
<1>9. ASSUME Routable(board, n), NEW ways \in NetWays(route.work, n, route.cong),
             route' = IF ways = NoWay THEN [next EXCEPT !.lost = @ \cup {n}]
                      ELSE Installed(next, n, ways, own)
      PROVE  IInv'
  <2>1. CASE ways = NoWay
    <3>1. /\ DOMAIN route' = DOMAIN RouteIdle /\ route'.phase = "first" /\ route'.todo = route.todo \ {n}
          /\ route'.work = route.work /\ route'.solved = route.solved /\ route'.removed = route.removed
          /\ route'.requested = route.requested /\ route'.lost = route.lost \cup {n}
          /\ route'.hopeless = route.hopeless
      BY <1>7, <1>9, <2>1, Fields
    <3>2. NetsAreSplit(board, route')
      BY <1>4, <1>5, <1>6, <1>9, <3>1 DEF NetsAreSplit
    <3>3. TriesAreSound(board, route')
      BY <3>1 DEF TriesAreSound
    <3>4. CallIsSound(board, route')
      BY <1>3, <3>1, <3>2, <3>3 DEF CallIsSound, Phases
    <3> QED BY <1>1, <3>4, CallGoesOn
  <2>2. CASE ways # NoWay
    <3> DEFINE c == Copper(route.work, n, ways)
    <3>1. /\ \A o \in route.work.routes : o.id \in own => o.id \in Removable(board)
          /\ \A m \in DOMAIN route.solved : \A o \in route.solved[m].segments : o.id \notin own
          /\ own \subseteq IdsOf(route.work.routes)
      <4>1. ASSUME NEW i \in own
            PROVE  /\ i \in IdsOf(route.work.routes) /\ i \in Removable(board)
                   /\ \A m \in DOMAIN route.solved : \A o \in route.solved[m].segments : o.id # i
        <5>1. NamesOwn(board, route.work, route.solved, n, i)
          BY <1>3, OwnRoutes
        <5> QED BY <5>1, <1>6 DEF NamesOwn
      <4> HIDE DEF own
      <4> QED BY <4>1
    <3>2. \A o \in route.work.vias : o.id \notin own
      BY <1>3, <3>1, WhoseIs
    <3>3. Conductors(Without(route.work, own)) \subseteq Conductors(route.work)
      BY <1>3 DEF Conductors, Without
    <3> HIDE DEF own
    <3>a. MayBeStripped(board, route.work, route.solved, own, {})
      BY <3>1, <3>2 DEF MayBeStripped
    <3>4. WorkIsSound(board, With(Without(route.work, own), c), And(Rest(route.solved, {}), n, c),
                      route.removed \cup (own \cap Removable(board)))
      BY <1>3, <1>6, <1>9, <2>2, <3>a, <3>3, SolvedKeeps
    <3>5. And(Rest(route.solved, {}), n, c) = And(route.solved, n, c)
      BY DEF And, Over, Rest
    <3>6. /\ DOMAIN route' = DOMAIN RouteIdle /\ route'.phase = "first" /\ route'.todo = route.todo \ {n}
          /\ route'.work = With(Without(route.work, own), c)
          /\ route'.solved = And(route.solved, n, c)
          /\ route'.removed = route.removed \cup (own \cap Removable(board))
          /\ route'.requested = route.requested /\ route'.lost = route.lost \ {n}
          /\ route'.hopeless = route.hopeless
      <4>1. route' = Installed(next, n, ways, own)
        BY <1>9, <2>2
      <4>2. {"routes", "vias"} \subseteq DOMAIN next.work /\ \A o \in next.work.vias : o.id \notin own
        BY <1>3, <1>7, <3>2
      <4> HIDE DEF c
      <4> QED BY <1>7, <4>1, <4>2, InstalledIs DEF c
    <3>7. DOMAIN route'.solved = DOMAIN route.solved \cup {n}
      BY <3>6 DEF And, Over
    <3> HIDE DEF c
    <3>8. NetsAreSplit(board, route')
      BY <1>4, <1>5, <1>6, <1>9, <3>6, <3>7 DEF NetsAreSplit
    <3>9. TriesAreSound(board, route')
      BY <3>6 DEF TriesAreSound
    <3>10. WorkIsSound(board, route'.work, route'.solved, route'.removed)
      BY <3>4, <3>5, <3>6
    <3>11. CallIsSound(board, route')
      BY <3>6, <3>8, <3>9, <3>10 DEF CallIsSound, Phases
    <3> QED BY <1>1, <3>11, CallGoesOn
  <2> QED BY <2>1, <2>2
<1> QED BY <1>2, <1>8, <1>9

\* When the first round is over the requested nets are solved or lost.
LEMMA FirstRoundEnds ==
  ASSUME IInv, EndFirst
  PROVE  IInv'
<1>1. /\ route.phase = "first" /\ route.todo = {} /\ board' = board /\ proposal' = proposal
      /\ route' = [route EXCEPT !.phase = "between"]
  BY DEF EndFirst, adapterVars
<1>2. /\ DOMAIN route = DOMAIN RouteIdle /\ WorkIsSound(board, route.work, route.solved, route.removed)
      /\ NetsAreSplit(board, route)
  BY <1>1, InCall
<1>3. /\ DOMAIN route' = DOMAIN RouteIdle /\ route'.phase = "between"
      /\ route'.work = route.work /\ route'.solved = route.solved /\ route'.removed = route.removed
      /\ route'.requested = route.requested /\ route'.lost = route.lost
      /\ route'.hopeless = route.hopeless
  BY <1>1, <1>2, Fields
<1>4. NetsAreSplit(board, route')
  BY <1>1, <1>2, <1>3 DEF NetsAreSplit
<1>5. TriesAreSound(board, route')
  BY <1>3 DEF TriesAreSound
<1>6. CallIsSound(board, route')
  BY <1>2, <1>3, <1>4, <1>5 DEF CallIsSound, Phases
<1> QED BY <1>1, <1>6, CallGoesOn

\* A round takes up the lost nets the router can route.
LEMMA RoundBegins ==
  ASSUME IInv, NextRound
  PROVE  IInv'
<1>1. /\ route.phase = "between" /\ board' = board /\ proposal' = proposal
      /\ route' = [route EXCEPT !.phase = "round", !.round = @ + 1, !.todo = Unresolved]
  BY DEF NextRound, adapterVars
<1>2. /\ DOMAIN route = DOMAIN RouteIdle /\ WorkIsSound(board, route.work, route.solved, route.removed)
      /\ NetsAreSplit(board, route)
  BY <1>1, InCall
<1>3. /\ DOMAIN route' = DOMAIN RouteIdle /\ route'.phase = "round"
      /\ route'.work = route.work /\ route'.solved = route.solved /\ route'.removed = route.removed
      /\ route'.requested = route.requested /\ route'.lost = route.lost
      /\ route'.hopeless = route.hopeless /\ route'.todo = route.lost \ route.hopeless
  BY <1>1, <1>2, Fields DEF Unresolved
<1>4. NetsAreSplit(board, route')
  BY <1>1, <1>2, <1>3 DEF NetsAreSplit
<1>5. TriesAreSound(board, route')
  BY <1>3 DEF TriesAreSound
<1>6. CallIsSound(board, route')
  BY <1>2, <1>3, <1>4, <1>5 DEF CallIsSound, Phases
<1> QED BY <1>1, <1>6, CallGoesOn

\* The obstacles a net may try to strip are the ways of solved nets and unlocked routes of the board.
LEMMA NetIsTaken ==
  ASSUME IInv, TakeNet
  PROVE  IInv'
<1> DEFINE n == FirstOf(route.todo)
           foreign == {o \in route.work.routes : o.id \in Original /\ o.net \notin route.requested}
           tries == {<<"net", m>> : m \in DOMAIN route.solved} \cup {<<"route", o.id>> : o \in foreign}
<1>1. /\ route.phase = "round" /\ route.todo # {} /\ board' = board /\ proposal' = proposal
      /\ route' = [route EXCEPT !.phase = "try", !.net = n, !.todo = @ \ {n}, !.tries = tries]
  BY DEF TakeNet, adapterVars
<1>2. /\ DOMAIN route = DOMAIN RouteIdle /\ WorkIsSound(board, route.work, route.solved, route.removed)
      /\ NetsAreSplit(board, route) /\ TriesAreSound(board, route)
  BY <1>1, InCall
<1>3. route.todo \subseteq route.lost \ route.hopeless
  BY <1>1, <1>2 DEF TriesAreSound
<1>4. n \in route.todo
  <2>1. route.todo \subseteq Range(NetOrder)
    BY <1>1, <1>2, <1>3 DEF NetsAreSplit
  <2> QED BY <2>1, <1>1, FirstOfIs
<1>5. \A t \in tries :
        \/ t[1] = "net" /\ t[2] \in DOMAIN route.solved
        \/ /\ t[1] = "route" /\ t[2] \in Removable(board)
           /\ \E o \in route.work.routes : o.id = t[2] /\ o.net \notin route.requested
  BY DEF Original, Removable
<1> HIDE DEF n, tries
<1>6. /\ DOMAIN route' = DOMAIN RouteIdle /\ route'.phase = "try"
      /\ route'.work = route.work /\ route'.solved = route.solved /\ route'.removed = route.removed
      /\ route'.requested = route.requested /\ route'.lost = route.lost
      /\ route'.hopeless = route.hopeless /\ route'.todo = route.todo \ {n} /\ route'.net = n
      /\ route'.tries = tries
  BY <1>1, <1>2, Fields
<1>7. NetsAreSplit(board, route')
  BY <1>1, <1>2, <1>6 DEF NetsAreSplit
<1>8. TriesAreSound(board, route')
  BY <1>3, <1>4, <1>5, <1>6 DEF TriesAreSound
<1>9. CallIsSound(board, route')
  BY <1>2, <1>6, <1>7, <1>8 DEF CallIsSound, Phases
<1> QED BY <1>1, <1>9, CallGoesOn

\* A net that nothing helped is given up for this round.
LEMMA NetIsGivenUp ==
  ASSUME IInv, GiveUpNet
  PROVE  IInv'
<1>1. /\ route.phase = "try" /\ board' = board /\ proposal' = proposal
      /\ route' = [route EXCEPT !.phase = "round"]
  BY DEF GiveUpNet, adapterVars
<1>2. /\ DOMAIN route = DOMAIN RouteIdle /\ WorkIsSound(board, route.work, route.solved, route.removed)
      /\ NetsAreSplit(board, route) /\ TriesAreSound(board, route)
  BY <1>1, InCall
<1>3. /\ DOMAIN route' = DOMAIN RouteIdle /\ route'.phase = "round"
      /\ route'.work = route.work /\ route'.solved = route.solved /\ route'.removed = route.removed
      /\ route'.requested = route.requested /\ route'.lost = route.lost
      /\ route'.hopeless = route.hopeless /\ route'.todo = route.todo
  BY <1>1, <1>2, Fields
<1>4. NetsAreSplit(board, route')
  BY <1>1, <1>2, <1>3 DEF NetsAreSplit
<1>5. TriesAreSound(board, route')
  BY <1>1, <1>2, <1>3 DEF TriesAreSound
<1>6. CallIsSound(board, route')
  BY <1>2, <1>3, <1>4, <1>5 DEF CallIsSound, Phases
<1> QED BY <1>1, <1>6, CallGoesOn

\* A call is left when what it offered was executed.
LEMMA CallIsLeft ==
  ASSUME IInv, RouteLeaves
  PROVE  IInv'
<1>1. board' = board /\ proposal' = NoProposal /\ route' = RouteIdle
  BY DEF RouteLeaves, adapterVars
<1>2. RouteIdle.phase = "idle"
  BY DEF RouteIdle
<1>3. CallIsSound(board, RouteIdle)
  BY <1>2 DEF CallIsSound, Phases
<1> QED BY <1>1, <1>3 DEF IInv, OfferIsSound

\* A net that was stripped finds another way, or stays lost.
LEMMA StrippedNetIsRouted ==
  ASSUME IInv, RouteAgain
  PROVE  IInv'
<1> DEFINE n == route.stripped
           next == [route EXCEPT !.phase = "between", !.stripped = NoNet]
<1>1. route.phase = "again" /\ board' = board /\ proposal' = proposal
  BY DEF RouteAgain, adapterVars
<1>2. PICK ways \in NetWays(route.work, n, route.cong) :
        route' = IF ways = NoWay THEN next ELSE Installed(next, n, ways, {})
  BY DEF RouteAgain
<1>3. /\ BoardIsSound(board) /\ DOMAIN route = DOMAIN RouteIdle
      /\ WorkIsSound(board, route.work, route.solved, route.removed)
      /\ CopyIsSound(board, route.work) /\ NetsAreSplit(board, route) /\ TriesAreSound(board, route)
      /\ {"routes", "vias"} \subseteq DOMAIN route.work
  BY <1>1, InCall
<1>4. n \in route.lost \ route.hopeless /\ n \notin DOMAIN route.solved /\ Routable(board, n)
  BY <1>1, <1>3 DEF TriesAreSound, NetsAreSplit
<1> HIDE DEF n
<1>5. /\ DOMAIN next = DOMAIN RouteIdle /\ next.phase = "between"
      /\ next.work = route.work /\ next.solved = route.solved /\ next.removed = route.removed
      /\ next.requested = route.requested /\ next.lost = route.lost /\ next.cong = route.cong
      /\ next.hopeless = route.hopeless
  BY <1>1, <1>3, Fields
<1> HIDE DEF next
<1>6. CASE ways = NoWay
  <2>1. route' = next
    BY <1>2, <1>6
  <2>2. NetsAreSplit(board, route')
    BY <1>1, <1>3, <1>5, <2>1 DEF NetsAreSplit
  <2>3. TriesAreSound(board, route')
    BY <1>5, <2>1 DEF TriesAreSound
  <2>4. CallIsSound(board, route')
    BY <1>3, <1>5, <2>1, <2>2, <2>3 DEF CallIsSound, Phases
  <2> QED BY <1>1, <2>4, CallGoesOn
<1>7. CASE ways # NoWay
  <2> DEFINE c == Copper(route.work, n, ways)
  <2>1. Conductors(Without(route.work, {})) \subseteq Conductors(route.work)
    BY <1>3 DEF Conductors, Without
  <2>a. MayBeStripped(board, route.work, route.solved, {}, {})
    BY DEF MayBeStripped
  <2>2. WorkIsSound(board, With(Without(route.work, {}), c), And(Rest(route.solved, {}), n, c),
                    route.removed \cup ({} \cap Removable(board)))
    BY <1>2, <1>3, <1>4, <1>7, <2>1, <2>a, SolvedKeeps
  <2>3. And(Rest(route.solved, {}), n, c) = And(route.solved, n, c)
    BY DEF And, Over, Rest
  <2>4. /\ DOMAIN route' = DOMAIN RouteIdle /\ route'.phase = "between"
        /\ route'.work = With(Without(route.work, {}), c)
        /\ route'.solved = And(route.solved, n, c)
        /\ route'.removed = route.removed \cup ({} \cap Removable(board))
        /\ route'.requested = route.requested /\ route'.lost = route.lost \ {n}
        /\ route'.hopeless = route.hopeless
    <3>1. route' = Installed(next, n, ways, {})
      BY <1>2, <1>7
    <3> DEFINE none == {}
    <3>2. {"routes", "vias"} \subseteq DOMAIN next.work /\ \A o \in next.work.vias : o.id \notin none
      BY <1>3, <1>5
    <3> HIDE DEF none
    <3>3. LET t == Installed(next, n, ways, none)
              d == Copper(next.work, n, ways)
          IN  /\ DOMAIN t = DOMAIN RouteIdle
              /\ t.work = With(Without(next.work, none), d) /\ t.solved = And(next.solved, n, d)
              /\ t.removed = next.removed \cup (none \cap Removable(board)) /\ t.lost = next.lost \ {n}
              /\ t.phase = next.phase /\ t.requested = next.requested /\ t.hopeless = next.hopeless
      BY <1>5, <3>2, InstalledIs
    <3> QED BY <1>5, <3>1, <3>3 DEF none
  <2>5. DOMAIN route'.solved = DOMAIN route.solved \cup {n}
    BY <2>4 DEF And, Over
  <2> HIDE DEF c
  <2>6. NetsAreSplit(board, route')
    BY <1>1, <1>3, <1>4, <2>4, <2>5 DEF NetsAreSplit
  <2>7. TriesAreSound(board, route')
    BY <2>4 DEF TriesAreSound
  <2>8. WorkIsSound(board, route'.work, route'.solved, route'.removed)
    BY <2>2, <2>3, <2>4
  <2>9. CallIsSound(board, route')
    BY <2>4, <2>6, <2>7, <2>8 DEF CallIsSound, Phases
  <2> QED BY <1>1, <2>9, CallGoesOn
<1> QED BY <1>6, <1>7

\* What is stripped for a try: of a solved net all its copper's routes and no other net's, of the
\* board only unlocked ones, and no via.
LEMMA StripIs ==
  ASSUME NEW b, NEW work, NEW solved, NEW removed, WorkIsSound(b, work, solved, removed),
         NEW n, n \notin DOMAIN solved, NEW requested, DOMAIN solved \subseteq requested,
         NEW try, NEW gone, NEW strip,
         \/ /\ try[1] = "net" /\ try[2] \in DOMAIN solved /\ gone = {try[2]}
            /\ strip = IdsOf(Unlocked(OfNet(work.routes, try[2])))
                         \cup (IdsOf(Unlocked(OfNet(work.routes, n))) \cap Removable(b))
         \/ /\ try[1] = "route" /\ try[2] \in Removable(b) /\ gone = {}
            /\ \E o \in work.routes : o.id = try[2] /\ o.net \notin requested
            /\ strip = {try[2]} \cup (IdsOf(Unlocked(OfNet(work.routes, n))) \cap Removable(b))
  PROVE  MayBeStripped(b, work, solved, strip, gone)
<1> USE DEF MayBeStripped
<1> DEFINE own == IdsOf(Unlocked(OfNet(work.routes, n)))
<1>a. \A k : \A i \in IdsOf(Unlocked(OfNet(work.routes, k))) : NamesOwn(b, work, solved, k, i)
  BY OwnRoutes
<1>1. /\ \A o \in work.vias : o.id \notin IdsOf(work.routes)
      /\ \A o \in Unlocked(work.routes) :
           o.id \in Removable(b) \/ \E k \in DOMAIN solved : o \in solved[k].segments /\ o.net = k
      /\ \A k \in DOMAIN solved : \A o \in solved[k].segments : o \in Unlocked(OfNet(work.routes, k))
      /\ \A o, q \in work.routes : o.id = q.id => o = q
  BY WhoseIs
<1>2. \A i \in own : /\ i \in IdsOf(work.routes)
                     /\ \A k \in DOMAIN solved : \A o \in solved[k].segments : o.id # i
  <2> TAKE i \in own
  <2>1. /\ i \in IdsOf(work.routes)
        /\ \A k \in DOMAIN solved \ {n} : \A o \in solved[k].segments : o.id # i
    BY <1>a DEF NamesOwn
  <2> QED BY <2>1
<1>3. \A k \in DOMAIN solved : \A o \in solved[k].segments : o \in work.routes /\ o.net = k
  BY <1>1 DEF Unlocked, OfNet
<1>4. CASE /\ try[1] = "net" /\ try[2] \in DOMAIN solved /\ gone = {try[2]}
           /\ strip = IdsOf(Unlocked(OfNet(work.routes, try[2]))) \cup (own \cap Removable(b))
  <2> DEFINE m == try[2]
             its == IdsOf(Unlocked(OfNet(work.routes, m)))
  <2>1. \A i \in its : /\ i \in IdsOf(work.routes)
                       /\ \A o \in work.routes : o.id = i => o.net = m /\ o \in Unlocked(work.routes)
                       /\ \A k \in DOMAIN solved \ {m} : \A o \in solved[k].segments : o.id # i
    BY <1>a DEF NamesOwn
  <2>2. \A o \in solved[m].segments : o.id \in its
    BY <1>1, <1>4 DEF IdsOf
  <2>3. strip = its \cup (own \cap Removable(b)) /\ gone = {m} /\ m \in DOMAIN solved
    BY <1>4
  <2> HIDE DEF its, own, m
  <2>4. ASSUME NEW o \in work.routes, o.id \in its
        PROVE  o \in solved[m].segments \/ o.id \in Removable(b)
    <3>1. o.net = m /\ o \in Unlocked(work.routes)
      BY <2>1, <2>4
    <3> QED BY <3>1, <1>1
  <2>5. \A o \in work.routes : o.id \in strip => o \in solved[m].segments \/ o.id \in Removable(b)
    BY <2>3, <2>4
  <2>6. \A k \in DOMAIN solved \ {m} : \A o \in solved[k].segments : o.id \notin strip
    BY <1>2, <2>1, <2>3
  <2>7. \A o \in work.vias : o.id \notin strip
    BY <1>1, <1>2, <2>1, <2>3
  <2> QED BY <2>2, <2>3, <2>5, <2>6, <2>7
<1>5. CASE /\ try[1] = "route" /\ try[2] \in Removable(b) /\ gone = {}
           /\ \E o \in work.routes : o.id = try[2] /\ o.net \notin requested
           /\ strip = {try[2]} \cup (own \cap Removable(b))
  <2> DEFINE i == try[2]
  <2>1. PICK q \in work.routes : q.id = i /\ q.net \notin requested
    BY <1>5
  <2>2. \A k \in DOMAIN solved : \A o \in solved[k].segments : o.id # i
    BY <2>1, <1>1, <1>3
  <2>3. i \in IdsOf(work.routes)
    BY <2>1 DEF IdsOf
  <2>4. strip = {i} \cup (own \cap Removable(b)) /\ gone = {} /\ i \in Removable(b)
    BY <1>5
  <2> HIDE DEF i, own
  <2> QED BY <1>1, <1>2, <2>2, <2>3, <2>4
<1> QED BY <1>4, <1>5

\* What is stripped twice is stripped once.
LEMMA StrippedTwice ==
  ASSUME NEW work, {"routes", "vias"} \subseteq DOMAIN work, NEW strip
  PROVE  /\ Without(Without(work, strip), strip) = Without(work, strip)
         /\ DOMAIN Without(work, strip) = DOMAIN work
         /\ \A o \in Without(work, strip).vias : o.id \notin strip
<1> DEFINE routes == {o \in work.routes : o.id \notin strip}
           vias == {o \in work.vias : o.id \notin strip}
           left == Without(work, strip)
<1>1. left = [work EXCEPT !.routes = routes, !.vias = vias]
  BY DEF Without
<1>2. {o \in routes : o.id \notin strip} = routes /\ {o \in vias : o.id \notin strip} = vias
  OBVIOUS
<1>3. \A o \in vias : o.id \notin strip
  OBVIOUS
<1> HIDE DEF left, routes, vias
<1>4. left.routes = routes /\ left.vias = vias /\ DOMAIN left = DOMAIN work
  BY <1>1
<1>5. Without(left, strip) = [left EXCEPT !.routes = routes, !.vias = vias]
  BY <1>2, <1>4 DEF Without
<1>6. [left EXCEPT !.routes = routes, !.vias = vias] = left
  BY <1>1
<1> QED BY <1>3, <1>4, <1>5, <1>6 DEF left

\* With an obstacle stripped a net finds a way, and the copy stays what the offer will be.
LEMMA ObstacleIsTried ==
  ASSUME IInv, Try
  PROVE  IInv'
<1> DEFINE n == route.net
<1>1. /\ route.phase = "try" /\ board' = board /\ proposal' = proposal
      /\ \E try \in NextTries :
           \E ways \in NetWays(Without(route.work, Strip(try)), n, route.cong) :
             route' = IF ways = NoWay THEN [route EXCEPT !.tries = @ \ {try}]
                      ELSE LET done == Installed([route EXCEPT !.work = Without(route.work, Strip(try))],
                                                 n, ways, Strip(try)) IN
                           IF try[1] = "net"
                           THEN [done EXCEPT !.phase = "again", !.stripped = try[2],
                                             !.solved = [m \in DOMAIN @ \ {try[2]} |-> @[m]],
                                             !.lost = @ \cup {try[2]}]
                           ELSE [done EXCEPT !.phase = "between"]
  BY DEF Try, adapterVars
<1>2. PICK try \in NextTries :
        \E ways \in NetWays(Without(route.work, Strip(try)), n, route.cong) :
          route' = IF ways = NoWay THEN [route EXCEPT !.tries = @ \ {try}]
                   ELSE LET done == Installed([route EXCEPT !.work = Without(route.work, Strip(try))],
                                              n, ways, Strip(try)) IN
                        IF try[1] = "net"
                        THEN [done EXCEPT !.phase = "again", !.stripped = try[2],
                                          !.solved = [m \in DOMAIN @ \ {try[2]} |-> @[m]],
                                          !.lost = @ \cup {try[2]}]
                        ELSE [done EXCEPT !.phase = "between"]
  BY <1>1
<1> DEFINE m == try[2]
           strip == Strip(try)
           trial == Without(route.work, strip)
           start == [route EXCEPT !.work = trial]
<1>3. PICK ways \in NetWays(trial, n, route.cong) :
        route' = IF ways = NoWay THEN [route EXCEPT !.tries = @ \ {try}]
                 ELSE LET done == Installed(start, n, ways, strip) IN
                      IF try[1] = "net"
                      THEN [done EXCEPT !.phase = "again", !.stripped = m,
                                        !.solved = [k \in DOMAIN @ \ {m} |-> @[k]],
                                        !.lost = @ \cup {m}]
                      ELSE [done EXCEPT !.phase = "between"]
  BY <1>2
<1>4. /\ BoardIsSound(board) /\ IsBoard(board) /\ DOMAIN route = DOMAIN RouteIdle
      /\ WorkIsSound(board, route.work, route.solved, route.removed)
      /\ NetsAreSplit(board, route) /\ TriesAreSound(board, route)
      /\ {"routes", "vias"} \subseteq DOMAIN route.work
  BY <1>1, InCall
<1>5. /\ n \in route.lost \ route.hopeless
      /\ \A t \in route.tries :
           \/ t[1] = "net" /\ t[2] \in DOMAIN route.solved
           \/ /\ t[1] = "route" /\ t[2] \in Removable(board)
              /\ \E o \in route.work.routes : o.id = t[2] /\ o.net \notin route.requested
  BY <1>1, <1>4 DEF TriesAreSound
<1>6. /\ n \notin DOMAIN route.solved /\ Routable(board, n)
      /\ DOMAIN route.solved \subseteq route.requested
  BY <1>1, <1>4, <1>5 DEF NetsAreSplit
<1>7. try \in route.tries
  <2> DEFINE nets == {k \in DOMAIN route.solved : <<"net", k>> \in route.tries}
  <2>1. CASE nets # {}
    <3>1. nets \subseteq Range(NetOrder)
      BY <1>4, <1>6 DEF NetsAreSplit
    <3>2. FirstOf(nets) \in nets
      <4> HIDE DEF nets
      <4> QED BY <2>1, <3>1, FirstOfIs
    <3>3. NextTries = {<<"net", FirstOf(nets)>>}
      BY <2>1 DEF NextTries
    <3> QED BY <1>2, <3>2, <3>3
  <2>2. CASE nets = {}
    BY <1>2, <2>2 DEF NextTries
  <2> QED BY <2>1, <2>2
<1>8. strip = (IF try[1] = "net" THEN IdsOf(Unlocked(OfNet(route.work.routes, m))) ELSE {m})
                \cup (IdsOf(Unlocked(OfNet(route.work.routes, n))) \cap Removable(board))
  BY DEF Strip, Original, Removable
<1> DEFINE gone == IF try[1] = "net" THEN {m} ELSE {}
<1>9. \/ /\ try[1] = "net" /\ m \in DOMAIN route.solved /\ gone = {m}
         /\ strip = IdsOf(Unlocked(OfNet(route.work.routes, m)))
                      \cup (IdsOf(Unlocked(OfNet(route.work.routes, n))) \cap Removable(board))
      \/ /\ try[1] = "route" /\ m \in Removable(board) /\ gone = {}
         /\ \E o \in route.work.routes : o.id = m /\ o.net \notin route.requested
         /\ strip = {m} \cup (IdsOf(Unlocked(OfNet(route.work.routes, n))) \cap Removable(board))
  <2>1. \/ try[1] = "net" /\ m \in DOMAIN route.solved
        \/ /\ try[1] = "route" /\ m \in Removable(board)
           /\ \E o \in route.work.routes : o.id = m /\ o.net \notin route.requested
    BY <1>5, <1>7
  <2> HIDE DEF m, n, strip
  <2>2. CASE try[1] = "net" /\ m \in DOMAIN route.solved
    BY <1>8, <2>2
  <2>3. CASE /\ try[1] = "route" /\ m \in Removable(board)
             /\ \E o \in route.work.routes : o.id = m /\ o.net \notin route.requested
    BY <1>8, <2>3
  <2> QED BY <2>1, <2>2, <2>3
<1> HIDE DEF strip, gone, n
<1>10. MayBeStripped(board, route.work, route.solved, strip, gone)
  BY <1>4, <1>6, <1>9, StripIs
<1>11. CopyIsSound(board, trial)
  <2>1. WorkIsSound(board, trial, Rest(route.solved, gone), route.removed \cup (strip \cap Removable(board)))
    BY <1>4, <1>10, StrippedKeeps
  <2> QED BY <2>1 DEF WorkIsSound
<1>12. CASE ways = NoWay
  <2>1. route' = [route EXCEPT !.tries = @ \ {try}]
    BY <1>3, <1>12
  <2>2. /\ DOMAIN route' = DOMAIN RouteIdle /\ route'.phase = "try"
        /\ route'.work = route.work /\ route'.solved = route.solved /\ route'.removed = route.removed
        /\ route'.requested = route.requested /\ route'.lost = route.lost
        /\ route'.hopeless = route.hopeless /\ route'.todo = route.todo /\ route'.net = route.net
        /\ route'.tries = route.tries \ {try}
    BY <1>1, <1>4, <2>1, Fields
  <2>3. NetsAreSplit(board, route')
    BY <1>1, <1>4, <2>2 DEF NetsAreSplit
  <2>4. TriesAreSound(board, route')
    BY <1>1, <1>4, <2>2 DEF TriesAreSound
  <2>5. CallIsSound(board, route')
    BY <1>4, <2>2, <2>3, <2>4 DEF CallIsSound, Phases
  <2> QED BY <1>1, <2>5, CallGoesOn
<1>13. CASE ways # NoWay
  <2> DEFINE c == Copper(trial, n, ways)
             done == Installed(start, n, ways, strip)
             laid == With(trial, c)
             taken == route.removed \cup (strip \cap Removable(board))
             solved == And(route.solved, n, c)
  <2>1. WorkIsSound(board, laid, And(Rest(route.solved, gone), n, c), taken)
    <3>1. n \notin gone
      BY <1>6, <1>9
    <3> QED BY <1>3, <1>4, <1>6, <1>10, <1>11, <1>13, <3>1, SolvedKeeps
  <2>2. /\ DOMAIN start = DOMAIN RouteIdle /\ start.work = trial /\ start.solved = route.solved
        /\ start.removed = route.removed /\ start.lost = route.lost
        /\ start.requested = route.requested /\ start.hopeless = route.hopeless
    <3> HIDE DEF trial
    <3> QED BY <1>4, Fields
  <2> HIDE DEF start
  <2>3. /\ Without(trial, strip) = trial /\ {"routes", "vias"} \subseteq DOMAIN trial
        /\ \A o \in trial.vias : o.id \notin strip
    BY <1>4, StrippedTwice
  <2> HIDE DEF trial
  <2>4. /\ DOMAIN done = DOMAIN RouteIdle
        /\ done.work = laid /\ done.solved = solved /\ done.removed = taken
        /\ done.lost = route.lost \ {n} /\ done.requested = route.requested
        /\ done.hopeless = route.hopeless
    <3>1. LET d == Copper(start.work, n, ways)
          IN  /\ DOMAIN done = DOMAIN RouteIdle
              /\ done.work = With(Without(start.work, strip), d) /\ done.solved = And(start.solved, n, d)
              /\ done.removed = start.removed \cup (strip \cap Removable(board))
              /\ done.lost = start.lost \ {n}
              /\ done.requested = start.requested /\ done.hopeless = start.hopeless
      BY <2>2, <2>3, InstalledIs
    <3> HIDE DEF done
    <3> QED BY <3>1, <2>2, <2>3
  <2> HIDE DEF done
  <2>5. DOMAIN solved = DOMAIN route.solved \cup {n}
    BY DEF And, Over
  <2> HIDE DEF solved, laid, taken
  <2>6. CASE try[1] = "net"
    <3>1. route' = [done EXCEPT !.phase = "again", !.stripped = m,
                                !.solved = [k \in DOMAIN @ \ {m} |-> @[k]], !.lost = @ \cup {m}]
      BY <1>3, <1>13, <2>6 DEF done
    <3> DEFINE rest == [k \in DOMAIN solved \ {m} |-> solved[k]]
    <3>2. gone = {m} /\ m \in DOMAIN route.solved /\ m # n
      BY <1>6, <1>9, <2>6 DEF gone
    <3> HIDE DEF m
    <3>3. And(Rest(route.solved, gone), n, c) = rest
      BY <3>2, AndRest DEF solved
    <3>4. DOMAIN rest = (DOMAIN route.solved \cup {n}) \ {m}
      BY <2>5
    <3>5. route' = [done EXCEPT !.phase = "again", !.stripped = m, !.solved = rest,
                                !.lost = done.lost \cup {m}]
      BY <3>1, <2>4
    <3> HIDE DEF rest
    <3>6. /\ DOMAIN route' = DOMAIN RouteIdle /\ route'.phase = "again" /\ route'.stripped = m
          /\ route'.work = laid /\ route'.solved = rest /\ route'.removed = taken
          /\ route'.requested = route.requested /\ route'.lost = (route.lost \ {n}) \cup {m}
          /\ route'.hopeless = route.hopeless
      BY <2>4, <3>5, Fields
    <3>7. m \notin route.hopeless
      BY <1>4, <3>2 DEF NetsAreSplit
    <3>8. NetsAreSplit(board, route')
      BY <1>1, <1>4, <1>5, <1>6, <3>2, <3>4, <3>6, <3>7 DEF NetsAreSplit
    <3>9. TriesAreSound(board, route')
      BY <3>6, <3>7 DEF TriesAreSound
    <3>10. WorkIsSound(board, route'.work, route'.solved, route'.removed)
      BY <2>1, <3>3, <3>6
    <3>11. CallIsSound(board, route')
      BY <3>6, <3>8, <3>9, <3>10 DEF CallIsSound, Phases
    <3> QED BY <1>1, <3>11, CallGoesOn
  <2>7. CASE try[1] # "net"
    <3>1. route' = [done EXCEPT !.phase = "between"]
      BY <1>3, <1>13, <2>7 DEF done
    <3>2. And(Rest(route.solved, gone), n, c) = solved
      <4>1. gone = {}
        BY <2>7 DEF gone
      <4> QED BY <4>1 DEF And, Over, Rest, solved
    <3>3. /\ DOMAIN route' = DOMAIN RouteIdle /\ route'.phase = "between"
          /\ route'.work = laid /\ route'.solved = solved /\ route'.removed = taken
          /\ route'.requested = route.requested /\ route'.lost = route.lost \ {n}
          /\ route'.hopeless = route.hopeless
      BY <2>4, <3>1, Fields
    <3>4. NetsAreSplit(board, route')
      BY <1>1, <1>4, <1>5, <1>6, <2>5, <3>3 DEF NetsAreSplit
    <3>5. TriesAreSound(board, route')
      BY <3>3 DEF TriesAreSound
    <3>6. WorkIsSound(board, route'.work, route'.solved, route'.removed)
      BY <2>1, <3>2, <3>3
    <3>7. CallIsSound(board, route')
      BY <3>3, <3>4, <3>5, <3>6 DEF CallIsSound, Phases
    <3> QED BY <1>1, <3>7, CallGoesOn
  <2> QED BY <2>6, <2>7
<1> QED BY <1>12, <1>13

\* A call ends with an offer the rules have nothing against, or with none.
LEMMA CallEnds ==
  ASSUME IInv, RouteEnds
  PROVE  IInv'
<1> DEFINE empty == Segments(route) \cup Vias(route) = {}
           found == IF empty \/ Collides(route) THEN {} ELSE Check(Offered(route))
           offer == [by |-> "router",
                     ops |-> <<[type |-> "route", removed |-> route.removed,
                                segments |-> Segments(route), vias |-> Vias(route)]>>]
<1>1. /\ route.phase = "between" \/ route.phase = "round"
      /\ route' = [route EXCEPT !.phase = "done", !.found = found]
      /\ proposal' = IF empty \/ Collides(route) \/ found # {} THEN NoProposal ELSE offer
      /\ board' = board
  BY DEF RouteEnds
<1>2. /\ BoardIsSound(board) /\ DOMAIN route = DOMAIN RouteIdle
      /\ WorkIsSound(board, route.work, route.solved, route.removed)
      /\ NetsAreSplit(board, route)
  BY <1>1, InCall
<1> HIDE DEF empty, found, offer
<1>3. /\ DOMAIN route' = DOMAIN RouteIdle /\ route'.phase = "done"
      /\ route'.work = route.work /\ route'.solved = route.solved /\ route'.removed = route.removed
      /\ route'.requested = route.requested /\ route'.lost = route.lost
  BY <1>1, <1>2, Fields
<1>4. route'.requested = DOMAIN route'.solved \cup route'.lost /\ DOMAIN route'.solved \cap route'.lost = {}
  BY <1>1, <1>2, <1>3 DEF NetsAreSplit
<1>5. CallIsSound(board, route')
  BY <1>3, <1>4 DEF CallIsSound, Phases
<1>6. Segments(route') = Segments(route) /\ Vias(route') = Vias(route)
  BY <1>3 DEF Segments, Vias
<1>7. ASSUME proposal' # NoProposal
      PROVE  /\ proposal' = offer /\ IdsOf(Segments(route) \cup Vias(route)) \cap route.removed = {}
             /\ Check(Laid(board, Found(route), route.removed)) = {}
  <2>1. proposal' = offer /\ ~Collides(route) /\ found = {} /\ ~empty
    BY <1>1, <1>7
  <2>2. Check(Offered(route)) = {}
    BY <2>1 DEF found
  <2> QED BY <2>1, <2>2 DEF Collides, Offered
<1>8. Found(route') = Found(route)
  BY <1>6 DEF Found
<1>9. OfferIsSound(board, route', proposal')
  BY <1>2, <1>3, <1>6, <1>7, <1>8 DEF OfferIsSound, offer
<1> QED BY <1>1, <1>2, <1>5, <1>9 DEF IInv

\* One operation is applied in one step.
LEMMA OneOperation ==
  ASSUME NEW b, NEW op
  PROVE  LET end == Applying(b, <<op>>) IN
         /\ end.board = Applied(b, op)
         /\ end.raised = (Refused(b, op) \/ ~Loadable(Applied(b, op)))
         /\ end.announced = Announced(b, op)
<1> DEFINE IsCopy(copy) == copy = [n \in 0 .. Len(<<op>>) |-> IF n = 0 THEN Begun(b)
                                                             ELSE Stepped(copy[n - 1], <<op>>[n])]
           one == [n \in 0 .. 1 |-> IF n = 0 THEN Begun(b) ELSE Stepped(Begun(b), op)]
           copy == CHOOSE copy : IsCopy(copy)
<1>1. Len(<<op>>) = 1 /\ <<op>>[1] = op
  OBVIOUS
<1>2. IsCopy(one)
  <2>1. \A n \in 0 .. 1 : n = 0 \/ (n = 1 /\ n - 1 = 0)
    OBVIOUS
  <2>2. one[0] = Begun(b) /\ one[1] = Stepped(Begun(b), op)
    OBVIOUS
  <2>3. one = [n \in 0 .. 1 |-> one[n]]
    OBVIOUS
  <2> HIDE DEF one
  <2>4. \A n \in 0 .. 1 : one[n] = IF n = 0 THEN Begun(b) ELSE Stepped(one[n - 1], <<op>>[n])
    BY <1>1, <2>1, <2>2
  <2> QED BY <1>1, <2>3, <2>4
<1>3. Applying(b, <<op>>) = copy[Len(<<op>>)]
  BY DEF Applying
<1>4. IsCopy(copy)
  <2> HIDE DEF IsCopy, one
  <2> QED BY <1>2
<1> HIDE DEF copy
<1>5. \A n \in 0 .. 1 : copy[n] = IF n = 0 THEN Begun(b) ELSE Stepped(copy[n - 1], <<op>>[n])
  BY <1>1, <1>4
<1>6. copy[0] = Begun(b) /\ copy[1] = Stepped(copy[0], op)
  BY <1>1, <1>5
<1>7. Applying(b, <<op>>) = Stepped(Begun(b), op)
  BY <1>1, <1>3, <1>6
<1> DEFINE next == Applied(b, op)
           refused == Refused(b, op)
           loads == Loadable(next)
           names == Announced(b, op)
<1>8. Applying(b, <<op>>) = [board |-> next, raised |-> FALSE \/ refused \/ ~loads,
                             announced |-> {} \cup names]
  BY <1>7 DEF Stepped, Begun
<1> HIDE DEF next, refused, loads, names
<1>9. LET end == Applying(b, <<op>>)
      IN  end.board = next /\ end.raised = (refused \/ ~loads) /\ end.announced = names
  BY <1>8
<1> QED BY <1>9 DEF next, refused, loads, names

\* What an offer makes of a board.
LEMMA OfferApplied ==
  ASSUME NEW b, IsBoard(b), NEW removed, NEW new, NEW op,
         op = [type |-> "route", removed |-> removed, segments |-> new.segments, vias |-> new.vias]
  PROVE  LET next == Applied(b, op) IN
         /\ next = Laid(b, new, removed)
         /\ next.routes = {o \in b.routes : o.id \notin removed} \cup new.segments
         /\ next.vias = b.vias \cup new.vias
         /\ next.outline = b.outline /\ next.layers = b.layers /\ next.class = b.class
         /\ next.keepouts = b.keepouts /\ next.footprints = b.footprints /\ next.pads = b.pads
         /\ next.zones = b.zones /\ DOMAIN next = DOMAIN b
<1>1. Applied(b, op) = [b EXCEPT !.routes = {o \in @ : o.id \notin removed} \cup new.segments,
                                 !.vias = @ \cup new.vias]
  BY DEF Applied
<1>2. Laid(b, new, removed) = [b EXCEPT !.routes = {o \in @ : o.id \notin removed} \cup new.segments,
                                        !.vias = @ \cup new.vias]
  BY DEF Laid
<1> DEFINE routes == {o \in b.routes : o.id \notin removed} \cup new.segments
           vias == b.vias \cup new.vias
<1>3. Applied(b, op) = [b EXCEPT !.routes = routes, !.vias = vias]
  BY <1>1
<1> HIDE DEF routes, vias
<1>4. LET next == Applied(b, op) IN
      /\ next.routes = routes /\ next.vias = vias
      /\ next.outline = b.outline /\ next.layers = b.layers /\ next.class = b.class
      /\ next.keepouts = b.keepouts /\ next.footprints = b.footprints /\ next.pads = b.pads
      /\ next.zones = b.zones /\ DOMAIN next = DOMAIN b
  BY <1>3 DEF IsBoard
<1> QED BY <1>1, <1>2, <1>4 DEF routes, vias

\* The copper of an offer is the copy's.
LEMMA OfferIsCopy ==
  ASSUME NEW b, NEW r, WorkIsSound(b, r.work, r.solved, r.removed)
  PROVE  /\ {o \in b.routes : o.id \notin r.removed} \cup Segments(r) = r.work.routes
         /\ b.vias \cup Vias(r) \subseteq r.work.vias
         /\ Segments(r) = SegmentsOf(r.solved) /\ Vias(r) = ViasIn(r.solved)
BY DEF WorkIsSound, CopyIsKept, Segments, SegmentsOf, Vias, ViasIn

\* A board with an offer's copper is a board, if it loads.
LEMMA OfferLeavesBoard ==
  ASSUME NEW b, BoardIsSound(b), NEW r, WorkIsSound(b, r.work, r.solved, r.removed), NEW op,
         op = [type |-> "route", removed |-> r.removed, segments |-> Segments(r), vias |-> Vias(r)],
         Loadable(Applied(b, op))
  PROVE  BoardIsSound(Applied(b, op))
<1> DEFINE next == Applied(b, op)
           new == Found(r)
<1>1. IsBoard(b)
  BY DEF BoardIsSound
<1>2. new.segments = Segments(r) /\ new.vias = Vias(r)
  BY DEF Found
<1> HIDE DEF new
<1>3. /\ next.routes = {o \in b.routes : o.id \notin r.removed} \cup Segments(r)
      /\ next.vias = b.vias \cup Vias(r)
      /\ next.outline = b.outline /\ next.layers = b.layers /\ next.class = b.class
      /\ next.keepouts = b.keepouts /\ next.footprints = b.footprints /\ next.pads = b.pads
      /\ next.zones = b.zones /\ DOMAIN next = DOMAIN b
  BY <1>1, <1>2, OfferApplied
<1> HIDE DEF next
<1>4. next.routes = r.work.routes /\ next.vias \subseteq r.work.vias
  BY <1>3, OfferIsCopy
<1>5. /\ IsFiniteSet(Conductors(r.work))
      /\ (\A o \in r.work.routes : IsRoute(o)) /\ \A o \in r.work.vias : IsVia(o)
  BY DEF WorkIsSound, CopyIsSound
<1>6. IsFiniteSet(Conductors(next))
  <2>1. Conductors(next) \in SUBSET Conductors(r.work)
    BY <1>4 DEF Conductors
  <2> QED BY <2>1, <1>5, FS_Subset
<1>7. IsBoard(next)
  <2>1. IsFiniteSet(next.routes) /\ IsFiniteSet(next.vias)
    BY <1>6, FS_Subset DEF Conductors
  <2> QED BY <1>1, <1>3, <1>4, <1>5, <2>1 DEF IsBoard
<1> QED BY <1>3, <1>6, <1>7 DEF BoardIsSound, next

\* What was offered is executed, or the board stays as it was.
LEMMA OfferIsExecuted ==
  ASSUME IInv, Execute
  PROVE  IInv'
<1> DEFINE end == Applying(board, proposal.ops)
           verdict == Verdict(board, end)
           op == [type |-> "route", removed |-> route.removed, segments |-> Segments(route),
                  vias |-> Vias(route)]
<1>1. /\ proposal.ops # <<>> /\ proposal' = NoProposal /\ route' = route
      /\ board' = IF verdict = "clean" THEN end.board ELSE board
  BY DEF Execute, Apply
<1>2. proposal # NoProposal
  BY <1>1 DEF NoProposal
<1>3. /\ route.phase = "done" /\ proposal.ops = <<op>>
      /\ WorkIsSound(board, route.work, route.solved, route.removed) /\ BoardIsSound(board)
  BY <1>2 DEF IInv, OfferIsSound
<1>4. BoardIsSound(board')
  <2>1. verdict = "clean" => ~end.raised
    BY DEF Verdict
  <2>2. end.board = Applied(board, op) /\ end.raised = (Refused(board, op) \/ ~Loadable(Applied(board, op)))
    BY <1>3, OneOperation
  <2> HIDE DEF end, verdict
  <2>3. CASE verdict = "clean"
    <3>1. Loadable(Applied(board, op)) /\ board' = Applied(board, op)
      BY <1>1, <2>1, <2>2, <2>3
    <3> QED BY <1>3, <3>1, OfferLeavesBoard
  <2>4. CASE verdict # "clean"
    BY <1>1, <1>3, <2>4
  <2> QED BY <2>3, <2>4
<1>5. CallIsSound(board', route')
  BY <1>1, <1>3 DEF IInv, CallIsSound
<1> QED BY <1>1, <1>4, <1>5 DEF IInv, OfferIsSound

-----------------------------------------------------------------------------
(* The theorems. *)

\* A call that has not begun is sound.
LEMMA InitIsSound == Init => IInv
<1> SUFFICES ASSUME Init PROVE IInv
  OBVIOUS
<1>1. board \in Boards /\ proposal = NoProposal /\ route = RouteIdle
  BY DEF Init
<1>2. BoardIsSound(board)
  <2>1. IsFiniteSet(Conductors(board))
    BY <1>1, BoardsAssumption, FS_Union DEF IsBoard, Conductors
  <2> QED BY <1>1, <2>1, BoardsAssumption DEF BoardIsSound
<1>3. RouteIdle.phase = "idle"
  BY DEF RouteIdle
<1>4. CallIsSound(board, route)
  BY <1>1, <1>3 DEF CallIsSound, Phases
<1> QED BY <1>1, <1>2, <1>4 DEF IInv, OfferIsSound

\* Every step keeps the invariant.
LEMMA StepsAreSound == IInv /\ [Next]_vars => IInv'
<1> SUFFICES ASSUME IInv, [Next]_vars PROVE IInv'
  OBVIOUS
<1>1. CASE RouteBegins
  BY <1>1, CallBegins
<1>2. CASE RouteFirst
  BY <1>2, FirstRound
<1>3. CASE EndFirst
  BY <1>3, FirstRoundEnds
<1>4. CASE NextRound
  BY <1>4, RoundBegins
<1>5. CASE TakeNet
  BY <1>5, NetIsTaken
<1>6. CASE Try
  BY <1>6, ObstacleIsTried
<1>7. CASE RouteAgain
  BY <1>7, StrippedNetIsRouted
<1>8. CASE GiveUpNet
  BY <1>8, NetIsGivenUp
<1>9. CASE RouteEnds
  BY <1>9, CallEnds
<1>10. CASE Execute
  BY <1>10, OfferIsExecuted
<1>11. CASE RouteLeaves
  BY <1>11, CallIsLeft
<1>12. CASE UNCHANGED vars
  BY <1>12 DEF vars, adapterVars, IInv, OfferIsSound, CallIsSound
<1> QED BY <1>1, <1>2, <1>3, <1>4, <1>5, <1>6, <1>7, <1>8, <1>9, <1>10, <1>11, <1>12 DEF Next

\* The invariant holds throughout: the copy the router works on is, at every step of the
\* negotiation, the board with what was removed and what was found.
THEOREM CallIsSoundAlways == Spec => []IInv
BY InitIsSound, StepsAreSound, PTL DEF Spec

\* Whatever is stripped and found in whatever order, the copy has the routes of the offer and at
\* least its vias, and in the end every requested net is solved or lost and not both.
THEOREM CopyIsTheOfferAlways == Spec => []CopyIsTheOffer
<1>1. IInv => CopyIsTheOffer
  <2> SUFFICES ASSUME IInv, route.phase # "idle" PROVE
          /\ route.phase # "done" => /\ route.work.routes = Offered(route).routes
                                     /\ Offered(route).vias \subseteq route.work.vias
          /\ route.phase = "done" => /\ route.requested = DOMAIN route.solved \cup route.lost
                                     /\ DOMAIN route.solved \cap route.lost = {}
    BY DEF CopyIsTheOffer
  <2>1. CASE route.phase # "done"
    <3>1. IsBoard(board) /\ WorkIsSound(board, route.work, route.solved, route.removed)
      BY <2>1, InCall
    <3> DEFINE routes == {o \in board.routes : o.id \notin route.removed} \cup Segments(route)
               vias == board.vias \cup Vias(route)
    <3>2. Offered(route) = [board EXCEPT !.routes = routes, !.vias = vias]
      BY DEF Offered, Laid, Found
    <3>3. routes = route.work.routes /\ vias \subseteq route.work.vias
      BY <3>1, OfferIsCopy
    <3> HIDE DEF routes, vias
    <3>4. Offered(route).routes = routes /\ Offered(route).vias = vias
      BY <3>1, <3>2 DEF IsBoard
    <3> QED BY <2>1, <3>3, <3>4
  <2>2. CASE route.phase = "done"
    BY <2>2 DEF IInv, CallIsSound
  <2> QED BY <2>1, <2>2
<1> QED BY <1>1, CallIsSoundAlways, PTL

-----------------------------------------------------------------------------
(* An offer is executed as it is. *)

\* What an offer adds: copper of the board's nets and layers, within its outline, whose names are
\* nowhere on the board but where something is removed.
LEMMA OfferedIs ==
  ASSUME NEW b, BoardIsSound(b), NamesApart(b),
         NEW r, WorkIsSound(b, r.work, r.solved, r.removed),
         NEW o \in Segments(r) \cup Vias(r)
  PROVE  /\ o.net \in DOMAIN b.class /\ o.layers \subseteq b.layers
         /\ o \in Segments(r) => /\ o.kind = "route" /\ RectContains(b.outline, o.start)
                                 /\ RectContains(b.outline, o.end)
         /\ o \in Vias(r) => o.kind = "via" /\ RectContains(b.outline, o.pos)
         /\ o.id \in Ids(b) => o.id \in r.removed
<1>1. SolvedIsSound(b, r.solved, r.removed)
  BY DEF WorkIsSound
<1>2. ASSUME o \in Segments(r)
      PROVE  /\ o.net \in DOMAIN b.class /\ o.layers \subseteq b.layers
             /\ o.kind = "route" /\ RectContains(b.outline, o.start) /\ RectContains(b.outline, o.end)
  <2>1. PICK n \in DOMAIN r.solved : o \in r.solved[n].segments
    BY <1>2 DEF Segments
  <2>2. n \in DOMAIN b.class /\ IsRun(b, n, o)
    BY <1>1, <2>1 DEF SolvedIsSound
  <2> QED BY <2>2 DEF IsRun, IsRoute
<1>3. ASSUME o \in Vias(r)
      PROVE  /\ o.net \in DOMAIN b.class /\ o.layers \subseteq b.layers
             /\ o.kind = "via" /\ RectContains(b.outline, o.pos)
  <2>1. PICK n \in DOMAIN r.solved : o \in r.solved[n].vias
    BY <1>3 DEF Vias
  <2>2. n \in DOMAIN b.class /\ IsBore(b, n, o)
    BY <1>1, <2>1 DEF SolvedIsSound
  <2> QED BY <2>2 DEF IsBore, IsVia
<1>4. o.id \in Ids(b) => o.id \in r.removed
  <2>1. IsNamed(b, r.removed, o)
    BY <1>1, OfferIsCopy DEF SolvedIsSound
  <2>2. \A q \in b.footprints \cup b.pads \cup b.zones \cup b.keepouts : q.id # o.id
    BY <2>1 DEF NamesApart, IsNamed
  <2> QED BY <2>1, <2>2 DEF IsNamed, Ids, Objects, IdsOf
<1> QED BY <1>2, <1>3, <1>4

\* An id names one object of a board that loads.
LEMMA OneOfAName ==
  ASSUME NEW b, BoardIsSound(b), NEW o \in Objects(b), NEW q \in Objects(b), o.id = q.id
  PROVE  o = q
BY DEF BoardIsSound, Loadable, UniqueIds

\* An offer that does not collide is not refused, and what it makes of the board loads.
LEMMA OfferLoads ==
  ASSUME NEW b, BoardIsSound(b), NamesApart(b),
         NEW r, WorkIsSound(b, r.work, r.solved, r.removed),
         IdsOf(Segments(r) \cup Vias(r)) \cap r.removed = {}, NEW op,
         op = [type |-> "route", removed |-> r.removed, segments |-> Segments(r), vias |-> Vias(r)]
  PROVE  ~Refused(b, op) /\ Loadable(Applied(b, op))
<1> DEFINE next == Applied(b, op)
           new == Found(r)
           fresh == Segments(r) \cup Vias(r)
<1>1. IsBoard(b) /\ Loadable(b)
  BY DEF BoardIsSound
<1>2. new.segments = Segments(r) /\ new.vias = Vias(r)
  BY DEF Found
<1> HIDE DEF new
<1>3. /\ next.routes = {o \in b.routes : o.id \notin r.removed} \cup Segments(r)
      /\ next.vias = b.vias \cup Vias(r)
      /\ next.outline = b.outline /\ next.layers = b.layers /\ next.class = b.class
      /\ next.keepouts = b.keepouts /\ next.footprints = b.footprints /\ next.pads = b.pads
      /\ next.zones = b.zones
  BY <1>1, <1>2, OfferApplied
<1> HIDE DEF next
<1>4. \A o \in fresh : o.id \notin r.removed /\ o.id \notin Ids(b)
  BY OfferedIs DEF IdsOf
<1>5. ~Refused(b, op)
  <2>1. r.removed \subseteq Removable(b)
    BY DEF WorkIsSound, CopyIsKept
  <2>2. \A i \in r.removed : \E q \in b.routes : q.id = i /\ ~q.lock
    BY <2>1 DEF Removable, IdsOf, Unlocked
  <2>3. op.type = "route" /\ op.removed = r.removed /\ op.segments \cup op.vias = fresh
    OBVIOUS
  <2> HIDE DEF fresh
  <2> QED BY <1>4, <2>2, <2>3 DEF Refused
<1>6. UniqueIds(next)
  <2> SUFFICES ASSUME NEW o \in Objects(next), NEW q \in Objects(next), o.id = q.id PROVE o = q
    BY DEF UniqueIds
  <2>1. Objects(next) \subseteq Objects(b) \cup fresh
    BY <1>3 DEF Objects
  <2>2. \A p \in fresh : p.id \notin Ids(b)
    BY <1>4
  <2>3. CASE o \in Objects(b) /\ q \in Objects(b)
    BY <2>3, OneOfAName
  <2>4. CASE o \in fresh /\ q \in fresh
    <3>1. fresh \subseteq Conductors(r.work)
      BY OfferIsCopy DEF Conductors
    <3>2. \A p, s \in Conductors(r.work) : p.id = s.id => p = s
      BY DEF WorkIsSound, CopyIsSound
    <3> QED BY <2>4, <3>1, <3>2
  <2> QED BY <2>1, <2>2, <2>3, <2>4 DEF Ids
<1>7. InsideOutline(next)
  <2>1. InsideOutline(b)
    BY <1>1 DEF Loadable
  <2>2. /\ \A o \in Segments(r) : RectContains(b.outline, o.start) /\ RectContains(b.outline, o.end)
        /\ \A o \in Vias(r) : RectContains(b.outline, o.pos)
    BY OfferedIs
  <2> QED BY <1>3, <2>1, <2>2 DEF InsideOutline
<1>8. ReferencesResolve(next)
  <2>1. ReferencesResolve(b)
    BY <1>1 DEF Loadable
  <2>2. \A o \in fresh : o.net \in DOMAIN b.class /\ o.layers \subseteq b.layers
    BY OfferedIs
  <2>3. next.pads \cup next.routes \cup next.vias \cup next.zones
          \subseteq (b.pads \cup b.routes \cup b.vias \cup b.zones) \cup fresh
    BY <1>3
  <2> HIDE DEF fresh
  <2>4. \A o \in next.pads \cup next.routes \cup next.vias \cup next.zones :
          /\ o.net \in DOMAIN b.class \/ (o.kind = "pad" /\ o.net = NoNet)
          /\ o.layers \subseteq b.layers
    BY <2>1, <2>2, <2>3 DEF ReferencesResolve
  <2> QED BY <1>3, <2>1, <2>4 DEF ReferencesResolve
<1> QED BY <1>5, <1>6, <1>7, <1>8 DEF Loadable, next

\* Nothing differs but what was announced, no lock changes and what is locked stays.
LEMMA OfferIsAnnounced ==
  ASSUME NEW b, BoardIsSound(b), NamesApart(b),
         NEW r, WorkIsSound(b, r.work, r.solved, r.removed),
         IdsOf(Segments(r) \cup Vias(r)) \cap r.removed = {}, NEW op,
         op = [type |-> "route", removed |-> r.removed, segments |-> Segments(r), vias |-> Vias(r)]
  PROVE  LET next == Applied(b, op) IN
         /\ SemanticDiff(b, next) \subseteq Announced(b, op)
         /\ LockChanged(b, next) = {}
         /\ KeepsLocked(b, next)
<1> DEFINE next == Applied(b, op)
           new == Found(r)
           fresh == Segments(r) \cup Vias(r)
<1>1. IsBoard(b) /\ Loadable(b)
  BY DEF BoardIsSound
<1>2. new.segments = Segments(r) /\ new.vias = Vias(r)
  BY DEF Found
<1> HIDE DEF new
<1>3. /\ next.routes = {o \in b.routes : o.id \notin r.removed} \cup Segments(r)
      /\ next.vias = b.vias \cup Vias(r)
      /\ next.keepouts = b.keepouts /\ next.footprints = b.footprints /\ next.pads = b.pads
      /\ next.zones = b.zones
  BY <1>1, <1>2, OfferApplied
<1> HIDE DEF next
<1>4. \A o \in fresh : o.id \notin Ids(b)
  BY OfferedIs DEF IdsOf
<1>5. /\ Objects(next) \subseteq Objects(b) \cup fresh
      /\ \A o \in Objects(b) \ Objects(next) : o \in b.routes /\ o.id \in r.removed
  BY <1>3 DEF Objects
<1>6. SemanticDiff(b, next) \subseteq Announced(b, op)
  <2>1. op.type = "route" /\ op.removed = r.removed /\ op.segments \cup op.vias = fresh
    OBVIOUS
  <2> HIDE DEF fresh
  <2>2. Announced(b, op) = r.removed \cup {a.id : a \in fresh}
    BY <2>1 DEF Announced
  <2> QED BY <1>5, <2>2 DEF SemanticDiff
<1>7. LockChanged(b, next) = {}
  <2> SUFFICES ASSUME NEW l \in Locks(b), <<l[1], ~l[2]>> \in Locks(next) PROVE FALSE
    BY DEF LockChanged
  <2>1. PICK o \in Objects(b) : l = <<o.id, o.lock>>
    BY DEF Locks, Objects
  <2>2. PICK q \in Objects(next) : <<l[1], ~l[2]>> = <<q.id, q.lock>>
    BY DEF Locks, Objects
  <2>3. o.id = q.id /\ q.lock = ~o.lock
    BY <2>1, <2>2
  <2>4. q \in Objects(b)
    <3>1. o.id \in Ids(b)
      BY DEF Ids
    <3> QED BY <1>4, <1>5, <2>3, <3>1
  <2>5. o = q
    BY <2>3, <2>4, OneOfAName
  <2> HIDE DEF fresh
  <2> QED BY <2>3, <2>5
<1>8. KeepsLocked(b, next)
  <2>1. ASSUME NEW o \in b.routes \cup b.vias \cup b.zones, o.lock PROVE o \in Objects(next)
    <3>1. CASE o \in b.routes
      <4>1. o.id \notin r.removed
        <5> SUFFICES ASSUME o.id \in r.removed PROVE FALSE
          OBVIOUS
        <5>1. r.removed \subseteq Removable(b)
          BY DEF WorkIsSound, CopyIsKept
        <5>2. PICK q \in b.routes : q.id = o.id /\ ~q.lock
          BY <5>1 DEF Removable, IdsOf, Unlocked
        <5>3. q = o
          BY <3>1, <5>2, OneOfAName DEF Objects
        <5> QED BY <2>1, <5>2, <5>3
      <4> QED BY <1>3, <3>1, <4>1 DEF Objects
    <3>2. CASE o \in b.vias \cup b.zones
      BY <1>3, <3>2 DEF Objects
    <3> QED BY <3>1, <3>2
  <2>2. {o \in b.routes \cup b.vias \cup b.zones : o.lock} \subseteq Objects(next)
    BY <2>1
  <2>3. \A f \in b.footprints :
          f.lock => \E g \in next.footprints : g.id = f.id /\ g.lock /\ g.pos = f.pos /\ g.layer = f.layer
    BY <1>3
  <2> QED BY <2>2, <2>3 DEF KeepsLocked
<1> QED BY <1>6, <1>7, <1>8 DEF next

\* An offer is executed with a clean verdict.
LEMMA OfferIsClean ==
  ASSUME IInv, NamesApart(board), Execute
  PROVE  /\ outcome' = [by |-> "router", verdict |-> "clean"]
         /\ NamesApart(board')
<1> DEFINE end == Applying(board, proposal.ops)
           verdict == Verdict(board, end)
           op == [type |-> "route", removed |-> route.removed, segments |-> Segments(route),
                  vias |-> Vias(route)]
           next == Applied(board, op)
<1>1. /\ proposal.ops # <<>> /\ outcome' = [by |-> proposal.by, verdict |-> verdict]
      /\ board' = IF verdict = "clean" THEN end.board ELSE board
  BY DEF Execute, Apply
<1>2. proposal # NoProposal
  BY <1>1 DEF NoProposal
<1>3. /\ proposal.by = "router" /\ proposal.ops = <<op>>
      /\ WorkIsSound(board, route.work, route.solved, route.removed) /\ BoardIsSound(board)
      /\ IdsOf(Segments(route) \cup Vias(route)) \cap route.removed = {}
      /\ Check(Laid(board, Found(route), route.removed)) = {}
  <2>1. /\ proposal = [by |-> "router", ops |-> <<op>>] /\ BoardIsSound(board)
        /\ WorkIsSound(board, route.work, route.solved, route.removed)
        /\ IdsOf(Segments(route) \cup Vias(route)) \cap route.removed = {}
        /\ Check(Laid(board, Found(route), route.removed)) = {}
    BY <1>2 DEF IInv, OfferIsSound
  <2> HIDE DEF op
  <2> QED BY <2>1
<1>4. /\ end.board = next /\ end.announced = Announced(board, op)
      /\ end.raised = (Refused(board, op) \/ ~Loadable(next))
  BY <1>3, OneOperation
<1>5. ~Refused(board, op) /\ Loadable(next)
  BY <1>3, OfferLoads
<1>6. /\ SemanticDiff(board, next) \subseteq Announced(board, op)
      /\ LockChanged(board, next) = {}
      /\ KeepsLocked(board, next)
  BY <1>3, OfferIsAnnounced
<1> DEFINE new == Found(route)
<1>7. new.segments = Segments(route) /\ new.vias = Vias(route)
  BY DEF Found
<1>8. /\ next = Laid(board, new, route.removed)
      /\ next.keepouts = board.keepouts /\ next.footprints = board.footprints
      /\ next.pads = board.pads /\ next.zones = board.zones
  <2>1. IsBoard(board)
    BY <1>3 DEF BoardIsSound
  <2>2. op = [type |-> "route", removed |-> route.removed, segments |-> new.segments, vias |-> new.vias]
    BY <1>7
  <2> HIDE DEF new, op
  <2> QED BY <2>1, <2>2, OfferApplied
<1>9. Check(next) = {}
  BY <1>3, <1>8
<1> HIDE DEF next, op, end, new
<1>10. verdict = "clean"
  BY <1>4, <1>5, <1>6, <1>9 DEF Verdict
<1>11. board' = next
  BY <1>1, <1>4, <1>10
<1> HIDE DEF verdict
<1>12. NamesApart(board')
  BY <1>8, <1>11 DEF NamesApart
<1> QED BY <1>1, <1>3, <1>10, <1>12

\* Whatever an offer of the router is, the adapter finds every change announced and no object
\* locked or lost, and the rules that were asked before it was made find nothing after it, as
\* long as nothing else on the board has a name of new copper.
THEOREM RouterIsExecutedAlways ==
  ASSUME \A b \in Boards : NamesApart(b)
  PROVE  Spec => []RouterIsExecuted
<1> DEFINE Inv == RouterIsExecuted /\ NamesApart(board)
<1>1. Init => Inv
  BY DEF Init, RouterIsExecuted, NoOutcome
<1>2. Inv /\ IInv /\ [Next]_vars => Inv'
  <2> SUFFICES ASSUME Inv, IInv, [Next]_vars PROVE Inv'
    OBVIOUS
  <2>1. CASE Execute
    BY <2>1, OfferIsClean DEF RouterIsExecuted
  <2>2. CASE RouteEnds
    BY <2>2 DEF RouteEnds, RouterIsExecuted, NoOutcome
  <2>3. CASE \/ RouteBegins \/ RouteFirst \/ EndFirst \/ NextRound \/ TakeNet \/ Try \/ RouteAgain
             \/ GiveUpNet \/ RouteLeaves \/ UNCHANGED vars
    <3>1. board' = board /\ outcome' = outcome
      BY <2>3 DEF RouteBegins, RouteFirst, EndFirst, NextRound, TakeNet, Try, RouteAgain, GiveUpNet,
                  RouteLeaves, vars, adapterVars
    <3> QED BY <3>1 DEF RouterIsExecuted
  <2> QED BY <2>1, <2>2, <2>3 DEF Next
<1> QED BY <1>1, <1>2, CallIsSoundAlways, PTL DEF Spec

-----------------------------------------------------------------------------
(* Conductors that meet touch. *)

IsConductor(o) == IsPad(o) \/ IsRoute(o) \/ IsVia(o)

\* A place where other copper can join a conductor: where it is, or one of its ends.
LiesAt(o, place) ==
  /\ place[2] \in o.layers
  /\ \/ o.kind \in {"pad", "via"} /\ place[1] = o.pos
     \/ o.kind = "route" /\ place[1] \in {o.start, o.end}

\* Squares are no negative numbers, and two of them sum up to nothing only when both are of zero.
LEMMA SquaresAre ==
  ASSUME NEW x \in Int, NEW y \in Int
  PROVE  /\ x * x >= 0 /\ y * y >= 0
         /\ x * x + y * y <= 0 => x = 0 /\ y = 0
<1>1. ASSUME NEW i \in Int PROVE i * i >= 0 /\ (i # 0 => i * i > 0)
  <2>1. CASE i = 0
    BY <2>1
  <2>2. CASE i > 0
    BY <2>2
  <2>3. CASE i < 0
    <3>1. -i > 0 /\ -i \in Int
      BY <2>3
    <3>2. (-i) * (-i) > 0
      BY <3>1
    <3>3. (-i) * (-i) = i * i
      OBVIOUS
    <3> QED BY <3>2, <3>3
  <2> QED BY <2>1, <2>2, <2>3
<1>2. x * x >= 0 /\ y * y >= 0 /\ (x # 0 => x * x > 0) /\ (y # 0 => y * y > 0)
  BY <1>1
<1>3. x * x \in Int /\ y * y \in Int
  OBVIOUS
<1> DEFINE a == x * x
           b == y * y
<1> HIDE DEF a, b
<1>4. a + b <= 0 => ~(a > 0) /\ ~(b > 0)
  BY <1>2, <1>3 DEF a, b
<1>5. x * x + y * y <= 0 => x = 0 /\ y = 0
  BY <1>2, <1>4 DEF a, b
<1> QED BY <1>2, <1>5

\* A point is within any distance of itself.
LEMMA PointIsNear ==
  ASSUME NEW p \in Points, NEW d \in Nat
  PROVE  PointDistanceWithin(p, p, d)
<1>1. p.x \in Int /\ p.y \in Int
  BY DEF Points
<1>2. p.x - p.x = 0 /\ p.y - p.y = 0 /\ d * d >= 0
  BY <1>1, SquaresAre
<1> QED BY <1>2 DEF PointDistanceWithin

\* The ends of a segment are within any distance of it.
LEMMA EndsAreNear ==
  ASSUME NEW a \in Points, NEW b \in Points, NEW d \in Nat
  PROVE  PointSegmentWithin(a, a, b, d) /\ PointSegmentWithin(b, a, b, d)
<1> DEFINE dx == b.x - a.x
           dy == b.y - a.y
<1>1. a.x \in Int /\ a.y \in Int /\ b.x \in Int /\ b.y \in Int /\ dx \in Int /\ dy \in Int
  BY DEF Points
<1>2. PointDistanceWithin(a, a, d) /\ PointDistanceWithin(b, b, d)
  BY PointIsNear
<1>3. /\ Least(a.x, b.x) - d <= a.x /\ a.x <= Most(a.x, b.x) + d
      /\ Least(a.y, b.y) - d <= a.y /\ a.y <= Most(a.y, b.y) + d
      /\ Least(a.x, b.x) - d <= b.x /\ b.x <= Most(a.x, b.x) + d
      /\ Least(a.y, b.y) - d <= b.y /\ b.y <= Most(a.y, b.y) + d
  BY <1>1 DEF Least, Most
<1>4. (a.x - a.x) * dx + (a.y - a.y) * dy <= 0
  <2>1. a.x - a.x = 0 /\ a.y - a.y = 0
    BY <1>1
  <2>2. 0 * dx + 0 * dy <= 0
    BY <1>1
  <2> HIDE DEF dx, dy
  <2> QED BY <2>1, <2>2
<1>5. PointSegmentWithin(a, a, b, d)
  BY <1>2, <1>3, <1>4 DEF PointSegmentWithin
<1>6. PointSegmentWithin(b, a, b, d)
  <2>1. dx * dx + dy * dy \in Int
    BY <1>1
  <2>2. CASE dx * dx + dy * dy > 0
    <3>1. dx * dx + dy * dy >= dx * dx + dy * dy
      BY <2>1
    <3> QED BY <1>2, <1>3, <2>2, <3>1 DEF PointSegmentWithin
  <2>3. CASE dx * dx + dy * dy <= 0
    <3>1. dx = 0 /\ dy = 0
      <4> HIDE DEF dx, dy
      <4> QED BY <1>1, <2>3, SquaresAre
    <3>2. a.x = b.x /\ a.y = b.y
      BY <1>1, <3>1
    <3>3. a = b
      BY <3>2 DEF Points
    <3> QED BY <1>5, <3>3
  <2> QED BY <2>1, <2>2, <2>3
<1> QED BY <1>5, <1>6

\* Segments with an end in common are within any distance of each other.
LEMMA SegmentsAreNear ==
  ASSUME NEW a \in Points, NEW b \in Points, NEW c \in Points, NEW d \in Points, NEW dist \in Nat,
         {a, b} \cap {c, d} # {}
  PROVE  SegmentsWithin(a, b, c, d, dist)
<1>1. /\ a.x \in Int /\ a.y \in Int /\ b.x \in Int /\ b.y \in Int
      /\ c.x \in Int /\ c.y \in Int /\ d.x \in Int /\ d.y \in Int
  BY DEF Points
<1>2. PICK p \in {a, b} : p \in {c, d}
  OBVIOUS
<1>3. /\ p.x \in {a.x, b.x} /\ p.x \in {c.x, d.x}
      /\ p.y \in {a.y, b.y} /\ p.y \in {c.y, d.y}
  BY <1>2
<1>4. /\ Most(Least(a.x, b.x), Least(c.x, d.x)) <= Least(Most(a.x, b.x), Most(c.x, d.x)) + dist
      /\ Most(Least(a.y, b.y), Least(c.y, d.y)) <= Least(Most(a.y, b.y), Most(c.y, d.y)) + dist
  BY <1>1, <1>3 DEF Least, Most
<1>5. PointSegmentWithin(a, c, d, dist) \/ PointSegmentWithin(b, c, d, dist)
  BY <1>2, EndsAreNear
<1> QED BY <1>4, <1>5 DEF SegmentsWithin

\* A pad touches what has an end or its middle in the middle of the pad.
LEMMA PadIsTouched ==
  ASSUME NEW p, IsPad(p), NEW o, IsRoute(o) \/ IsVia(o), NEW place, LiesAt(p, place), LiesAt(o, place)
  PROVE  PadTouches(p, o)
<1> DEFINE r == PadBounds(p)
<1>1. /\ p.kind = "pad" /\ p.pos \in Points /\ p.pos.x \in Int /\ p.pos.y \in Int
      /\ p.sx \in Nat /\ p.sy \in Nat /\ place[1] = p.pos
  BY DEF IsPad, LiesAt, Points
<1>2. p.layers \cap o.layers # {}
  BY DEF LiesAt
<1>3. /\ r.x = p.pos.x - p.sx \div 2 /\ r.y = p.pos.y - p.sy \div 2 /\ r.w = p.sx /\ r.h = p.sy
      /\ r.x \in Int /\ r.y \in Int
  BY <1>1 DEF PadBounds, Rect
<1>4. /\ r.x <= p.pos.x /\ p.pos.x <= r.x + r.w
      /\ r.y <= p.pos.y /\ p.pos.y <= r.y + r.h
  <2>1. \A n \in Nat : n \div 2 \in Nat /\ n \div 2 <= n
    OBVIOUS
  <2>2. p.sx \div 2 \in Nat /\ p.sx \div 2 <= p.sx /\ p.sy \div 2 \in Nat /\ p.sy \div 2 <= p.sy
    BY <1>1, <2>1
  <2> HIDE DEF r
  <2> DEFINE hx == p.sx \div 2
             hy == p.sy \div 2
  <2> HIDE DEF hx, hy
  <2>3. r.x = p.pos.x - hx /\ r.y = p.pos.y - hy
    BY <1>3 DEF hx, hy
  <2>4. hx \in Nat /\ hx <= p.sx /\ hy \in Nat /\ hy <= p.sy
    BY <2>2 DEF hx, hy
  <2> QED BY <1>1, <1>3, <2>3, <2>4
<1> HIDE DEF r
<1>5. CASE IsRoute(o)
  <2> DEFINE d == o.width \div 2
  <2>1. /\ o.kind = "route" /\ d \in Nat /\ o.start \in Points /\ o.end \in Points
        /\ p.pos \in {o.start, o.end}
    BY <1>1, <1>5 DEF IsRoute, LiesAt
  <2> HIDE DEF d
  <2>2. RectContains(r, o.start) \/ RectContains(r, o.end)
    BY <1>4, <2>1 DEF RectContains
  <2>3. /\ Most(r.x - d, Least(o.start.x, o.end.x)) <= Least(r.x + r.w + d, Most(o.start.x, o.end.x))
        /\ Most(r.y - d, Least(o.start.y, o.end.y)) <= Least(r.y + r.h + d, Most(o.start.y, o.end.y))
    <3>1. o.start.x \in Int /\ o.start.y \in Int /\ o.end.x \in Int /\ o.end.y \in Int
      BY <2>1 DEF Points
    <3>2. p.pos.x \in {o.start.x, o.end.x} /\ p.pos.y \in {o.start.y, o.end.y}
      BY <2>1
    <3> QED BY <1>1, <1>3, <1>4, <2>1, <3>1, <3>2 DEF Least, Most
  <2>4. SegmentRectWithin(o.start, o.end, r, d)
    BY <2>2, <2>3 DEF SegmentRectWithin, SegmentIntersectsRect
  <2> QED BY <1>2, <2>1, <2>4 DEF PadTouches, r, d
<1>6. CASE IsVia(o)
  <2> DEFINE d == o.diameter \div 2
  <2>1. o.kind = "via" /\ d \in Nat /\ o.pos = p.pos
    BY <1>1, <1>6 DEF IsVia, LiesAt
  <2> HIDE DEF d
  <2>2. /\ Most(Most(r.x - p.pos.x, 0), p.pos.x - (r.x + r.w)) = 0
        /\ Most(Most(r.y - p.pos.y, 0), p.pos.y - (r.y + r.h)) = 0
    BY <1>1, <1>3, <1>4 DEF Most
  <2>3. 0 * 0 + 0 * 0 <= d * d
    BY <2>1, SquaresAre
  <2>4. PointRectWithin(p.pos, r, d)
    BY <2>2, <2>3 DEF PointRectWithin
  <2> QED BY <1>2, <2>1, <2>4 DEF PadTouches, r, d
<1> QED BY <1>5, <1>6

\* Two conductors at one place touch, unless they are two pads.
LEMMA MeetingTouches ==
  ASSUME NEW o, IsConductor(o), NEW q, IsConductor(q), NEW place, LiesAt(o, place), LiesAt(q, place),
         ~(o.kind = "pad" /\ q.kind = "pad")
  PROVE  ConductiveContact(o, q)
<1>1. o.layers \cap q.layers # {}
  BY DEF LiesAt
<1>2. CASE IsPad(o)
  <2>1. o.kind = "pad" /\ (IsRoute(q) \/ IsVia(q))
    BY <1>2 DEF IsPad, IsConductor
  <2> QED BY <1>2, <2>1, PadIsTouched DEF ConductiveContact, TouchesInOrder
<1>3. CASE IsPad(q)
  <2>1. q.kind = "pad" /\ (IsRoute(o) \/ IsVia(o))
    BY <1>3 DEF IsPad, IsConductor
  <2> QED BY <1>3, <2>1, PadIsTouched DEF ConductiveContact, TouchesInOrder
<1>4. CASE IsRoute(o) /\ IsRoute(q)
  <2> DEFINE d == o.width \div 2 + q.width \div 2
  <2>1. /\ o.kind = "route" /\ q.kind = "route" /\ d \in Nat
        /\ o.start \in Points /\ o.end \in Points /\ q.start \in Points /\ q.end \in Points
    BY <1>4 DEF IsRoute
  <2>2. place[1] \in {o.start, o.end} /\ place[1] \in {q.start, q.end}
    BY <2>1 DEF LiesAt
  <2> HIDE DEF d
  <2>3. SegmentsWithin(o.start, o.end, q.start, q.end, d)
    BY <2>1, <2>2, SegmentsAreNear
  <2> QED BY <1>1, <2>1, <2>3 DEF ConductiveContact, TouchesInOrder, d
<1>5. ASSUME NEW r, NEW v, IsRoute(r), IsVia(v), LiesAt(r, place), LiesAt(v, place)
      PROVE  TouchesInOrder(r, v)
  <2> DEFINE d == r.width \div 2 + v.diameter \div 2
  <2>1. /\ r.kind = "route" /\ v.kind = "via" /\ d \in Nat
        /\ r.start \in Points /\ r.end \in Points
    BY <1>5 DEF IsRoute, IsVia
  <2>2. v.pos \in {r.start, r.end} /\ r.layers \cap v.layers # {}
    BY <1>5, <2>1 DEF LiesAt
  <2> HIDE DEF d
  <2>3. PointSegmentWithin(v.pos, r.start, r.end, d)
    BY <2>1, <2>2, EndsAreNear
  <2> QED BY <2>1, <2>2, <2>3 DEF TouchesInOrder, d
<1>6. CASE IsVia(o) /\ IsVia(q)
  <2> DEFINE d == o.diameter \div 2 + q.diameter \div 2
  <2>1. o.kind = "via" /\ q.kind = "via" /\ d \in Nat /\ o.pos \in Points
    BY <1>6 DEF IsVia
  <2>2. o.pos = q.pos
    BY <2>1 DEF LiesAt
  <2> HIDE DEF d
  <2>3. PointDistanceWithin(o.pos, q.pos, d)
    BY <2>1, <2>2, PointIsNear
  <2> QED BY <1>1, <2>1, <2>3 DEF ConductiveContact, TouchesInOrder, d
<1>7. CASE IsRoute(o) /\ IsVia(q)
  BY <1>5, <1>7 DEF ConductiveContact
<1>8. CASE IsVia(o) /\ IsRoute(q)
  BY <1>5, <1>8 DEF ConductiveContact
<1> QED BY <1>2, <1>3, <1>4, <1>6, <1>7, <1>8 DEF IsConductor

-----------------------------------------------------------------------------
(* The copper of a way leads from its first place to its last. *)

\* A way over the grid, from any place to any other.
IsPath(w) ==
  /\ Len(w) \in Nat \ {0}
  /\ \A i \in 1 .. Len(w) : w[i][1] \in Points
  /\ \A i \in 1 .. Len(w) - 1 : IsStep(w[i], w[i + 1])

\* The way goes to another point from here.
Advances(w, i) == w[i][1] # w[i + 1][1]

\* Where a way stops to advance, or begins to, it turns.
LEMMA NoTurnNoChange ==
  ASSUME NEW w, IsPath(w), NEW i \in 2 .. Len(w) - 1, i \notin Turns(w)
  PROVE  Advances(w, i - 1) <=> Advances(w, i)
<1> DEFINE step(k) == Point(w[k + 1][1].x - w[k][1].x, w[k + 1][1].y - w[k][1].y)
<1>1. Len(w) \in Nat /\ i \in 1 .. Len(w) /\ i + 1 \in 1 .. Len(w) /\ i - 1 \in 1 .. Len(w)
  BY DEF IsPath
<1>2. step(i - 1) = step(i)
  BY <1>1 DEF Turns
<1> DEFINE p == w[i - 1][1]
           q == w[i][1]
           r == w[i + 1][1]
<1>3. p \in Points /\ q \in Points /\ r \in Points
  BY <1>1 DEF IsPath
<1>4. step(i - 1) = Point(q.x - p.x, q.y - p.y) /\ step(i) = Point(r.x - q.x, r.y - q.y)
  <2>1. (i - 1) + 1 = i
    OBVIOUS
  <2> QED BY <2>1
<1>5. (p # q <=> Advances(w, i - 1)) /\ (q # r <=> Advances(w, i))
  <2>1. (i - 1) + 1 = i
    OBVIOUS
  <2> QED BY <2>1 DEF Advances
<1> HIDE DEF p, q, r, step
<1>6. q.x - p.x = r.x - q.x /\ q.y - p.y = r.y - q.y
  BY <1>2, <1>4 DEF Point
<1>7. p = q <=> q = r
  <2>1. /\ p.x \in Int /\ q.x \in Int /\ r.x \in Int /\ p.y \in Int /\ q.y \in Int /\ r.y \in Int
        /\ p = [x |-> p.x, y |-> p.y] /\ q = [x |-> q.x, y |-> q.y] /\ r = [x |-> r.x, y |-> r.y]
    BY <1>3 DEF Points
  <2>2. p.x = q.x <=> q.x = r.x
    BY <1>6, <2>1
  <2>3. p.y = q.y <=> q.y = r.y
    BY <1>6, <2>1
  <2> QED BY <2>1, <2>2, <2>3
<1> QED BY <1>5, <1>7

\* The run that ends where a way turns after it has advanced, on the layer of this place.
LEMMA RunIs ==
  ASSUME NEW w, IsPath(w), NEW k \in Turns(w), k > 1, Advances(w, k - 1)
  PROVE  \E s \in RunStarts(w) : s < k /\ RunEnd(w, s) = k /\ w[s][2] = w[k][2]
<1> DEFINE D == {d \in 1 .. k - 1 : k - d \in Turns(w)}
<1>1. Len(w) \in Nat \ {0} /\ Turns(w) \subseteq 1 .. Len(w) /\ k \in 1 .. Len(w)
  BY DEF IsPath, Turns
<1>2. 1 \in Turns(w)
  BY <1>1 DEF Turns
<1>3. D # {} /\ D \subseteq Nat
  <2>1. k - 1 \in 1 .. k - 1 /\ k - (k - 1) = 1
    BY <1>1
  <2> QED BY <1>1, <1>2, <2>1
<1>4. PICK d \in D : \A m \in D : d <= m
  BY <1>3, LeastNumber
<1> DEFINE s == k - d
<1>5. d \in 1 .. k - 1 /\ s \in Turns(w) /\ s \in 1 .. k - 1 /\ s < k
  BY <1>1, <1>4
<1>6. ASSUME NEW j \in s + 1 .. k - 1 PROVE j \notin Turns(w)
  <2>1. j \in Turns(w) => k - j \in D
    <3>1. k - (k - j) = j /\ k - j \in 1 .. k - 1
      BY <1>1, <1>5
    <3> QED BY <3>1
  <2>2. k - j < d
    BY <1>1, <1>5
  <2> QED BY <1>1, <1>4, <1>5, <2>1, <2>2
<1> HIDE DEF D
<1> DEFINE G == {e \in Nat : Advances(w, (k - 1) - e) /\ w[(k - 1) - e][2] = w[k][2]}
<1>7. ASSUME NEW j \in 1 .. k - 1, Advances(w, j) PROVE w[j][2] = w[j + 1][2]
  <2>1. IsStep(w[j], w[j + 1])
    BY <1>1 DEF IsPath
  <2> QED BY <1>7, <2>1 DEF IsStep, Advances
<1>8. 0 \in G
  <2>1. (k - 1) - 0 = k - 1 /\ (k - 1) + 1 = k /\ k - 1 \in 1 .. k - 1
    BY <1>1
  <2> QED BY <1>7, <2>1
<1>9. ASSUME NEW e \in 0 .. (d - 1) - 1, e \in G PROVE e + 1 \in G
  <2> DEFINE j == (k - 1) - e
  <2>1. j \in s + 1 .. k - 1 /\ (k - 1) - (e + 1) = j - 1 /\ j - 1 \in 1 .. k - 1 /\ (j - 1) + 1 = j
        /\ j \in 2 .. Len(w) - 1 /\ e + 1 \in Nat
    BY <1>1, <1>5
  <2>2. Advances(w, j) /\ w[j][2] = w[k][2]
    BY <1>9
  <2> HIDE DEF j
  <2>3. Advances(w, j - 1)
    BY <1>6, <2>1, <2>2, NoTurnNoChange
  <2>4. w[j - 1][2] = w[j][2]
    BY <1>7, <2>1, <2>3
  <2> QED BY <2>1, <2>2, <2>3, <2>4
<1>10. d - 1 \in G
  <2> HIDE DEF G
  <2>1. d - 1 \in Nat
    BY <1>1, <1>5
  <2>2. 0 .. d - 1 \subseteq G
    BY <2>1, <1>8, <1>9, FromOn
  <2> QED BY <2>1, <2>2
<1>11. Advances(w, s) /\ w[s][2] = w[k][2]
  <2>1. (k - 1) - (d - 1) = s
    BY <1>1, <1>5
  <2> HIDE DEF s
  <2> QED BY <1>10, <2>1
<1> HIDE DEF s, G
<1>12. s \in Turns(w) \ {Len(w)}
  BY <1>1, <1>5
<1>13. s \in RunStarts(w)
  BY <1>11, <1>12 DEF RunStarts, Advances
<1>14. RunEnd(w, s) = k
  <2>1. /\ RunEnd(w, s) \in s + 1 .. Len(w) /\ RunEnd(w, s) \in Turns(w)
        /\ \A j \in Turns(w) : s < j => RunEnd(w, s) <= j
    BY <1>1, <1>12, RunEndIs
  <2>2. RunEnd(w, s) <= k
    BY <1>5, <2>1
  <2>3. RunEnd(w, s) \notin s + 1 .. k - 1
    BY <1>6, <2>1
  <2> HIDE DEF Turns, RunEnd
  <2> QED BY <1>1, <1>5, <2>1, <2>2, <2>3
<1> QED BY <1>5, <1>11, <1>13, <1>14

\* Copper follows a way: it has a route for every run and a via for every change of the layer.
Follows(c, w) ==
  /\ \A i \in RunStarts(w) :
       \E o \in c.segments : /\ o.start = w[i][1] /\ o.end = w[RunEnd(w, i)][1]
                             /\ o.layers = {w[i][2]}
  /\ \A i \in 1 .. Len(w) - 1 :
       w[i][2] # w[i + 1][2] =>
         \E o \in c.vias : o.pos = w[i][1] /\ {w[i][2], w[i + 1][2]} \subseteq o.layers

\* What touches a piece of it is in it.
IsClosed(X, S) == \A o \in X : \A q \in S : ConductiveContact(o, q) => q \in X

\* What has a piece at the beginning of a way has one at its end.
LEMMA WayLeads ==
  ASSUME NEW w, IsPath(w), NEW c, Follows(c, w), NEW S, \A o \in S : IsConductor(o),
         c.segments \subseteq S, \A o \in c.segments : IsRoute(o),
         c.vias \subseteq S, \A o \in c.vias : IsVia(o),
         NEW X \in SUBSET S, IsClosed(X, S), \E o \in X : LiesAt(o, w[1])
  PROVE  \E o \in X : LiesAt(o, w[Len(w)])
<1> DEFINE Reached_(k) == \E o \in X : LiesAt(o, w[k])
           Q == {k \in 1 .. Len(w) : k \in Turns(w) \/ (k > 1 /\ w[k - 1][2] # w[k][2])}
           B == {k \in Q : ~Reached_(k)}
<1>1. Len(w) \in Nat \ {0} /\ Len(w) \in Turns(w) /\ 1 \in Turns(w) /\ Turns(w) \subseteq 1 .. Len(w)
  <2>1. Len(w) \in Nat \ {0}
    BY DEF IsPath
  <2>2. Len(w) \in 1 .. Len(w) /\ 1 \in 1 .. Len(w)
    BY <2>1
  <2> QED BY <2>1, <2>2 DEF Turns
<1>4. /\ Q \subseteq 1 .. Len(w)
      /\ \A j \in 1 .. Len(w) : j \in Turns(w) => j \in Q
      /\ \A j \in 1 .. Len(w) : j > 1 /\ w[j - 1][2] # w[j][2] => j \in Q
      /\ \A j \in Q : j \in Turns(w) \/ (j > 1 /\ w[j - 1][2] # w[j][2])
  <2> DEFINE Changes(j) == w[j - 1][2] # w[j][2]
             T == Turns(w)
  <2>1. Q = {k \in 1 .. Len(w) : k \in T \/ (k > 1 /\ Changes(k))}
    OBVIOUS
  <2> HIDE DEF Q, Changes, T
  <2>2. /\ Q \subseteq 1 .. Len(w)
        /\ \A j \in 1 .. Len(w) : j \in T => j \in Q
        /\ \A j \in 1 .. Len(w) : j > 1 /\ Changes(j) => j \in Q
        /\ \A j \in Q : j \in T \/ (j > 1 /\ Changes(j))
    BY <2>1
  <2> QED BY <2>2 DEF Changes, T
<1>5. /\ B \subseteq Q /\ \A j \in Q : j \notin B => Reached_(j)
      /\ \A j \in B : ~Reached_(j)
  OBVIOUS
<1> HIDE DEF Q, B
<1>2. ASSUME NEW k, Reached_(k), NEW q \in S, q.kind # "pad", LiesAt(q, w[k])
      PROVE  q \in X
  <2>1. PICK o \in X : LiesAt(o, w[k])
    BY <1>2
  <2>2. ConductiveContact(o, q)
    BY <1>2, <2>1, MeetingTouches
  <2> QED BY <2>1, <2>2 DEF IsClosed
<1>3. B = {}
  <2> SUFFICES ASSUME B # {} PROVE FALSE
    OBVIOUS
  <2>1. PICK k \in B : \A j \in B : k <= j
    <3>1. B \subseteq Nat
      BY <1>1, <1>4, <1>5
    <3> QED BY <3>1, LeastNumber
  <2>2. k \in 1 .. Len(w) /\ k \in Q /\ ~Reached_(k) /\ k # 1
    BY <1>4, <1>5, <2>1
  <2>3. ASSUME NEW j \in Q, j < k PROVE Reached_(j)
    <3>1. j \notin B
      BY <1>1, <1>4, <2>1, <2>2, <2>3
    <3> QED BY <1>5, <2>3, <3>1
  <2>4. k > 1 /\ k - 1 \in 1 .. Len(w) - 1 /\ (k - 1) + 1 = k /\ k - 1 \in 1 .. Len(w) /\ k - 1 < k
    BY <1>1, <2>2
  <2>5. IsStep(w[k - 1], w[k])
    BY <2>4 DEF IsPath
  <2>6. CASE w[k - 1][2] # w[k][2]
    <3>1. w[k - 1][1] = w[k][1]
      BY <2>5, <2>6 DEF IsStep
    <3>2. k - 1 \in Q
      <4>1. CASE k - 1 = 1
        BY <1>1, <1>4, <2>4, <4>1
      <4>2. CASE k - 1 # 1
        <5>1. k - 1 \in 2 .. Len(w) - 1 /\ (k - 1) - 1 \in 1 .. Len(w) - 1 /\ ((k - 1) - 1) + 1 = k - 1
          BY <1>1, <2>4, <4>2
        <5>2. CASE Advances(w, (k - 1) - 1)
          <6>1. ~Advances(w, k - 1)
            BY <2>4, <3>1 DEF Advances
          <6>2. k - 1 \in Turns(w)
            BY <5>1, <5>2, <6>1, NoTurnNoChange
          <6> QED BY <1>4, <5>1, <6>2
        <5>3. CASE ~Advances(w, (k - 1) - 1)
          <6>1. IsStep(w[(k - 1) - 1], w[k - 1])
            BY <5>1 DEF IsPath
          <6>2. w[(k - 1) - 1][2] # w[k - 1][2]
            BY <5>1, <5>3, <6>1 DEF IsStep, Advances
          <6> DEFINE j == k - 1
          <6>3. j \in 1 .. Len(w) /\ j > 1 /\ w[j - 1][2] # w[j][2]
            BY <2>4, <5>1, <6>2
          <6> HIDE DEF j
          <6>4. j \in Q
            BY <1>4, <6>3
          <6> QED BY <6>4 DEF j
        <5> QED BY <5>2, <5>3
      <4> QED BY <4>1, <4>2
    <3>3. Reached_(k - 1)
      BY <2>3, <2>4, <3>2
    <3>4. PICK v \in c.vias : v.pos = w[k - 1][1] /\ {w[k - 1][2], w[k][2]} \subseteq v.layers
      BY <2>4, <2>6 DEF Follows
    <3>5. v.kind = "via" /\ v \in S
      BY <3>4 DEF IsVia
    <3>6. LiesAt(v, w[k - 1]) /\ LiesAt(v, w[k])
      BY <3>1, <3>4, <3>5 DEF LiesAt
    <3>7. v \in X
      <4> HIDE DEF Reached_
      <4>1. v.kind # "pad"
        BY <3>5
      <4> QED BY <1>2, <3>3, <3>5, <3>6, <4>1
    <3> QED BY <2>2, <3>6, <3>7
  <2>7. CASE w[k - 1][2] = w[k][2]
    <3>1. k \in Turns(w) /\ Advances(w, k - 1)
      BY <1>4, <2>2, <2>4, <2>5, <2>7 DEF IsStep, Advances
    <3>2. PICK s \in RunStarts(w) : s < k /\ RunEnd(w, s) = k /\ w[s][2] = w[k][2]
      BY <2>4, <3>1, RunIs
    <3>3. s \in Q
      BY <1>1, <1>4, <3>2 DEF RunStarts
    <3>4. Reached_(s)
      BY <2>3, <3>2, <3>3
    <3>5. PICK o \in c.segments : /\ o.start = w[s][1] /\ o.end = w[RunEnd(w, s)][1]
                                  /\ o.layers = {w[s][2]}
      BY DEF Follows
    <3>6. o.kind = "route" /\ o \in S
      BY <3>5 DEF IsRoute
    <3>7. LiesAt(o, w[s]) /\ LiesAt(o, w[k])
      BY <3>2, <3>5, <3>6 DEF LiesAt
    <3>8. o \in X
      <4> HIDE DEF Reached_
      <4>1. o.kind # "pad"
        BY <3>6
      <4> QED BY <1>2, <3>4, <3>6, <3>7, <4>1
    <3> QED BY <2>2, <3>7, <3>8
  <2> QED BY <2>6, <2>7
<1>6. Len(w) \in Q /\ Len(w) \notin B
  BY <1>1, <1>3, <1>4
<1> QED BY <1>5, <1>6

\* The copper of the ways of a net follows each of them.
LEMMA CopperFollows ==
  ASSUME NEW b, NEW n, NEW ways \in Seq(Seq(Places(b))), NEW i \in 1 .. Len(ways)
  PROVE  Follows(Copper(b, n, ways), ways[i])
<1> DEFINE used == {o.id : o \in b.routes \cup b.vias}
           runs == FlattenSeq([k \in 1 .. Len(ways) |-> Runs(ways[k])])
           bores == FlattenSeq([k \in 1 .. Len(ways) |-> Bores(ways[k])])
           run(k) == [kind |-> "route", id |-> FreshId(<<"route", n, k>>, used), net |-> n,
                      start |-> runs[k][1][1], end |-> runs[k][2][1], width |-> Width[b.class[n]],
                      layers |-> {runs[k][1][2]}, lock |-> FALSE]
           bore(k) == [kind |-> "via", id |-> FreshId(<<"via", n, k>>, used), net |-> n,
                       pos |-> bores[k][1], diameter |-> ViaSize[b.class[n]], layers |-> b.layers,
                       lock |-> FALSE]
           c == Copper(b, n, ways)
           w == ways[i]
<1>1. /\ \A k \in DOMAIN runs : run(k) \in c.segments
      /\ \A k \in DOMAIN bores : bore(k) \in c.vias
  BY DEF Copper
<1>2. /\ \A k : /\ run(k).start = runs[k][1][1] /\ run(k).end = runs[k][2][1]
                /\ run(k).layers = {runs[k][1][2]}
      /\ \A k : bore(k).pos = bores[k][1] /\ bore(k).layers = b.layers
  OBVIOUS
<1>3. /\ Range(runs) = UNION {Range(Runs(ways[k])) : k \in 1 .. Len(ways)}
      /\ Range(bores) = UNION {Range(Bores(ways[k])) : k \in 1 .. Len(ways)}
  <2> HIDE DEF run, bore, c, w
  <2> DEFINE T == Places(b)
  <2>1. ways \in Seq(Seq(T))
    OBVIOUS
  <2> HIDE DEF T
  <2>2. LET rs == FlattenSeq([k \in 1 .. Len(ways) |-> Runs(ways[k])])
            bs == FlattenSeq([k \in 1 .. Len(ways) |-> Bores(ways[k])])
        IN  /\ rs \in Seq(T \X T) /\ bs \in Seq(T)
            /\ Range(rs) = UNION {Range(Runs(ways[k])) : k \in 1 .. Len(ways)}
            /\ Range(bs) = UNION {Range(Bores(ways[k])) : k \in 1 .. Len(ways)}
    BY <2>1, RunsOfWaysAre
  <2> QED BY <2>2
<1>4. w \in Seq(Places(b)) /\ Len(w) \in Nat
  <2>1. w \in Seq(Places(b))
    BY ElementOfSeq
  <2> HIDE DEF w
  <2> QED BY <2>1, LenProperties
<1> HIDE DEF runs, bores, run, bore, c
<1>5. Range(Runs(w)) \subseteq Range(runs) /\ Range(Bores(w)) \subseteq Range(bores)
  BY <1>3
<1> HIDE DEF w
<1>6. /\ Range(Runs(w)) = {<<w[k], w[RunEnd(w, k)]>> : k \in RunStarts(w)}
      /\ Range(Bores(w)) = {w[k] : k \in {k \in 1 .. Len(w) - 1 : w[k][2] # w[k + 1][2]}}
  BY <1>4, RunsAre, BoresAre
<1>7. ASSUME NEW k \in RunStarts(w)
      PROVE  \E o \in c.segments : /\ o.start = w[k][1] /\ o.end = w[RunEnd(w, k)][1]
                                   /\ o.layers = {w[k][2]}
  <2>1. <<w[k], w[RunEnd(w, k)]>> \in Range(runs)
    BY <1>5, <1>6
  <2>2. PICK j \in DOMAIN runs : runs[j] = <<w[k], w[RunEnd(w, k)]>>
    BY <2>1 DEF Range
  <2>3. run(j) \in c.segments
    BY <1>1
  <2>4. runs[j][1] = w[k] /\ runs[j][2] = w[RunEnd(w, k)]
    BY <2>2
  <2>5. /\ run(j).start = w[k][1] /\ run(j).end = w[RunEnd(w, k)][1]
        /\ run(j).layers = {w[k][2]}
    BY <1>2, <2>4
  <2> QED BY <2>3, <2>5
<1>8. ASSUME NEW k \in 1 .. Len(w) - 1, w[k][2] # w[k + 1][2]
      PROVE  \E o \in c.vias : o.pos = w[k][1] /\ {w[k][2], w[k + 1][2]} \subseteq o.layers
  <2>1. w[k] \in Range(bores)
    BY <1>5, <1>6, <1>8
  <2>2. PICK j \in DOMAIN bores : bores[j] = w[k]
    BY <2>1 DEF Range
  <2>3. bore(j) \in c.vias /\ bore(j).pos = w[k][1] /\ bore(j).layers = b.layers
    BY <1>1, <1>2, <2>2
  <2>4. w[k] \in Places(b) /\ w[k + 1] \in Places(b)
    <3>1. k \in 1 .. Len(w) /\ k + 1 \in 1 .. Len(w)
      BY <1>4
    <3> QED BY <1>4, <3>1, ElementOfSeq
  <2>5. w[k][2] \in b.layers /\ w[k + 1][2] \in b.layers
    BY <2>4 DEF Places
  <2> QED BY <2>3, <2>5
<1> QED BY <1>7, <1>8 DEF Follows, c, w

-----------------------------------------------------------------------------
(* What is found for a net joins its pads. *)

\* The pads of a net and copper that is found for it.
Pieces(b, n, c) == OfNet(b.pads, n) \cup c.segments \cup c.vias

\* No part of it with a pad is apart from the rest.
JoinsPads(b, n, c) ==
  \A X \in SUBSET Pieces(b, n, c) :
    IsClosed(X, Pieces(b, n, c)) /\ X \cap OfNet(b.pads, n) # {} => OfNet(b.pads, n) \subseteq X

\* A part that touches nothing outside has nothing outside that touches it.
LEMMA RestIsClosed ==
  ASSUME NEW S, NEW X \in SUBSET S, IsClosed(X, S)
  PROVE  IsClosed(S \ X, S)
<1> SUFFICES ASSUME NEW o \in S \ X, NEW q \in S, ConductiveContact(o, q), q \in X PROVE FALSE
  BY DEF IsClosed
<1>1. ConductiveContact(q, o)
  BY DEF ConductiveContact
<1> QED BY <1>1 DEF IsClosed

\* The copper of the ways of a net joins its pads, if these lie apart.
LEMMA PadsAreJoined ==
  ASSUME NEW b, BoardIsSound(b), PadsApart(b), NEW work, CopyIsSound(b, work), NEW n, Routable(b, n),
         NEW cong, NEW ways \in NetWays(work, n, cong), ways # NoWay
  PROVE  JoinsPads(b, n, Copper(work, n, ways))
<1> DEFINE P == OfNet(b.pads, n)
           pads == PadsInOrder(work, n)
           c == Copper(work, n, ways)
           S == Pieces(b, n, c)
           N == Len(pads)
<1>1. /\ WaysJoin(work, pads, ways) /\ pads \in Seq(P) /\ N \in Nat \ {0} /\ Range(pads) = P
      /\ CopperIsSound(work, n, c)
  BY SearchIs
<1>2. IsBoard(b) /\ work.outline = b.outline /\ work.outline \in Rects
  BY CopyIs DEF BoardIsSound, IsBoard
<1>3. /\ \A o \in P : IsPad(o) /\ o \in b.pads /\ o.net = n
      /\ \A o \in c.segments : IsRoute(o)
      /\ \A o \in c.vias : IsVia(o)
  BY <1>1, <1>2 DEF IsBoard, OfNet, CopperIsSound, IsRun, IsBore
<1> HIDE DEF P, pads, c
<1>4. S = P \cup c.segments \cup c.vias
  BY DEF Pieces, P
<1> HIDE DEF S
<1>5. \A o \in S : IsConductor(o) /\ (o.kind = "pad" => o \in P)
  BY <1>3, <1>4 DEF IsConductor, IsRoute, IsVia
<1>6. /\ ways \in Seq(Seq(Places(work))) /\ Len(ways) = N - 1
      /\ \A i \in 1 .. Len(ways) : IsWay(work, pads[i], pads[i + 1], ways[i])
  BY <1>1 DEF WaysJoin
<1>7. \A i \in 1 .. N : pads[i] \in P
  BY <1>1, ElementOfSeq
<1>8. ASSUME NEW X \in SUBSET S, IsClosed(X, S), NEW i \in 1 .. N - 1, pads[i] \in X
      PROVE  pads[i + 1] \in X
  <2> DEFINE w == ways[i]
             target == pads[i + 1]
  <2>1. i \in 1 .. Len(ways) /\ i \in 1 .. N /\ i + 1 \in 1 .. N
    BY <1>1, <1>6
  <2>2. IsWay(work, pads[i], target, w) /\ target \in P
    BY <1>6, <1>7, <2>1
  <2>3. Follows(c, w)
    BY <1>6, <2>1, CopperFollows DEF c
  <2> HIDE DEF w, target
  <2>4. PICK place \in PlacesOf(target) : IsWayTo(work, PlacesOf(pads[i]), place, w)
    BY <2>2 DEF IsWay
  <2>5. /\ w \in Seq(Places(work)) /\ Len(w) \in Nat \ {0}
        /\ w[1] \in PlacesOf(pads[i]) /\ w[Len(w)] = place
        /\ \A k \in 1 .. Len(w) - 1 : IsStep(w[k], w[k + 1])
    BY <2>4 DEF IsWayTo
  <2>6. IsPath(w)
    <3>1. \A k \in 1 .. Len(w) : w[k] \in Places(work)
      BY <2>5, ElementOfSeq
    <3>2. \A k \in 1 .. Len(w) : w[k][1] \in Points
      BY <1>2, <3>1, GridIs DEF Places
    <3> QED BY <2>5, <3>2 DEF IsPath
  <2>7. ASSUME NEW p \in P, NEW at \in PlacesOf(p) PROVE LiesAt(p, at)
    <3>1. at[1] = p.pos /\ at[2] \in p.layers
      BY DEF PlacesOf
    <3>2. p.kind = "pad"
      BY <1>3 DEF IsPad
    <3> QED BY <3>1, <3>2 DEF LiesAt
  <2>8. LiesAt(pads[i], w[1]) /\ LiesAt(target, place)
    BY <1>7, <2>1, <2>2, <2>4, <2>5, <2>7
  <2>9. PICK o \in X : LiesAt(o, place)
    <3>1. \E o \in X : LiesAt(o, w[Len(w)])
      <4>1. /\ \A o \in S : IsConductor(o)
            /\ c.segments \subseteq S /\ \A o \in c.segments : IsRoute(o)
            /\ c.vias \subseteq S /\ \A o \in c.vias : IsVia(o)
        BY <1>3, <1>4, <1>5
      <4>2. \E o \in X : LiesAt(o, w[1])
        BY <1>8, <2>8
      <4> QED BY <1>8, <2>3, <2>6, <4>1, <4>2, WayLeads
    <3> QED BY <2>5, <3>1
  <2>10. CASE o.kind = "pad"
    <3>1. o \in b.pads /\ target \in b.pads /\ o.net = target.net /\ target.kind = "pad"
      BY <1>3, <1>5, <2>2, <2>10 DEF IsPad
    <3>2. o.pos = target.pos /\ o.layers \cap target.layers # {}
      BY <2>8, <2>9, <2>10, <3>1 DEF LiesAt
    <3>3. o.net \in DOMAIN b.class
      BY <1>3, <1>5, <2>2, <2>10 DEF Routable
    <3>4. o = target
      BY <3>1, <3>2, <3>3 DEF PadsApart
    <3> QED BY <3>4 DEF target
  <2>11. CASE o.kind # "pad"
    <3>1. target \in S /\ IsConductor(o) /\ IsConductor(target)
      BY <1>4, <1>5, <2>2
    <3>2. ConductiveContact(o, target)
      BY <2>8, <2>9, <2>11, <3>1, MeetingTouches
    <3> QED BY <1>8, <3>1, <3>2 DEF IsClosed, target
  <2> QED BY <2>10, <2>11
<1>9. ASSUME NEW X \in SUBSET S, IsClosed(X, S), NEW k \in 1 .. N, pads[k] \in X,
             NEW j \in k .. N
      PROVE  pads[j] \in X
  <2> DEFINE G == {i \in Nat : pads[i] \in X}
  <2>1. k \in G /\ \A i \in k .. N - 1 : i \in G => i + 1 \in G
    <3>1. \A i \in k .. N - 1 : i \in 1 .. N - 1 /\ i + 1 \in Nat
      BY <1>1
    <3> QED BY <1>8, <1>9, <3>1
  <2> HIDE DEF G
  <2>2. k .. N \subseteq G
    <3>1. k \in Nat /\ N \in Nat
      BY <1>1
    <3> HIDE DEF N
    <3> QED BY <2>1, <3>1, FromOn
  <2> QED BY <2>2 DEF G
<1>10. ASSUME NEW X \in SUBSET S, IsClosed(X, S), NEW k \in 1 .. N, pads[k] \in X,
              NEW j \in 1 .. N
       PROVE  pads[j] \in X
  <2>1. CASE k <= j
    <3>1. j \in k .. N
      BY <1>1, <2>1
    <3> QED BY <1>9, <1>10, <3>1
  <2>2. CASE j < k
    <3> SUFFICES ASSUME pads[j] \notin X PROVE FALSE
      OBVIOUS
    <3>1. pads[j] \in S \ X /\ S \ X \in SUBSET S /\ IsClosed(S \ X, S)
      BY <1>4, <1>7, <1>10, RestIsClosed
    <3>2. k \in j .. N
      BY <1>1, <2>2
    <3>3. pads[k] \in S \ X
      BY <1>9, <3>1, <3>2
    <3> QED BY <1>10, <3>3
  <2> QED BY <2>1, <2>2
<1>11. ASSUME NEW X \in SUBSET S, IsClosed(X, S), X \cap P # {}
       PROVE  P \subseteq X
  <2>1. DOMAIN pads = 1 .. N
    BY <1>1, LenProperties
  <2>2. PICK k \in 1 .. N : pads[k] \in X
    BY <1>1, <1>11, <2>1 DEF Range
  <2>3. \A p \in P : \E j \in 1 .. N : p = pads[j]
    BY <1>1, <2>1 DEF Range
  <2> QED BY <1>10, <1>11, <2>2, <2>3
<1> QED BY <1>11 DEF JoinsPads, P, S, c

-----------------------------------------------------------------------------
(* What the checker counts as joined. *)

Touched(s, all) == s \cup {e \in all : \E f \in s : ConductiveContact(f, e)}

IsGrown(p, all, grown, N) ==
  grown = [n \in 0 .. N |-> IF n = 0 THEN {p} ELSE Touched(grown[n - 1], all)]

\* What touches can be added any number of times.
LEMMA GrownExists ==
  ASSUME NEW p, NEW all, NEW N \in Nat
  PROVE  \E grown : IsGrown(p, all, grown, N)
<1> DEFINE G == {k \in Nat : \E grown : IsGrown(p, all, grown, k)}
<1>1. 0 \in G
  <2> DEFINE grown == [m \in 0 .. 0 |-> {p}]
  <2>1. \A m \in 0 .. 0 : m = 0
    OBVIOUS
  <2>2. IsGrown(p, all, grown, 0)
    BY <2>1 DEF IsGrown
  <2> QED BY <2>2
<1>2. ASSUME NEW k \in 0 .. N - 1, k \in G
      PROVE  k + 1 \in G
  <2>1. PICK old : IsGrown(p, all, old, k)
    BY <1>2
  <2> DEFINE grown == [m \in 0 .. k + 1 |-> IF m = k + 1 THEN Touched(old[k], all) ELSE old[m]]
  <2>2. \A m \in 0 .. k : grown[m] = old[m]
    OBVIOUS
  <2>3. \A m \in 0 .. k + 1 : grown[m] = IF m = 0 THEN {p} ELSE Touched(grown[m - 1], all)
    <3> TAKE m \in 0 .. k + 1
    <3>1. CASE m = k + 1
      <4>1. m # 0 /\ m - 1 = k /\ k \in 0 .. k
        BY <3>1
      <4>2. grown[m] = Touched(old[k], all) /\ grown[m - 1] = old[k]
        BY <4>1, <3>1, <2>2
      <4> HIDE DEF grown
      <4> QED BY <4>1, <4>2, <3>1
    <3>2. CASE m # k + 1
      <4>1. m \in 0 .. k /\ grown[m] = old[m] /\ (m # 0 => grown[m - 1] = old[m - 1])
        BY <3>2, <2>2
      <4>2. old[m] = IF m = 0 THEN {p} ELSE Touched(old[m - 1], all)
        BY <4>1, <2>1 DEF IsGrown
      <4> HIDE DEF grown
      <4> QED BY <4>1, <4>2
    <3> QED BY <3>1, <3>2
  <2>4. grown = [m \in 0 .. k + 1 |-> grown[m]]
    OBVIOUS
  <2> HIDE DEF grown
  <2>5. IsGrown(p, all, grown, k + 1)
    BY <2>3, <2>4 DEF IsGrown
  <2> QED BY <2>5
<1> HIDE DEF G
<1>3. 0 .. N \subseteq G
  BY <1>1, <1>2, FromOn
<1> QED BY <1>3 DEF G

\* What is joined to a piece is a closed part that has it: adding what touches as often as there
\* are pieces is enough.
LEMMA JoinedIsClosed ==
  ASSUME NEW all, IsFiniteSet(all), NEW p \in all
  PROVE  LET J == Joined({p}, all, ConductiveContact)
         IN  p \in J /\ J \subseteq all /\ IsClosed(J, all)
<1> DEFINE N == Cardinality(all)
           grown == CHOOSE grown : IsGrown(p, all, grown, N)
           G == {k \in Nat : grown[k] \subseteq all /\ p \in grown[k]}
           H == {k \in Nat : Cardinality(grown[k]) >= k + 1 \/ IsClosed(grown[k], all)}
<1>1. N \in Nat
  BY FS_CardinalityType
<1>2. Joined({p}, all, ConductiveContact) = grown[N]
  BY DEF Joined, IsGrown, Touched
<1> HIDE DEF N
<1>3. IsGrown(p, all, grown, N)
  BY <1>1, GrownExists
<1> HIDE DEF grown
<1>4. grown[0] = {p} /\ \A k \in 1 .. N : grown[k] = Touched(grown[k - 1], all)
  <2>1. \A k \in 0 .. N : grown[k] = IF k = 0 THEN {p} ELSE Touched(grown[k - 1], all)
    BY <1>3 DEF IsGrown
  <2>2. 0 \in 0 .. N /\ \A k \in 1 .. N : k \in 0 .. N /\ k # 0
    BY <1>1
  <2> QED BY <2>1, <2>2
<1>5. ASSUME NEW k \in 0 .. N - 1
      PROVE  k + 1 \in Nat /\ k \in 0 .. N /\ grown[k + 1] = Touched(grown[k], all)
  <2>1. k + 1 \in 1 .. N /\ (k + 1) - 1 = k
    BY <1>1
  <2> QED BY <1>1, <1>4, <2>1
<1>6. 0 \in G
  BY <1>4
<1>7. ASSUME NEW k \in 0 .. N - 1, k \in G PROVE k + 1 \in G
  <2>1. grown[k + 1] \subseteq all /\ p \in grown[k + 1]
    BY <1>5, <1>7 DEF Touched
  <2> QED BY <1>5, <2>1
<1>8. 0 .. N \subseteq G
  <2> HIDE DEF G
  <2> QED BY <1>1, <1>6, <1>7, FromOn
<1>9. \A k \in 0 .. N : grown[k] \subseteq all /\ p \in grown[k]
  BY <1>8
<1> HIDE DEF G
<1>10. \A k \in 0 .. N : IsFiniteSet(grown[k]) /\ Cardinality(grown[k]) \in Nat /\ Cardinality(grown[k]) <= N
  BY <1>9, FS_Subset, FS_CardinalityType DEF N
<1>11. 0 \in H
  <2>1. Cardinality(grown[0]) = 1
    BY <1>4, FS_Singleton
  <2> QED BY <2>1
<1>12. ASSUME NEW k \in 0 .. N - 1, k \in H PROVE k + 1 \in H
  <2>1. k \in Nat /\ k + 1 \in Nat /\ k + 1 \in 0 .. N
    BY <1>1
  <2>2. CASE IsClosed(grown[k], all)
    <3>1. grown[k + 1] = grown[k]
      BY <1>5, <2>2 DEF Touched, IsClosed
    <3> QED BY <2>1, <2>2, <3>1
  <2>3. CASE ~IsClosed(grown[k], all)
    <3>1. Cardinality(grown[k]) >= k + 1
      BY <1>12, <2>3
    <3>2. grown[k] \subseteq grown[k + 1] /\ grown[k] # grown[k + 1]
      BY <1>5, <2>3 DEF Touched, IsClosed
    <3>3. Cardinality(grown[k]) < Cardinality(grown[k + 1])
      <4> DEFINE S == grown[k + 1]
                 T == grown[k]
      <4>1. IsFiniteSet(S) /\ T \in SUBSET S /\ T # S /\ Cardinality(S) \in Nat /\ Cardinality(T) \in Nat
        BY <1>5, <1>10, <2>1, <3>2
      <4> HIDE DEF S, T
      <4>2. Cardinality(T) <= Cardinality(S) /\ Cardinality(S) # Cardinality(T)
        BY <4>1, FS_Subset
      <4>3. Cardinality(T) < Cardinality(S)
        BY <4>1, <4>2
      <4> QED BY <4>3 DEF S, T
    <3>4. Cardinality(grown[k + 1]) >= (k + 1) + 1
      <4>1. Cardinality(grown[k]) \in Nat /\ Cardinality(grown[k + 1]) \in Nat
        BY <1>5, <1>10, <2>1
      <4> QED BY <2>1, <3>1, <3>3, <4>1
    <3> QED BY <2>1, <3>4
  <2> QED BY <2>2, <2>3
<1>13. N \in H
  <2> HIDE DEF H
  <2>1. 0 .. N \subseteq H
    BY <1>1, <1>11, <1>12, FromOn
  <2> QED BY <1>1, <2>1
<1>14. IsClosed(grown[N], all)
  <2>1. Cardinality(grown[N]) \in Nat /\ Cardinality(grown[N]) <= N
    BY <1>1, <1>10
  <2> QED BY <1>1, <1>13, <2>1
<1>15. grown[N] \subseteq all /\ p \in grown[N]
  BY <1>1, <1>9
<1> QED BY <1>2, <1>14, <1>15

-----------------------------------------------------------------------------
(* Solved nets stay joined. *)

SolvedIsJoined(b, solved) == \A n \in DOMAIN solved : JoinsPads(b, n, solved[n])

\* A call whose offer is open, or that goes on.
UnderWay == route.phase # "idle" /\ (route.phase = "done" => outcome = NoOutcome)

JInv ==
  /\ PadsApart(board)
  /\ UnderWay => /\ WorkIsSound(board, route.work, route.solved, route.removed)
                 /\ SolvedIsJoined(board, route.solved)

\* One more net is solved.
LEMMA OneMoreIsSolved ==
  ASSUME NEW b, NEW solved, SolvedIsJoined(b, solved), NEW n, NEW c, JoinsPads(b, n, c)
  PROVE  SolvedIsJoined(b, And(solved, n, c))
<1>1. /\ DOMAIN And(solved, n, c) = DOMAIN solved \cup {n}
      /\ \A k \in DOMAIN solved \cup {n} : And(solved, n, c)[k] = IF k = n THEN c ELSE solved[k]
  BY DEF And, Over
<1>2. \A k \in DOMAIN And(solved, n, c) : JoinsPads(b, k, And(solved, n, c)[k])
  BY <1>1 DEF SolvedIsJoined
<1> QED BY <1>2 DEF SolvedIsJoined

\* A solved net is gone.
LEMMA OneLessIsSolved ==
  ASSUME NEW b, NEW solved, SolvedIsJoined(b, solved), NEW m
  PROVE  SolvedIsJoined(b, [k \in DOMAIN solved \ {m} |-> solved[k]])
BY DEF SolvedIsJoined

\* The copy stays sound without some of its conductors.
LEMMA CopyWithoutIsSound ==
  ASSUME NEW b, IsBoard(b), NEW work, CopyIsSound(b, work), NEW ids
  PROVE  CopyIsSound(b, Without(work, ids))
<1> DEFINE routes == {o \in work.routes : o.id \notin ids}
           vias == {o \in work.vias : o.id \notin ids}
           left == Without(work, ids)
<1>1. left = [work EXCEPT !.routes = routes, !.vias = vias]
  BY DEF Without
<1>2. routes \subseteq work.routes /\ vias \subseteq work.vias
  OBVIOUS
<1> HIDE DEF routes, vias, left
<1>3. DOMAIN work = DOMAIN b /\ {"routes", "vias"} \subseteq DOMAIN b
  BY DEF CopyIsSound, IsBoard
<1>4. /\ DOMAIN left = DOMAIN b /\ left.routes = routes /\ left.vias = vias
      /\ \A x \in DOMAIN b \ {"routes", "vias"} : left[x] = b[x]
  BY <1>1, <1>3 DEF CopyIsSound
<1>5. Conductors(left) \in SUBSET Conductors(work)
  BY <1>2, <1>4 DEF Conductors
<1>6. IsFiniteSet(Conductors(left))
  BY <1>5, FS_Subset DEF CopyIsSound
<1> QED BY <1>2, <1>4, <1>5, <1>6 DEF CopyIsSound, left

\* What an installed net changes in the copper of a call.
LEMMA InstalledSolves ==
  ASSUME NEW r, DOMAIN r = DOMAIN RouteIdle, NEW n, NEW ways, NEW strip
  PROVE  LET s == Installed(r, n, ways, strip)
         IN  /\ DOMAIN s = DOMAIN RouteIdle /\ s.phase = r.phase
             /\ s.solved = And(r.solved, n, Copper(r.work, n, ways))
<1> DEFINE c == Copper(r.work, n, ways)
           work == Laid(r.work, c, strip)
           taken == r.removed \cup (strip \cap Original)
           solved == Over(r.solved, [m \in {n} |-> c])
           cong == Recorded(r.cong, ways)
           s == Installed(r, n, ways, strip)
<1>1. s = [r EXCEPT !.work = work, !.removed = taken, !.solved = solved, !.lost = r.lost \ {n},
                    !.cong = cong]
  BY DEF Installed
<1>2. solved = And(r.solved, n, c)
  BY DEF And
<1> HIDE DEF s, c, work, taken, solved, cong
<1>3. DOMAIN s = DOMAIN RouteIdle /\ s.solved = solved /\ s.phase = r.phase
  BY <1>1, Fields
<1> QED BY <1>2, <1>3 DEF s, c

\* A net that is solved in the first round is joined.
LEMMA FirstRoundJoins ==
  ASSUME IInv, JInv, RouteFirst
  PROVE  SolvedIsJoined(board, route'.solved) /\ route'.phase \notin {"idle", "done"}
<1> DEFINE n == FirstOf(route.todo)
           next == [route EXCEPT !.todo = @ \ {n}]
           own == IdsOf(Unlocked(OfNet(route.work.routes, n)))
<1>1. route.phase = "first"
  BY DEF RouteFirst
<1>2. \/ route' = [next EXCEPT !.lost = @ \cup {n}, !.hopeless = @ \cup {n}]
      \/ /\ Routable(board, n)
         /\ \E ways \in NetWays(route.work, n, route.cong) :
              route' = IF ways = NoWay THEN [next EXCEPT !.lost = @ \cup {n}]
                       ELSE Installed(next, n, ways, own)
  BY DEF RouteFirst
<1>3. /\ BoardIsSound(board) /\ DOMAIN route = DOMAIN RouteIdle /\ CopyIsSound(board, route.work)
      /\ SolvedIsJoined(board, route.solved) /\ PadsApart(board)
  BY <1>1, InCall DEF JInv, UnderWay
<1> HIDE DEF n, own
<1>4. /\ DOMAIN next = DOMAIN RouteIdle /\ next.solved = route.solved /\ next.work = route.work
      /\ next.phase = "first"
  BY <1>1, <1>3, Fields
<1> HIDE DEF next
<1>5. CASE \/ route' = [next EXCEPT !.lost = @ \cup {n}, !.hopeless = @ \cup {n}]
           \/ route' = [next EXCEPT !.lost = @ \cup {n}]
  <2>1. route'.solved = route.solved /\ route'.phase = "first"
    BY <1>4, <1>5, Fields
  <2> QED BY <1>3, <2>1
<1>6. ASSUME Routable(board, n), NEW ways \in NetWays(route.work, n, route.cong), ways # NoWay,
             route' = Installed(next, n, ways, own)
      PROVE  SolvedIsJoined(board, route'.solved) /\ route'.phase \notin {"idle", "done"}
  <2>1. JoinsPads(board, n, Copper(route.work, n, ways))
    BY <1>3, <1>6, PadsAreJoined
  <2>2. route'.solved = And(route.solved, n, Copper(route.work, n, ways)) /\ route'.phase = "first"
    BY <1>4, <1>6, InstalledSolves
  <2> QED BY <1>3, <2>1, <2>2, OneMoreIsSolved
<1> QED BY <1>2, <1>5, <1>6

\* So is a net that is routed again.
LEMMA StrippedNetJoins ==
  ASSUME IInv, JInv, RouteAgain
  PROVE  SolvedIsJoined(board, route'.solved) /\ route'.phase \notin {"idle", "done"}
<1> DEFINE n == route.stripped
           next == [route EXCEPT !.phase = "between", !.stripped = NoNet]
<1>1. route.phase = "again"
  BY DEF RouteAgain
<1>2. PICK ways \in NetWays(route.work, n, route.cong) :
        route' = IF ways = NoWay THEN next ELSE Installed(next, n, ways, {})
  BY DEF RouteAgain
<1>3. /\ BoardIsSound(board) /\ DOMAIN route = DOMAIN RouteIdle /\ CopyIsSound(board, route.work)
      /\ SolvedIsJoined(board, route.solved) /\ PadsApart(board)
      /\ NetsAreSplit(board, route) /\ TriesAreSound(board, route)
  BY <1>1, InCall DEF JInv, UnderWay
<1>4. Routable(board, n)
  BY <1>1, <1>3 DEF TriesAreSound, NetsAreSplit
<1> HIDE DEF n
<1>5. /\ DOMAIN next = DOMAIN RouteIdle /\ next.solved = route.solved /\ next.work = route.work
      /\ next.phase = "between"
  BY <1>3, Fields
<1> HIDE DEF next
<1>6. CASE ways = NoWay
  BY <1>2, <1>3, <1>5, <1>6
<1>7. CASE ways # NoWay
  <2>1. JoinsPads(board, n, Copper(route.work, n, ways))
    BY <1>2, <1>3, <1>4, <1>7, PadsAreJoined
  <2>2. route' = Installed(next, n, ways, {})
    BY <1>2, <1>7
  <2>3. route'.solved = And(route.solved, n, Copper(route.work, n, ways)) /\ route'.phase = "between"
    BY <1>5, <2>2, InstalledSolves
  <2> QED BY <1>3, <2>1, <2>3, OneMoreIsSolved
<1> QED BY <1>6, <1>7

\* And a net for which an obstacle is stripped.
LEMMA TryJoins ==
  ASSUME IInv, JInv, Try
  PROVE  SolvedIsJoined(board, route'.solved) /\ route'.phase \notin {"idle", "done"}
<1> DEFINE n == route.net
<1>1. /\ route.phase = "try"
      /\ \E try \in NextTries :
           \E ways \in NetWays(Without(route.work, Strip(try)), n, route.cong) :
             route' = IF ways = NoWay THEN [route EXCEPT !.tries = @ \ {try}]
                      ELSE LET done == Installed([route EXCEPT !.work = Without(route.work, Strip(try))],
                                                 n, ways, Strip(try)) IN
                           IF try[1] = "net"
                           THEN [done EXCEPT !.phase = "again", !.stripped = try[2],
                                             !.solved = [m \in DOMAIN @ \ {try[2]} |-> @[m]],
                                             !.lost = @ \cup {try[2]}]
                           ELSE [done EXCEPT !.phase = "between"]
  BY DEF Try
<1>2. PICK try \in NextTries :
        \E ways \in NetWays(Without(route.work, Strip(try)), n, route.cong) :
          route' = IF ways = NoWay THEN [route EXCEPT !.tries = @ \ {try}]
                   ELSE LET done == Installed([route EXCEPT !.work = Without(route.work, Strip(try))],
                                              n, ways, Strip(try)) IN
                        IF try[1] = "net"
                        THEN [done EXCEPT !.phase = "again", !.stripped = try[2],
                                          !.solved = [m \in DOMAIN @ \ {try[2]} |-> @[m]],
                                          !.lost = @ \cup {try[2]}]
                        ELSE [done EXCEPT !.phase = "between"]
  BY <1>1
<1> DEFINE m == try[2]
           strip == Strip(try)
           trial == Without(route.work, strip)
           start == [route EXCEPT !.work = trial]
<1>3. PICK ways \in NetWays(trial, n, route.cong) :
        route' = IF ways = NoWay THEN [route EXCEPT !.tries = @ \ {try}]
                 ELSE LET done == Installed(start, n, ways, strip) IN
                      IF try[1] = "net"
                      THEN [done EXCEPT !.phase = "again", !.stripped = m,
                                        !.solved = [k \in DOMAIN @ \ {m} |-> @[k]],
                                        !.lost = @ \cup {m}]
                      ELSE [done EXCEPT !.phase = "between"]
  BY <1>2
<1>4. /\ BoardIsSound(board) /\ IsBoard(board) /\ DOMAIN route = DOMAIN RouteIdle
      /\ CopyIsSound(board, route.work)
      /\ SolvedIsJoined(board, route.solved) /\ PadsApart(board)
      /\ NetsAreSplit(board, route) /\ TriesAreSound(board, route)
  BY <1>1, InCall DEF JInv, UnderWay
<1>5. Routable(board, n)
  BY <1>1, <1>4 DEF TriesAreSound, NetsAreSplit
<1>6. CopyIsSound(board, trial)
  BY <1>4, CopyWithoutIsSound
<1> HIDE DEF n, strip, trial
<1>7. DOMAIN start = DOMAIN RouteIdle /\ start.solved = route.solved /\ start.work = trial
  BY <1>4, Fields
<1> HIDE DEF start
<1>8. CASE ways = NoWay
  <2>1. route' = [route EXCEPT !.tries = @ \ {try}]
    BY <1>3, <1>8
  <2>2. route'.solved = route.solved /\ route'.phase = "try"
    BY <1>1, <1>4, <2>1, Fields
  <2> QED BY <1>4, <2>2
<1>9. CASE ways # NoWay
  <2> DEFINE done == Installed(start, n, ways, strip)
             c == Copper(trial, n, ways)
             rest == [k \in DOMAIN done.solved \ {m} |-> done.solved[k]]
  <2>1. JoinsPads(board, n, c)
    BY <1>3, <1>4, <1>5, <1>6, <1>9, PadsAreJoined
  <2>2. DOMAIN done = DOMAIN RouteIdle /\ done.solved = And(route.solved, n, c)
    BY <1>7, InstalledSolves
  <2>3. \/ route' = [done EXCEPT !.phase = "again", !.stripped = m, !.solved = rest,
                                 !.lost = done.lost \cup {m}]
        \/ route' = [done EXCEPT !.phase = "between"]
    BY <1>3, <1>9
  <2> HIDE DEF c
  <2>4. SolvedIsJoined(board, done.solved) /\ SolvedIsJoined(board, rest)
    <3>1. SolvedIsJoined(board, And(route.solved, n, c))
      BY <1>4, <2>1, OneMoreIsSolved
    <3>2. SolvedIsJoined(board, done.solved)
      BY <2>2, <3>1
    <3> HIDE DEF done
    <3> QED BY <3>2, OneLessIsSolved
  <2> HIDE DEF done, rest
  <2>5. route'.solved \in {done.solved, rest} /\ route'.phase \in {"again", "between"}
    BY <2>2, <2>3, Fields
  <2> QED BY <2>4, <2>5
<1> QED BY <1>8, <1>9

\* Every step keeps the pads apart, and the copper of the solved nets sound and joined.
LEMMA StepsJoin ==
  ASSUME IInv, JInv, [Next]_vars, IInv'
  PROVE  JInv'
<1>1. ASSUME board' = board, route'.phase \notin {"idle", "done"}, SolvedIsJoined(board, route'.solved)
      PROVE  JInv'
  <2>1. WorkIsSound(board', route'.work, route'.solved, route'.removed)
    BY <1>1 DEF IInv, CallIsSound
  <2> QED BY <1>1, <2>1 DEF JInv
<1>2. CASE RouteBegins
  <2>1. PICK nets \in Requests :
           route' = [RouteIdle EXCEPT !.phase = "first", !.requested = nets, !.todo = nets,
                                      !.work = board, !.round = 1]
    BY <1>2 DEF RouteBegins
  <2>2. board' = board /\ route'.phase = "first" /\ route'.solved = <<>>
    BY <1>2, <2>1 DEF RouteBegins, adapterVars, RouteIdle
  <2>3. SolvedIsJoined(board, <<>>)
    BY DEF SolvedIsJoined
  <2> QED BY <1>1, <2>2, <2>3
<1>3. CASE RouteFirst \/ Try \/ RouteAgain
  <2>1. board' = board
    BY <1>3 DEF RouteFirst, Try, RouteAgain, adapterVars
  <2>2. SolvedIsJoined(board, route'.solved) /\ route'.phase \notin {"idle", "done"}
    BY <1>3, FirstRoundJoins, TryJoins, StrippedNetJoins
  <2> QED BY <1>1, <2>1, <2>2
<1>4. CASE EndFirst \/ NextRound \/ TakeNet \/ GiveUpNet
  <2>1. board' = board /\ route.phase \notin {"idle", "done"}
    BY <1>4 DEF EndFirst, NextRound, TakeNet, GiveUpNet, adapterVars
  <2>2. DOMAIN route = DOMAIN RouteIdle /\ SolvedIsJoined(board, route.solved)
    BY <2>1, InCall DEF JInv, UnderWay
  <2>3. route'.solved = route.solved /\ route'.phase \in {"between", "round", "try"}
    BY <1>4, <2>2, Fields DEF EndFirst, NextRound, TakeNet, GiveUpNet
  <2> QED BY <1>1, <2>1, <2>2, <2>3
<1>5. CASE RouteEnds
  <2> DEFINE found == IF Segments(route) \cup Vias(route) = {} \/ Collides(route) THEN {}
                      ELSE Check(Offered(route))
  <2>1. /\ board' = board /\ route.phase \notin {"idle", "done"}
        /\ route' = [route EXCEPT !.phase = "done", !.found = found]
    BY <1>5 DEF RouteEnds
  <2> HIDE DEF found
  <2>2. /\ DOMAIN route = DOMAIN RouteIdle /\ SolvedIsJoined(board, route.solved)
        /\ WorkIsSound(board, route.work, route.solved, route.removed)
    BY <2>1, InCall DEF JInv, UnderWay
  <2>3. route'.solved = route.solved /\ route'.work = route.work /\ route'.removed = route.removed
    BY <2>1, <2>2, Fields
  <2> QED BY <2>1, <2>2, <2>3 DEF JInv
<1>6. CASE Execute
  <2> DEFINE end == Applying(board, proposal.ops)
             verdict == Verdict(board, end)
             op == [type |-> "route", removed |-> route.removed, segments |-> Segments(route),
                    vias |-> Vias(route)]
  <2>1. /\ proposal.ops # <<>> /\ route' = route
        /\ outcome' = [by |-> proposal.by, verdict |-> verdict]
        /\ board' = IF verdict = "clean" THEN end.board ELSE board
    BY <1>6 DEF Execute, Apply
  <2>2. proposal # NoProposal
    BY <2>1 DEF NoProposal
  <2>3. route.phase = "done" /\ proposal = [by |-> "router", ops |-> <<op>>] /\ BoardIsSound(board)
    BY <2>2 DEF IInv, OfferIsSound
  <2>4. outcome' # NoOutcome
    <3> HIDE DEF verdict, op
    <3>1. outcome'.by = "router"
      BY <2>1, <2>3
    <3> QED BY <3>1 DEF NoOutcome
  <2>5. board'.pads = board.pads /\ board'.class = board.class
    <3>1. end.board = Applied(board, op)
      <4>1. proposal.ops = <<op>>
        BY <2>3
      <4> HIDE DEF op
      <4> QED BY <4>1, OneOperation
    <3>2. Applied(board, op).pads = board.pads /\ Applied(board, op).class = board.class
      <4>1. Found(route).segments = op.segments /\ Found(route).vias = op.vias
        BY DEF Found
      <4> QED BY <2>3, <4>1, OfferApplied DEF BoardIsSound, Found
    <3> HIDE DEF end, verdict, op
    <3> QED BY <2>1, <3>1, <3>2
  <2>6. PadsApart(board')
    BY <2>5 DEF JInv, PadsApart
  <2>7. ~UnderWay'
    BY <2>1, <2>3, <2>4 DEF UnderWay
  <2> QED BY <2>6, <2>7 DEF JInv
<1>7. CASE RouteLeaves
  <2>1. board' = board /\ route'.phase = "idle"
    BY <1>7 DEF RouteLeaves, adapterVars, RouteIdle
  <2> QED BY <2>1 DEF JInv, UnderWay
<1>8. CASE UNCHANGED vars
  BY <1>8 DEF vars, adapterVars, JInv, UnderWay
<1> QED BY <1>2, <1>3, <1>4, <1>5, <1>6, <1>7, <1>8 DEF Next

\* What joins the pads in the offer joins them for the checker.
LEMMA OfferIsJoined == IInv /\ JInv => RoutedIsJoined
<1> SUFFICES ASSUME IInv, JInv, route.phase = "done", outcome = NoOutcome,
                    NEW n \in DOMAIN route.solved, NEW p \in OfNet(board.pads, n)
             PROVE  LET pads == OfNet(board.pads, n)
                        copper == OfNet(Offered(route).routes, n) \cup OfNet(Offered(route).vias, n)
                    IN  pads \subseteq Joined({p}, pads \cup copper, ConductiveContact)
  BY DEF RoutedIsJoined
<1> DEFINE pads == OfNet(board.pads, n)
           copper == OfNet(Offered(route).routes, n) \cup OfNet(Offered(route).vias, n)
           all == pads \cup copper
           J == Joined({p}, all, ConductiveContact)
           c == route.solved[n]
           S == Pieces(board, n, c)
<1>1. /\ IsBoard(board) /\ WorkIsSound(board, route.work, route.solved, route.removed)
      /\ JoinsPads(board, n, c)
  BY DEF IInv, BoardIsSound, JInv, UnderWay, SolvedIsJoined
<1>2. /\ Offered(route).routes = {o \in board.routes : o.id \notin route.removed} \cup Segments(route)
      /\ Offered(route).vias = board.vias \cup Vias(route)
  <2> DEFINE routes == {o \in board.routes : o.id \notin route.removed} \cup Segments(route)
             vias == board.vias \cup Vias(route)
  <2>1. Offered(route) = [board EXCEPT !.routes = routes, !.vias = vias]
    BY DEF Offered, Laid, Found
  <2> HIDE DEF routes, vias
  <2>2. Offered(route).routes = routes /\ Offered(route).vias = vias
    BY <1>1, <2>1 DEF IsBoard
  <2> QED BY <2>2 DEF routes, vias
<1>3. /\ Offered(route).routes = route.work.routes /\ Offered(route).vias \subseteq route.work.vias
  BY <1>1, <1>2, OfferIsCopy
<1>4. IsFiniteSet(all)
  <2>1. copper \in SUBSET Conductors(route.work) /\ IsFiniteSet(Conductors(route.work))
    BY <1>1, <1>3 DEF Conductors, OfNet, WorkIsSound, CopyIsSound
  <2>2. pads \in SUBSET board.pads /\ IsFiniteSet(board.pads)
    BY <1>1 DEF OfNet, IsBoard
  <2> HIDE DEF copper, pads
  <2>3. IsFiniteSet(copper) /\ IsFiniteSet(pads)
    BY <2>1, <2>2, FS_Subset
  <2> QED BY <2>3, FS_Union
<1>5. S \subseteq all /\ pads \subseteq S
  <2>1. c.segments \subseteq Segments(route) /\ c.vias \subseteq Vias(route)
    BY DEF Segments, Vias
  <2>2. /\ \A o \in c.segments : o.net = n
        /\ \A o \in c.vias : o.net = n
    BY <1>1 DEF WorkIsSound, SolvedIsSound, IsRun, IsBore
  <2> HIDE DEF c
  <2> QED BY <1>2, <2>1, <2>2 DEF Pieces, OfNet
<1>6. p \in pads
  OBVIOUS
<1> HIDE DEF pads, copper, c, S, all
<1>7. p \in J /\ J \subseteq all /\ IsClosed(J, all)
  <2>1. p \in all
    BY <1>6 DEF all
  <2> QED BY <1>4, <2>1, JoinedIsClosed
<1> HIDE DEF J
<1>8. IsClosed(J \cap S, S) /\ p \in (J \cap S) \cap pads
  BY <1>5, <1>6, <1>7 DEF IsClosed
<1>9. pads \subseteq J
  <2> DEFINE X == J \cap S
  <2>1. X \in SUBSET Pieces(board, n, c) /\ IsClosed(X, Pieces(board, n, c)) /\ X \cap OfNet(board.pads, n) # {}
    BY <1>8 DEF S, pads
  <2> HIDE DEF X
  <2>2. OfNet(board.pads, n) \subseteq X
    BY <1>1, <2>1 DEF JoinsPads
  <2> QED BY <2>2 DEF X, pads
<1> QED BY <1>9 DEF J, all, pads, copper

\* Whatever else was stripped and found, the copper of every net the router solved joins all its
\* pads when the call is over, on boards where no two pads of a net lie on each other.
THEOREM RoutedIsJoinedAlways ==
  ASSUME \A b \in Boards : PadsApart(b)
  PROVE  Spec => []RoutedIsJoined
<1>1. Init => JInv
  BY DEF Init, JInv, UnderWay, RouteIdle
<1>2. JInv /\ IInv /\ IInv' /\ [Next]_vars => JInv'
  BY StepsJoin
<1> QED BY <1>1, <1>2, OfferIsJoined, CallIsSoundAlways, PTL DEF Spec

=============================================================================
