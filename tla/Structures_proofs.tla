------------------------- MODULE Structures_proofs -------------------------
(***************************************************************************)
(* Theorems about what the passes work on.  Of the symbol tables, of any   *)
(* size and with vectors in any order: what the halving search of get      *)
(* comes to, and where climbing and following paths end.  Of walks of      *)
(* trees: which nodes are open at an event, and what a stack looks like    *)
(* that has one entry for each of them; the passes and the code generator  *)
(* keep such stacks, the frames of the methods that visit the nodes.       *)
(***************************************************************************)
EXTENDS Ast, TLAPS, WellFoundedInduction

(* Induction over numbers, by the least counterexample. *)
LEMMA LeastNat ==
  ASSUME NEW T, T \subseteq Nat, T # {}
  PROVE  \E m \in T : \A k \in T : m <= k
<1> DEFINE less == {s \in Nat \X Nat : s[1] < s[2]}
<1>1. IsWellFoundedOn(less, Nat)
  BY NatLessThanWellFounded DEF OpToRel
<1>2. \A x, y \in Nat : x < y => <<x, y>> \in less
  OBVIOUS
<1> HIDE DEF less
<1>3. PICK m \in T : \A k \in T : ~ (<<k, m>> \in less)
  BY <1>1, WFMin
<1>4. \A k \in T : ~ (k < m)
  BY <1>2, <1>3
<1> QED
  BY <1>4

-----------------------------------------------------------------------------
(* The search that std::upper_bound makes.                                 *)

(* One step of the halving search, with f for the searches it goes on to. *)
Halving(decls, loc, f, s) ==
  LET first == s[1]
      len   == s[2]
      half  == len \div 2
  IN  IF len = 0 THEN first
      ELSE IF Before(loc, decls[first + half + 1].src)
           THEN f[<<first, half>>]
           ELSE f[<<first + half + 1, len - half - 1>>]

Searches(decls, loc, n, f) ==
  f = [s \in Nat \X (0 .. n) |-> Halving(decls, loc, f, s)]

LEMMA Halves ==
  ASSUME NEW n \in Nat, n # 0
  PROVE  n \div 2 \in 0 .. n - 1 /\ n - n \div 2 - 1 \in 0 .. n - 1
  OBVIOUS

LEMMA SearchExists ==
  ASSUME NEW decls, NEW loc, NEW N \in Nat
  PROVE  \E f : Searches(decls, loc, N, f)
<1> DEFINE T == {n \in 0 .. N : ~ \E f : Searches(decls, loc, n, f)}
<1>1. T = {}
  <2> SUFFICES ASSUME T # {} PROVE FALSE
    OBVIOUS
  <2>1. T \subseteq Nat
    OBVIOUS
  <2>2. PICK m \in T : \A k \in T : m <= k
    BY <2>1, LeastNat
  <2>3. m \in 0 .. N /\ m \in Nat /\ ~ \E f : Searches(decls, loc, m, f)
    OBVIOUS
  <2> DEFINE g(f) == [s \in Nat \X (0 .. m) |-> Halving(decls, loc, f, s)]
  <2>4. CASE m = 0
    <3>1. \A f : \A s \in Nat \X (0 .. m) : Halving(decls, loc, f, s) = s[1]
      BY <2>4 DEF Halving
    <3>2. Searches(decls, loc, m, g(<<>>))
      BY <3>1 DEF Searches
    <3> QED
      BY <2>3, <3>2
  <2>5. CASE m # 0
    <3>1. m - 1 \in 0 .. N /\ ~ (m <= m - 1) /\ m - 1 \in Nat
      BY <2>3, <2>5
    <3>2. m - 1 \notin T
      BY <2>2, <3>1
    <3>3. PICK f : Searches(decls, loc, m - 1, f)
      BY <3>1, <3>2
    <3>4. \A s \in Nat \X (0 .. m - 1) : f[s] = Halving(decls, loc, f, s)
      BY <3>3 DEF Searches
    <3>5. \A s \in Nat \X (0 .. m) : g(f)[s] = Halving(decls, loc, f, s)
      OBVIOUS
    <3>6. \A s \in Nat \X (0 .. m - 1) : g(f)[s] = f[s]
      BY <2>3, <3>1, <3>4, <3>5
    <3> HIDE DEF g
    <3>7. ASSUME NEW s \in Nat \X (0 .. m)
          PROVE  Halving(decls, loc, f, s) = Halving(decls, loc, g(f), s)
      <4> DEFINE first == s[1]
                 len == s[2]
                 half == len \div 2
      <4>1. first \in Nat /\ len \in 0 .. m /\ len \in Nat
        BY <2>3
      <4>2. CASE len = 0
        BY <4>2 DEF Halving
      <4>3. CASE len # 0
        <5>1. half \in 0 .. m - 1 /\ len - half - 1 \in 0 .. m - 1 /\ first + half + 1 \in Nat
          BY <2>3, <4>1, <4>3, Halves
        <5>2. /\ g(f)[<<first, half>>] = f[<<first, half>>]
              /\ g(f)[<<first + half + 1, len - half - 1>>] = f[<<first + half + 1, len - half - 1>>]
          BY <3>6, <4>1, <5>1
        <5> QED
          BY <5>2 DEF Halving
      <4> QED
        BY <4>2, <4>3
    <3>8. Searches(decls, loc, m, g(f))
      BY <3>7 DEF Searches, g
    <3> QED
      BY <2>3, <3>8
  <2> QED
    BY <2>4, <2>5
<1>2. N \in 0 .. N
  OBVIOUS
<1> QED
  BY <1>1, <1>2


(* What upper_bound promises of the bounds it is given, in a vector in any
   order: it stops behind an entry that is not after the location, unless it
   has not moved, and before one that is. *)
Between(decls, loc, first, len, r) ==
  /\ r \in first .. first + len
  /\ first < r => ~ Before(loc, decls[r].src)
  /\ r < first + len => Before(loc, decls[r + 1].src)

LEMMA SearchesBetween ==
  ASSUME NEW decls, NEW loc, NEW N \in Nat, NEW f, Searches(decls, loc, N, f)
  PROVE  \A len \in 0 .. N : \A first \in Nat : Between(decls, loc, first, len, f[<<first, len>>])
<1> DEFINE Good(len) == \A first \in Nat : Between(decls, loc, first, len, f[<<first, len>>])
           T == {n \in 0 .. N : ~ Good(n)}
<1>1. ASSUME NEW first \in Nat, NEW len \in 0 .. N
      PROVE  f[<<first, len>>] = IF len = 0 THEN first
                                 ELSE IF Before(loc, decls[first + len \div 2 + 1].src)
                                      THEN f[<<first, len \div 2>>]
                                      ELSE f[<<first + len \div 2 + 1, len - len \div 2 - 1>>]
  <2>1. <<first, len>> \in Nat \X (0 .. N)
    OBVIOUS
  <2>2. f[<<first, len>>] = Halving(decls, loc, f, <<first, len>>)
    BY <2>1 DEF Searches
  <2> QED
    BY <2>2 DEF Halving
<1>2. T = {}
  <2> SUFFICES ASSUME T # {} PROVE FALSE
    OBVIOUS
  <2>1. T \subseteq Nat
    OBVIOUS
  <2>2. PICK m \in T : \A k \in T : m <= k
    BY <2>1, LeastNat
  <2>3. m \in 0 .. N /\ m \in Nat /\ ~ Good(m)
    OBVIOUS
  <2>4. \A n \in 0 .. m - 1 : Good(n)
    <3> SUFFICES ASSUME NEW n \in 0 .. m - 1 PROVE Good(n)
      OBVIOUS
    <3>1. n \in 0 .. N /\ ~ (m <= n)
      BY <2>3
    <3> QED
      BY <2>2, <3>1
  <2> DEFINE half == m \div 2
             rest == m - half - 1
  <2>5. ASSUME NEW first \in Nat
        PROVE  Between(decls, loc, first, m, f[<<first, m>>])
    <3> DEFINE mid == first + half + 1
    <3>1. CASE m = 0
      <4>1. f[<<first, m>>] = first
        BY <1>1, <2>3, <3>1
      <4> QED
        BY <3>1, <4>1 DEF Between
    <3>2. CASE m # 0
      <4>1. half \in 0 .. m - 1 /\ rest \in 0 .. m - 1
        BY <2>3, <3>2, Halves
      <4>2. mid \in Nat /\ mid + rest = first + m /\ first < mid
        BY <2>3, <4>1
      <4>3. CASE Before(loc, decls[mid].src)
        <5> DEFINE r == f[<<first, half>>]
        <5>1. f[<<first, m>>] = r
          BY <1>1, <2>3, <3>2, <4>3
        <5>2. Between(decls, loc, first, half, r)
          BY <2>4, <4>1
        <5> HIDE DEF r
        <5>3. r \in first .. first + half /\ r \in Nat
          BY <4>1, <5>2 DEF Between
        <5>4. r < first + half => Before(loc, decls[r + 1].src)
          BY <5>2 DEF Between
        <5>5. r = first + half => Before(loc, decls[r + 1].src)
          BY <4>3
        <5>6. Before(loc, decls[r + 1].src)
          BY <4>1, <5>3, <5>4, <5>5
        <5>7. r \in first .. first + m
          BY <2>3, <4>1, <5>3
        <5> QED
          BY <5>1, <5>2, <5>6, <5>7 DEF Between
      <4>4. CASE ~ Before(loc, decls[mid].src)
        <5> DEFINE r == f[<<mid, rest>>]
        <5>1. f[<<first, m>>] = r
          BY <1>1, <2>3, <3>2, <4>4
        <5>2. Between(decls, loc, mid, rest, r)
          BY <2>4, <4>1, <4>2
        <5> HIDE DEF r, mid, rest
        <5>3. r \in mid .. mid + rest /\ r \in Nat
          BY <4>1, <4>2, <5>2 DEF Between
        <5>4. ~ Before(loc, decls[r].src)
          <6>1. CASE r = mid
            BY <4>4, <6>1
          <6>2. CASE r # mid
            BY <4>2, <5>2, <5>3, <6>2 DEF Between
          <6> QED
            BY <6>1, <6>2
        <5>5. r \in first .. first + m
          BY <2>3, <4>1, <4>2, <5>3
        <5>6. r < first + m => Before(loc, decls[r + 1].src)
          BY <4>2, <5>2 DEF Between
        <5> QED
          BY <5>1, <5>4, <5>5, <5>6 DEF Between
      <4> QED
        BY <4>3, <4>4
    <3> QED
      BY <3>1, <3>2
  <2> QED
    BY <2>3, <2>5
<1> QED
  BY <1>2

(* Of a vector in any order, the entry get steps back to is not after the  *)
(* location, and the one behind it is: the search does not leave the       *)
(* vector (SymTable.cpp:103).                                              *)
THEOREM UpperBoundStops ==
  ASSUME NEW S, NEW decls \in Seq(S), NEW loc
  PROVE  Between(decls, loc, 0, Len(decls), UpperBound(decls, loc))
<1> DEFINE N == Len(decls)
           Step(f, s) == LET first == s[1]
                             len   == s[2]
                             half  == len \div 2
                         IN  IF len = 0 THEN first
                             ELSE IF Before(loc, decls[first + half + 1].src)
                                  THEN f[<<first, half>>]
                                  ELSE f[<<first + half + 1, len - half - 1>>]
           search == CHOOSE f : f = [s \in Nat \X (0 .. N) |-> Step(f, s)]
<1>1. N \in Nat /\ N \in 0 .. N
  OBVIOUS
<1>2. \A f : f = [s \in Nat \X (0 .. N) |-> Step(f, s)] <=> Searches(decls, loc, N, f)
  BY DEF Searches, Halving
<1>3. Searches(decls, loc, N, search)
  <2>1. \E f : f = [s \in Nat \X (0 .. N) |-> Step(f, s)]
    BY <1>1, <1>2, SearchExists
  <2> QED
    BY <1>2, <2>1
<1>4. UpperBound(decls, loc) = search[<<0, N>>]
  BY DEF UpperBound
<1> HIDE DEF search
<1>5. Between(decls, loc, 0, N, search[<<0, N>>])
  BY <1>1, <1>3, SearchesBetween
<1> QED
  BY <1>4, <1>5


(* The declarations of a name in the order of their text. *)
InTextOrder(decls) ==
  \A i, j \in DOMAIN decls : i < j => ~ Before(decls[j].src, decls[i].src)

(* In a vector in text order get finds what it is meant to: the last of    *)
(* the declarations that do not come after the use (SymTable.h, get).      *)
THEOREM UpperBoundCounts ==
  ASSUME NEW decls \in Seq(SymbolInfo), InTextOrder(decls), NEW loc \in Location,
         NEW i \in DOMAIN decls
  PROVE  i <= UpperBound(decls, loc) <=> ~ Before(loc, decls[i].src)
<1> DEFINE r == UpperBound(decls, loc)
<1>1. Between(decls, loc, 0, Len(decls), r) /\ Len(decls) \in Nat
  BY UpperBoundStops
<1> HIDE DEF r
<1>2. r \in 0 .. Len(decls) /\ DOMAIN decls = 1 .. Len(decls)
  BY <1>1 DEF Between
<1>3. \A j \in DOMAIN decls : decls[j].src \in Location
  <2>1. \A j \in DOMAIN decls : decls[j] \in SymbolInfo
    OBVIOUS
  <2> QED
    BY <2>1 DEF SymbolInfo
<1>4. \A a, b, c \in Location : ~ Before(a, b) /\ ~ Before(b, c) => ~ Before(a, c)
  BY DEF Before, Location
<1>5. \A a, b, c \in Location : Before(a, b) /\ ~ Before(c, b) => Before(a, c)
  BY DEF Before, Location
<1>6. CASE i <= r
  <2>1. r \in DOMAIN decls /\ ~ Before(loc, decls[r].src)
    BY <1>1, <1>2, <1>6 DEF Between
  <2>2. CASE i = r
    BY <1>6, <2>1, <2>2 DEF r
  <2>3. CASE i < r
    <3>1. ~ Before(decls[r].src, decls[i].src)
      BY <2>1, <2>3 DEF InTextOrder
    <3>2. ~ Before(loc, decls[i].src)
      BY <1>3, <1>4, <2>1, <3>1
    <3> QED
      BY <1>6, <3>2 DEF r
  <2> QED
    BY <1>2, <1>6, <2>2, <2>3
<1>7. CASE ~ (i <= r)
  <2>1. r + 1 \in DOMAIN decls /\ r < Len(decls) /\ r + 1 <= i
    BY <1>2, <1>7
  <2>2. Before(loc, decls[r + 1].src)
    BY <1>1, <2>1 DEF Between
  <2>3. r + 1 = i \/ ~ Before(decls[i].src, decls[r + 1].src)
    BY <1>2, <2>1 DEF InTextOrder
  <2>4. Before(loc, decls[i].src)
    BY <1>3, <1>5, <2>1, <2>2, <2>3
  <2> QED
    BY <1>7, <2>4 DEF r
<1> QED
  BY <1>6, <1>7

(* get returns an entry of the vector, whatever its order (SymTable.cpp:88): *)
(* one that does not come after the use, or the first where a declaration   *)
(* may come after it.                                                       *)
THEOREM GetStaysInVector ==
  ASSUME NEW table \in Table, NEW key \in Name, NEW loc,
         Get(table, key, loc).kind = "var"
  PROVE  LET decls == table.symbols[key].decls
             at    == Get(table, key, loc).at
         IN  /\ table.symbols[key].kind = "ssa"
             /\ at \in DOMAIN decls
             /\ Before(loc, decls[at].src) => at = 1 /\ table.scope_context # "SCOPE"
<1> DEFINE b == table.symbols[key]
           decls == b.decls
           next == UpperBound(decls, loc)
           at == Get(table, key, loc).at
<1>1. /\ b \in Binding /\ decls \in Seq(SymbolInfo) /\ Len(decls) \in Nat
      /\ DOMAIN decls = 1 .. Len(decls)
  BY DEF Table, Binding
<1>2. Between(decls, loc, 0, Len(decls), next)
  BY <1>1, UpperBoundStops
<1>3. next \in 0 .. Len(decls)
  BY <1>1, <1>2 DEF Between
<1>4. b.kind = "ssa" /\ decls # <<>>
  BY <1>1 DEF Get, NotFound, Binding
<1>5. at = IF next > 0 THEN next ELSE 1
  BY <1>3, <1>4 DEF Get, NotFound
<1>6. next = 0 => table.scope_context # "SCOPE"
  BY <1>4 DEF Get, NotFound
<1> HIDE DEF next, at
<1>7. at \in DOMAIN decls
  BY <1>1, <1>3, <1>4, <1>5
<1>8. Before(loc, decls[at].src) => next = 0
  BY <1>2, <1>3, <1>5 DEF Between
<1> QED
  BY <1>4, <1>5, <1>6, <1>7, <1>8 DEF at


-----------------------------------------------------------------------------
(* Climbing to the table that binds a name.                                *)

(* An arena whose tables stand below earlier ones, and in which a name that
   is bound to a table is bound to one of the arena. *)
Rooted(arena) ==
  /\ arena \in Seq(Table) /\ GlobalSymIndex \in DOMAIN arena
  /\ \A t \in DOMAIN arena :
       /\ arena[t].parent \in 0 .. t - 1
       /\ \A n \in Name : arena[t].symbols[n].kind = "index"
                            => arena[t].symbols[n].index \in DOMAIN arena

(* One step of the climb, with f for the climb from the parent. *)
Climbing(arena, key, f, s) ==
  IF s = None THEN None
  ELSE IF Exists(arena[s], key) THEN s ELSE f[arena[s].parent]

Climbs(arena, key, n, f) == f = [s \in 0 .. n |-> Climbing(arena, key, f, s)]

LEMMA ClimbExists ==
  ASSUME NEW arena, Rooted(arena), NEW key
  PROVE  \E f : Climbs(arena, key, Len(arena), f)
<1> DEFINE N == Len(arena)
           T == {n \in 0 .. N : ~ \E f : Climbs(arena, key, n, f)}
<1>1. N \in Nat /\ \A t \in 1 .. N : arena[t].parent \in 0 .. t - 1
  BY DEF Rooted
<1> HIDE DEF N
<1>2. T = {}
  <2> SUFFICES ASSUME T # {} PROVE FALSE
    OBVIOUS
  <2>1. T \subseteq Nat
    BY <1>1
  <2>2. PICK m \in T : \A k \in T : m <= k
    BY <2>1, LeastNat
  <2>3. m \in 0 .. N /\ m \in Nat /\ ~ \E f : Climbs(arena, key, m, f)
    BY <1>1
  <2> DEFINE g(f) == [s \in 0 .. m |-> Climbing(arena, key, f, s)]
  <2>4. CASE m = 0
    <3>1. \A f : \A s \in 0 .. m : Climbing(arena, key, f, s) = None
      BY <2>4 DEF Climbing, None
    <3>2. Climbs(arena, key, m, g(<<>>))
      BY <3>1 DEF Climbs
    <3> QED
      BY <2>3, <3>2
  <2>5. CASE m # 0
    <3>1. m - 1 \in 0 .. N /\ ~ (m <= m - 1) /\ m - 1 \in Nat
      BY <1>1, <2>3, <2>5
    <3>2. m - 1 \notin T
      BY <2>2, <3>1
    <3>3. PICK f : Climbs(arena, key, m - 1, f)
      BY <3>1, <3>2
    <3>4. \A s \in 0 .. m - 1 : f[s] = Climbing(arena, key, f, s)
      BY <3>3 DEF Climbs
    <3>5. \A s \in 0 .. m : g(f)[s] = Climbing(arena, key, f, s)
      OBVIOUS
    <3>6. \A s \in 0 .. m - 1 : g(f)[s] = f[s]
      BY <2>3, <3>1, <3>4, <3>5
    <3> HIDE DEF g
    <3>7. ASSUME NEW s \in 0 .. m
          PROVE  Climbing(arena, key, f, s) = Climbing(arena, key, g(f), s)
      <4>1. CASE s = 0
        BY <4>1 DEF Climbing, None
      <4>2. CASE s # 0
        <5>1. arena[s].parent \in 0 .. m - 1
          <6>1. s \in 1 .. N /\ s <= m
            BY <1>1, <2>3, <4>2
          <6>2. arena[s].parent \in 0 .. s - 1
            BY <1>1, <6>1
          <6> QED
            BY <2>3, <6>1, <6>2
        <5>2. g(f)[arena[s].parent] = f[arena[s].parent]
          BY <3>6, <5>1
        <5> QED
          BY <5>2 DEF Climbing
      <4> QED
        BY <4>1, <4>2
    <3>8. Climbs(arena, key, m, g(f))
      BY <3>7 DEF Climbs, g
    <3> QED
      BY <2>3, <3>8
  <2> QED
    BY <2>4, <2>5
<1>3. N \in 0 .. N
  BY <1>1
<1> QED
  BY <1>2, <1>3 DEF N

(* mostRecentDef is the nearest table that binds the name: the one it is   *)
(* asked in, or that of its parent, and there is an end to the parents     *)
(* (SymTable.cpp:171).                                                     *)
THEOREM MostRecentDefClimbs ==
  ASSUME NEW arena, Rooted(arena), NEW key, NEW t \in 0 .. Len(arena)
  PROVE  /\ MostRecentDef(arena, t, key) =
              IF t = None THEN None
              ELSE IF Exists(arena[t], key) THEN t
                   ELSE MostRecentDef(arena, arena[t].parent, key)
         /\ MostRecentDef(arena, t, key) \in 0 .. t
         /\ MostRecentDef(arena, t, key) # None
              => Exists(arena[MostRecentDef(arena, t, key)], key)
<1> DEFINE N == Len(arena)
           Step(f, s) == IF s = None THEN None
                         ELSE IF Exists(arena[s], key) THEN s ELSE f[arena[s].parent]
           climb == CHOOSE f : f = [s \in 0 .. N |-> Step(f, s)]
<1>1. N \in Nat /\ \A s \in 1 .. N : arena[s].parent \in 0 .. s - 1
  BY DEF Rooted
<1>2. Climbs(arena, key, N, climb)
  <2>1. \A f : f = [s \in 0 .. N |-> Step(f, s)] <=> Climbs(arena, key, N, f)
    BY DEF Climbs, Climbing
  <2>2. \E f : f = [s \in 0 .. N |-> Step(f, s)]
    BY <2>1, ClimbExists
  <2> QED
    BY <2>1, <2>2
<1>3. \A s : MostRecentDef(arena, s, key) = climb[s]
  BY DEF MostRecentDef
<1> HIDE DEF climb, N
<1>4. \A s \in 0 .. N : climb[s] = IF s = 0 THEN 0
                                   ELSE IF Exists(arena[s], key) THEN s
                                        ELSE climb[arena[s].parent]
  BY <1>2 DEF Climbs, Climbing, None
<1> DEFINE Good(s) == climb[s] \in 0 .. s /\ (climb[s] # 0 => Exists(arena[climb[s]], key))
           T == {s \in 0 .. N : ~ Good(s)}
<1>5. T = {}
  <2> SUFFICES ASSUME T # {} PROVE FALSE
    OBVIOUS
  <2>1. T \subseteq Nat
    BY <1>1
  <2>2. PICK m \in T : \A k \in T : m <= k
    BY <2>1, LeastNat
  <2>3. m \in 0 .. N /\ m \in Nat /\ ~ Good(m)
    BY <1>1
  <2>4. m # 0 /\ ~ Exists(arena[m], key)
    BY <1>1, <1>4, <2>3
  <2>5. climb[m] = climb[arena[m].parent]
    BY <1>4, <2>3, <2>4
  <2>6. arena[m].parent \in 0 .. m - 1
    BY <1>1, <2>3, <2>4
  <2> DEFINE q == arena[m].parent
  <2> HIDE DEF T, q
  <2>7. q \in 0 .. m - 1 /\ q \in Nat /\ q < m /\ m <= N
    BY <2>3, <2>6 DEF q
  <2>8. q \in 0 .. N /\ q \notin T
    BY <1>1, <2>2, <2>3, <2>7
  <2>9. Good(q)
    BY <2>8 DEF T
  <2> QED
    BY <2>3, <2>5, <2>7, <2>9 DEF q
<1>6. Good(t) /\ t \in 0 .. N
  BY <1>5 DEF N
<1> QED
  BY <1>3, <1>4, <1>6 DEF None

-----------------------------------------------------------------------------
(* Following a path from table to table.                                   *)

(* One step along the path, with f for the rest of it. *)
Following(arena, path, f, s) ==
  LET t == s[1]
      i == s[2]
  IN  IF i <= Len(path) /\ arena[t].symbols[path[i]].kind = "index"
      THEN f[<<arena[t].symbols[path[i]].index, i + 1>>]
      ELSE [table |-> t, part |-> i]

(* The parts of the path are followed from the one given on, and its end. *)
Follows(tables, arena, path, from, f) ==
  f = [s \in tables \X (from .. Len(path) + 1) |-> Following(arena, path, f, s)]

(* A path as a variable has it: an empty name can only come first. *)
Named(path) ==
  /\ path \in Seq(Name \cup {""}) /\ path # <<>>
  /\ \A j \in 2 .. Len(path) : path[j] \in Name


LEMMA FollowExists ==
  ASSUME NEW tables, NEW arena,
         \A t \in tables : \A n \in Name :
           arena[t].symbols[n].kind = "index" => arena[t].symbols[n].index \in tables,
         NEW path, NEW N \in Nat, N <= Len(path), Len(path) \in Nat,
         \A i \in Len(path) + 1 - N .. Len(path) : path[i] \in Name
  PROVE  \E f : Follows(tables, arena, path, Len(path) + 1 - N, f)
<1> DEFINE L == Len(path)
           From(n) == tables \X (L + 1 - n .. L + 1)
           T == {n \in 0 .. N : ~ \E f : Follows(tables, arena, path, L + 1 - n, f)}
<1>1. T = {}
  <2> SUFFICES ASSUME T # {} PROVE FALSE
    OBVIOUS
  <2>1. T \subseteq Nat
    OBVIOUS
  <2>2. PICK m \in T : \A k \in T : m <= k
    BY <2>1, LeastNat
  <2>3. m \in 0 .. N /\ m \in Nat /\ L \in Nat /\ ~ \E f : Follows(tables, arena, path, L + 1 - m, f)
    OBVIOUS
  <2> DEFINE g(f) == [s \in From(m) |-> Following(arena, path, f, s)]
  <2>4. CASE m = 0
    <3>1. \A f : \A s \in From(m) : Following(arena, path, f, s) = [table |-> s[1], part |-> s[2]]
      BY <2>3, <2>4 DEF Following
    <3>2. Follows(tables, arena, path, L + 1 - m, g(<<>>))
      BY <3>1 DEF Follows
    <3> QED
      BY <2>3, <3>2
  <2>5. CASE m # 0
    <3>1. m - 1 \in 0 .. N /\ ~ (m <= m - 1) /\ m - 1 \in Nat
      BY <2>3, <2>5
    <3>2. m - 1 \notin T
      BY <2>2, <3>1
    <3>3. PICK f : Follows(tables, arena, path, L + 1 - (m - 1), f)
      BY <3>1, <3>2
    <3>4. \A s \in From(m - 1) : f[s] = Following(arena, path, f, s)
      BY <3>3 DEF Follows
    <3>5. \A s \in From(m) : g(f)[s] = Following(arena, path, f, s)
      OBVIOUS
    <3>6. \A s \in From(m - 1) : g(f)[s] = f[s]
      <4>1. L + 1 - (m - 1) .. L + 1 \subseteq L + 1 - m .. L + 1
        BY <2>3, <3>1
      <4> QED
        BY <3>4, <3>5, <4>1
    <3> HIDE DEF g
    <3>7. ASSUME NEW s \in From(m)
          PROVE  Following(arena, path, f, s) = Following(arena, path, g(f), s)
      <4> DEFINE t == s[1]
                 i == s[2]
                 to == arena[t].symbols[path[i]].index
      <4>1. t \in tables /\ i \in L + 1 - m .. L + 1
        OBVIOUS
      <4>2. CASE ~ (i <= L /\ arena[t].symbols[path[i]].kind = "index")
        BY <4>2 DEF Following
      <4>3. CASE i <= L /\ arena[t].symbols[path[i]].kind = "index"
        <5>1. i \in L + 1 - N .. L /\ i + 1 \in L + 1 - (m - 1) .. L + 1
          BY <2>3, <4>1, <4>3
        <5>2. to \in tables
          BY <4>1, <4>3, <5>1
        <5>3. g(f)[<<to, i + 1>>] = f[<<to, i + 1>>]
          BY <3>6, <5>1, <5>2
        <5> QED
          BY <4>3, <5>3 DEF Following
      <4> QED
        BY <4>2, <4>3
    <3>8. Follows(tables, arena, path, L + 1 - m, g(f))
      BY <3>7 DEF Follows, g
    <3> QED
      BY <2>3, <3>8
  <2> QED
    BY <2>4, <2>5
<1>2. N \in 0 .. N
  OBVIOUS
<1> QED
  BY <1>1, <1>2

LEMMA FollowsInArena ==
  ASSUME NEW tables, NEW arena,
         \A t \in tables : \A n \in Name :
           arena[t].symbols[n].kind = "index" => arena[t].symbols[n].index \in tables,
         NEW path, NEW N \in Nat, N <= Len(path), Len(path) \in Nat,
         \A i \in Len(path) + 1 - N .. Len(path) : path[i] \in Name,
         NEW f, Follows(tables, arena, path, Len(path) + 1 - N, f)
  PROVE  \A t \in tables : \A i \in Len(path) + 1 - N .. Len(path) + 1 :
            f[<<t, i>>].table \in tables /\ f[<<t, i>>].part \in i .. Len(path) + 1
<1> DEFINE L == Len(path)
           Good(n) == \A t \in tables :
                        /\ f[<<t, L + 1 - n>>].table \in tables
                        /\ f[<<t, L + 1 - n>>].part \in L + 1 - n .. L + 1
           T == {n \in 0 .. N : ~ Good(n)}
<1>1. T = {}
  <2> SUFFICES ASSUME T # {} PROVE FALSE
    OBVIOUS
  <2>1. T \subseteq Nat
    OBVIOUS
  <2>2. PICK m \in T : \A k \in T : m <= k
    BY <2>1, LeastNat
  <2>3. m \in 0 .. N /\ m \in Nat /\ L \in Nat /\ ~ Good(m)
    OBVIOUS
  <2> DEFINE i == L + 1 - m
  <2>4. i \in L + 1 - N .. L + 1 /\ i \in Nat
    BY <2>3
  <2>5. ASSUME NEW t \in tables
        PROVE  f[<<t, i>>].table \in tables /\ f[<<t, i>>].part \in i .. L + 1
    <3>1. <<t, i>> \in tables \X (L + 1 - N .. L + 1)
      BY <2>4
    <3>2. f[<<t, i>>] = Following(arena, path, f, <<t, i>>)
      BY <3>1 DEF Follows
    <3> HIDE DEF i
    <3>3. CASE ~ (i <= L /\ arena[t].symbols[path[i]].kind = "index")
      <4>1. f[<<t, i>>] = [table |-> t, part |-> i]
        BY <3>2, <3>3 DEF Following
      <4> QED
        BY <2>3, <2>4, <4>1
    <3>4. CASE i <= L /\ arena[t].symbols[path[i]].kind = "index"
      <4> DEFINE to == arena[t].symbols[path[i]].index
      <4>1. f[<<t, i>>] = f[<<to, i + 1>>]
        BY <3>2, <3>4 DEF Following
      <4>2. path[i] \in Name
        BY <2>3, <2>4, <3>4
      <4>3. to \in tables
        BY <3>4, <4>2
      <4>4. m - 1 \in 0 .. N /\ ~ (m <= m - 1) /\ i + 1 = L + 1 - (m - 1)
        BY <2>3, <2>4, <3>4 DEF i
      <4>5. Good(m - 1)
        BY <2>2, <4>4
      <4>6. f[<<to, i + 1>>].table \in tables /\ f[<<to, i + 1>>].part \in i + 1 .. L + 1
        BY <4>3, <4>4, <4>5
      <4> QED
        BY <2>3, <2>4, <4>1, <4>6
    <3> QED
      BY <3>3, <3>4
  <2> QED
    BY <2>3, <2>5
<1>2. ASSUME NEW t \in tables, NEW i \in L + 1 - N .. L + 1
      PROVE  f[<<t, i>>].table \in tables /\ f[<<t, i>>].part \in i .. L + 1
  <2>1. L + 1 - i \in 0 .. N /\ L + 1 - (L + 1 - i) = i
    OBVIOUS
  <2>2. Good(L + 1 - i)
    BY <1>1, <2>1
  <2> QED
    BY <2>1, <2>2
<1> QED
  BY <1>2

(* The loop of lookup is a run of such a function. *)
LEMMA FollowRuns ==
  ASSUME NEW arena, Rooted(arena), NEW path, Len(path) \in Nat,
         NEW from \in 1 .. Len(path) + 1, \A i \in from .. Len(path) : path[i] \in Name,
         NEW start \in DOMAIN arena
  PROVE  \E f : /\ Follows(DOMAIN arena, arena, path, from, f)
                /\ Follow(arena, path, from, start) = f[<<start, from>>]
<1> DEFINE tables == DOMAIN arena
           L == Len(path)
           N == L + 1 - from
           Step(f, s) == LET t == s[1]
                             i == s[2]
                         IN  IF i <= Len(path) /\ arena[t].symbols[path[i]].kind = "index"
                             THEN f[<<arena[t].symbols[path[i]].index, i + 1>>]
                             ELSE [table |-> t, part |-> i]
           places == (DOMAIN arena) \X (from .. Len(path) + 1)
           follow == CHOOSE f : f = [s \in places |-> Step(f, s)]
<1>1. Follow(arena, path, from, start) = follow[<<start, from>>]
  BY DEF Follow
<1>2. \A f : \A s : Step(f, s) = Following(arena, path, f, s)
  BY DEF Following
<1>4. \A t \in tables : \A n \in Name :
        arena[t].symbols[n].kind = "index" => arena[t].symbols[n].index \in tables
  BY DEF Rooted
<1>5. N \in Nat /\ N <= L /\ from = L + 1 - N
  OBVIOUS
<1> HIDE DEF Step, N, follow
<1>6. \A f : f = [s \in places |-> Step(f, s)] <=> Follows(tables, arena, path, from, f)
  <2>1. places = tables \X (from .. Len(path) + 1)
    OBVIOUS
  <2> HIDE DEF tables, places
  <2>2. \A f : Follows(tables, arena, path, from, f) <=> f = [s \in places |-> Following(arena, path, f, s)]
    BY <2>1 DEF Follows
  <2> QED
    BY <1>2, <2>2
<1> HIDE DEF tables, places
<1>7. \A i \in L + 1 - N .. L : path[i] \in Name
  BY <1>5
<1>8. \E f : Follows(tables, arena, path, from, f)
  BY <1>4, <1>5, <1>7, FollowExists
<1>9. Follows(tables, arena, path, from, follow)
  <2>1. \E f : f = [s \in places |-> Step(f, s)]
    BY <1>6, <1>8
  <2>2. follow = [s \in places |-> Step(follow, s)]
    BY <2>1 DEF follow
  <2> QED
    BY <1>6, <2>2
<1> QED
  BY <1>1, <1>9 DEF tables

LEMMA FollowStaysInArena ==
  ASSUME NEW arena, Rooted(arena), NEW path, Len(path) \in Nat,
         NEW from \in 1 .. Len(path) + 1, \A i \in from .. Len(path) : path[i] \in Name,
         NEW start \in DOMAIN arena
  PROVE  /\ Follow(arena, path, from, start).table \in DOMAIN arena
         /\ Follow(arena, path, from, start).part \in from .. Len(path) + 1
<1> DEFINE tables == DOMAIN arena
           L == Len(path)
           N == L + 1 - from
<1>1. PICK f : /\ Follows(tables, arena, path, from, f)
               /\ Follow(arena, path, from, start) = f[<<start, from>>]
  BY FollowRuns
<1>2. \A t \in tables : \A n \in Name :
        arena[t].symbols[n].kind = "index" => arena[t].symbols[n].index \in tables
  BY DEF Rooted
<1>3. N \in Nat /\ N <= L /\ from = L + 1 - N /\ from \in L + 1 - N .. L + 1 /\ start \in tables
  OBVIOUS
<1> HIDE DEF N, tables
<1>4. \A i \in L + 1 - N .. L : path[i] \in Name
  BY <1>3
<1>5. f[<<start, from>>].table \in tables /\ f[<<start, from>>].part \in from .. L + 1
  BY <1>1, <1>2, <1>3, <1>4, FollowsInArena
<1> QED
  BY <1>1, <1>5 DEF tables

LEMMA PathParts ==
  ASSUME NEW path, Named(path)
  PROVE  /\ Len(path) \in Nat /\ Len(path) >= 1 /\ path[1] \in Name \cup {""}
         /\ \A j \in 2 .. Len(path) : path[j] \in Name
<1>1. \A S : \A q \in Seq(S) : q # <<>> => Len(q) \in Nat /\ Len(q) >= 1 /\ q[1] \in S
  OBVIOUS
<1> QED
  BY <1>1 DEF Named

(* lookup returns a table of the arena, whatever path it is given, so that *)
(* its caller may take the table there without a test (ast.cpp:1046,       *)
(* VarRefPass.cpp:40).                                                     *)
THEOREM LookupStaysInArena ==
  ASSUME NEW arena, Rooted(arena), NEW current \in DOMAIN arena, NEW path, Named(path)
  PROVE  /\ Lookup(arena, current, path).table \in DOMAIN arena
         /\ Lookup(arena, current, path).part \in 1 .. Len(path) + 1
<1> DEFINE def == MostRecentDef(arena, current, path[1])
           L == Len(path)
           empty == path[1] = ""
           found == Lookup(arena, current, path)
<1>1. L \in Nat /\ L >= 1 /\ (empty \/ path[1] \in Name)
  BY PathParts
<1>2. \A i \in 2 .. L : path[i] \in Name
  BY PathParts
<1>3. GlobalSymIndex \in DOMAIN arena /\ (def # None => def \in DOMAIN arena)
  <2>1. current \in 0 .. Len(arena) /\ DOMAIN arena = 1 .. Len(arena) /\ current <= Len(arena)
    BY DEF Rooted
  <2>2. def \in 0 .. current
    BY <2>1, MostRecentDefClimbs
  <2> QED
    BY <2>1, <2>2 DEF Rooted, None
<1>4. found = CASE empty               -> Follow(arena, path, 2, GlobalSymIndex)
                [] ~ empty /\ def = None -> [table |-> current, part |-> 1]
                [] ~ empty /\ def # None -> Follow(arena, path, 1, def)
  BY DEF Lookup
<1> HIDE DEF def, found, empty
<1>5. ASSUME NEW from \in {1, 2}, NEW start \in DOMAIN arena, from = 1 => ~ empty
      PROVE  /\ Follow(arena, path, from, start).table \in DOMAIN arena
             /\ Follow(arena, path, from, start).part \in 1 .. L + 1
  <2> HIDE DEF L
  <2>1. from \in 1 .. L + 1 /\ from .. L + 1 \subseteq 1 .. L + 1
    BY <1>1
  <2>2. \A i \in from .. L : i = 1 \/ i \in 2 .. L
    BY <1>1
  <2>3. \A i \in from .. L : path[i] \in Name
    BY <1>1, <1>2, <1>5, <2>2
  <2> QED
    BY <1>1, <2>1, <2>3, FollowStaysInArena DEF L
<1>6. CASE empty
  BY <1>3, <1>4, <1>5, <1>6 DEF found
<1>7. CASE ~ empty /\ def = None
  <2>1. found = [table |-> current, part |-> 1]
    BY <1>4, <1>7
  <2>2. 1 \in 1 .. L + 1
    BY <1>1
  <2> QED
    BY <2>1, <2>2 DEF found
<1>8. CASE ~ empty /\ def # None
  BY <1>3, <1>4, <1>5, <1>8 DEF found
<1> QED
  BY <1>6, <1>7, <1>8

-----------------------------------------------------------------------------
(* One entry of s for each node open at event i, the innermost first. *)
StackOf(s, p, kinds, i) ==
  /\ \A k \in DOMAIN s : s[k].node \in Open(p, kinds, i)
  /\ \A o \in Open(p, kinds, i) : \E k \in DOMAIN s : s[k].node = o
  /\ \A k, l \in DOMAIN s : k < l => s[l].node < s[k].node

Walkable(p) == p \in Seq(Event) /\ WellNested(p)

-----------------------------------------------------------------------------
(* The set of open nodes along the walk.                                   *)

LEMMA Ends ==
  ASSUME NEW p, Walkable(p), NEW o \in DOMAIN p, p[o].op \in Openers
  PROVE  /\ EndOf(p, o) \in DOMAIN p /\ EndOf(p, o) \in Nat /\ o \in Nat /\ o >= 1 /\ o < EndOf(p, o)
         /\ <<p[o].op, p[EndOf(p, o)].op>> \in Brackets
         /\ p[EndOf(p, o)].op \in Closers /\ p[EndOf(p, o)].op \notin Openers
         /\ EndOf(p, o) + 1 \in 1 .. Len(p) + 1 /\ EndOf(p, o) \in 1 .. Len(p) + 1
<1>1. /\ EndOf(p, o) \in DOMAIN p /\ o < EndOf(p, o)
      /\ <<p[o].op, p[EndOf(p, o)].op>> \in Brackets
  BY DEF Walkable, WellNested
<1>2. DOMAIN p = 1 .. Len(p) /\ Len(p) \in Nat
  BY DEF Walkable
<1>3. p[EndOf(p, o)].op \in Closers /\ p[EndOf(p, o)].op \notin Openers
  BY <1>1 DEF Brackets, Closers, Openers
<1> QED
  BY <1>1, <1>2, <1>3

(* A node that opens in another one closes in it. *)
LEMMA Laminar ==
  ASSUME NEW p, Walkable(p), NEW o \in DOMAIN p, p[o].op \in Openers,
         NEW i \in DOMAIN p, p[i].op \in Openers, o < i, i <= EndOf(p, o)
  PROVE  EndOf(p, i) < EndOf(p, o)
<1>1. \A j \in o + 1 .. EndOf(p, o) : p[j].op \in Openers => EndOf(p, j) < EndOf(p, o)
  BY DEF Walkable, WellNested
<1>2. i \in o + 1 .. EndOf(p, o)
  BY Ends DEF Walkable
<1> QED
  BY <1>1, <1>2

LEMMA NothingOpen ==
  ASSUME NEW p, Walkable(p), NEW kinds \in SUBSET Openers
  PROVE  Open(p, kinds, 1) = {} /\ Open(p, kinds, Len(p) + 1) = {}
<1>1. Len(p) \in Nat /\ DOMAIN p = 1 .. Len(p)
  BY DEF Walkable
<1>2. Open(p, kinds, 1) = {}
  BY DEF Open
<1>3. ASSUME NEW o \in Open(p, kinds, Len(p) + 1) PROVE FALSE
  <2>1. o \in DOMAIN p /\ p[o].op \in Openers /\ Len(p) + 1 <= EndOf(p, o)
    BY <1>1 DEF Open
  <2>2. EndOf(p, o) \in 1 .. Len(p)
    BY <1>1, <2>1, Ends
  <2> QED
    BY <1>1, <2>1, <2>2
<1> QED
  BY <1>2, <1>3

LEMMA OpenIsOpener ==
  ASSUME NEW p, Walkable(p), NEW kinds \in SUBSET Openers, NEW i \in 1 .. Len(p) + 1,
         NEW o \in Open(p, kinds, i)
  PROVE  o \in DOMAIN p /\ p[o].op \in kinds /\ p[o].op \in Openers /\ o \in Nat /\ o >= 1
         /\ o < i /\ i <= EndOf(p, o)
  BY DEF Open, Walkable

(* An event that neither opens nor closes a node of the kinds. *)
LEMMA OpenAfterOther ==
  ASSUME NEW p, Walkable(p), NEW kinds \in SUBSET Openers, NEW i \in DOMAIN p,
         p[i].op \notin kinds, \A k \in kinds : <<k, p[i].op>> \notin Brackets
  PROVE  Open(p, kinds, i + 1) = Open(p, kinds, i)
<1>1. i \in Nat /\ i + 1 \in 1 .. Len(p) + 1 /\ i \in 1 .. Len(p) + 1
  BY DEF Walkable
<1>2. ASSUME NEW o \in Open(p, kinds, i + 1) PROVE o \in Open(p, kinds, i)
  <2>1. o \in Nat /\ o < i + 1 /\ p[o].op \in kinds /\ i + 1 <= EndOf(p, o) /\ o >= 1
    BY <1>1 DEF Open
  <2>2. o # i
    BY <2>1
  <2>3. EndOf(p, o) \in Nat
    BY <1>1, Ends, OpenIsOpener
  <2> QED
    BY <1>1, <2>1, <2>2, <2>3 DEF Open
<1>3. ASSUME NEW o \in Open(p, kinds, i) PROVE o \in Open(p, kinds, i + 1)
  <2>1. /\ o \in DOMAIN p /\ o \in Nat /\ o < i /\ o >= 1
        /\ p[o].op \in kinds /\ p[o].op \in Openers /\ i <= EndOf(p, o)
    BY <1>1, OpenIsOpener
  <2>2. EndOf(p, o) \in Nat /\ <<p[o].op, p[EndOf(p, o)].op>> \in Brackets
    BY <2>1, Ends
  <2>3. EndOf(p, o) # i
    BY <2>1, <2>2
  <2> QED
    BY <1>1, <2>1, <2>2, <2>3 DEF Open
<1> QED
  BY <1>2, <1>3

(* An event that opens no node of the kinds leaves no more of them open. *)
LEMMA OpenShrinks ==
  ASSUME NEW p, Walkable(p), NEW kinds \in SUBSET Openers, NEW i \in DOMAIN p,
         p[i].op \notin kinds
  PROVE  Open(p, kinds, i + 1) \subseteq Open(p, kinds, i)
<1>1. i \in Nat /\ i + 1 \in 1 .. Len(p) + 1
  BY DEF Walkable
<1> SUFFICES ASSUME NEW o \in Open(p, kinds, i + 1) PROVE o \in Open(p, kinds, i)
  OBVIOUS
<1>2. o \in Nat /\ o < i + 1 /\ p[o].op \in kinds /\ i + 1 <= EndOf(p, o) /\ o >= 1
  BY <1>1 DEF Open
<1>3. o # i /\ EndOf(p, o) \in Nat
  BY <1>1, <1>2, Ends, OpenIsOpener
<1> QED
  BY <1>1, <1>2, <1>3 DEF Open

(* An event that opens a node. *)
LEMMA OpenAfterOpener ==
  ASSUME NEW p, Walkable(p), NEW kinds \in SUBSET Openers, NEW i \in DOMAIN p,
         p[i].op \in Openers
  PROVE  /\ Open(p, kinds, i + 1) = Open(p, kinds, i) \cup (IF p[i].op \in kinds THEN {i} ELSE {})
         /\ \A o \in Open(p, kinds, i) : o < i
<1>1. i \in Nat /\ i + 1 \in 1 .. Len(p) + 1 /\ i \in 1 .. Len(p) + 1 /\ i >= 1
  BY DEF Walkable
<1>2. i < EndOf(p, i) /\ EndOf(p, i) \in Nat
  BY Ends
<1>3. ASSUME NEW o \in Open(p, kinds, i + 1)
      PROVE  o \in Open(p, kinds, i) \cup (IF p[i].op \in kinds THEN {i} ELSE {})
  <2>1. o \in Nat /\ o < i + 1 /\ p[o].op \in kinds /\ i + 1 <= EndOf(p, o) /\ o >= 1
    BY <1>1 DEF Open
  <2>2. EndOf(p, o) \in Nat
    BY <1>1, Ends, OpenIsOpener
  <2>3. CASE o = i
    BY <2>1, <2>3
  <2>4. CASE o # i
    BY <1>1, <2>1, <2>2, <2>4 DEF Open
  <2> QED
    BY <2>3, <2>4
<1>4. ASSUME NEW o \in Open(p, kinds, i) PROVE o \in Open(p, kinds, i + 1) /\ o < i
  <2>1. /\ o \in DOMAIN p /\ o \in Nat /\ o < i /\ o >= 1
        /\ p[o].op \in kinds /\ p[o].op \in Openers /\ i <= EndOf(p, o)
    BY <1>1, OpenIsOpener
  <2>2. EndOf(p, o) \in Nat /\ p[EndOf(p, o)].op \notin Openers
    BY <2>1, Ends
  <2>3. EndOf(p, o) # i
    BY <2>2
  <2> QED
    BY <1>1, <2>1, <2>2, <2>3 DEF Open
<1>5. p[i].op \in kinds => i \in Open(p, kinds, i + 1)
  BY <1>1, <1>2 DEF Open
<1> QED
  BY <1>3, <1>4, <1>5

(* An event that opens a node of another kind. *)
LEMMA OpenAside ==
  ASSUME NEW p, Walkable(p), NEW kinds \in SUBSET Openers, NEW i \in DOMAIN p,
         p[i].op \in Openers \ kinds
  PROVE  Open(p, kinds, i) = Open(p, kinds, i + 1)
<1>1. Open(p, kinds, i + 1) = Open(p, kinds, i) \cup {}
  BY OpenAfterOpener
<1> QED
  BY <1>1

(* Behind a node the same nodes are open as before it. *)
LEMMA OpenBehind ==
  ASSUME NEW p, Walkable(p), NEW kinds \in SUBSET Openers, NEW i \in DOMAIN p,
         p[i].op \in Openers
  PROVE  Open(p, kinds, EndOf(p, i) + 1) = Open(p, kinds, i)
<1>1. i \in Nat /\ i \in 1 .. Len(p) + 1 /\ i >= 1
  BY DEF Walkable
<1>2. /\ i < EndOf(p, i) /\ EndOf(p, i) \in Nat /\ EndOf(p, i) + 1 \in 1 .. Len(p) + 1
      /\ p[EndOf(p, i)].op \notin Openers
  BY Ends
<1>3. ASSUME NEW o \in Open(p, kinds, EndOf(p, i) + 1) PROVE o \in Open(p, kinds, i)
  <2>1. /\ o \in DOMAIN p /\ o \in Nat /\ o < EndOf(p, i) + 1 /\ o >= 1
        /\ p[o].op \in kinds /\ p[o].op \in Openers /\ EndOf(p, i) + 1 <= EndOf(p, o)
    BY <1>2, OpenIsOpener
  <2>2. EndOf(p, o) \in Nat
    BY <2>1, Ends
  <2>3. o # i /\ o # EndOf(p, i)
    BY <1>2, <2>1, <2>2
  <2>4. ~ (i < o)
    <3> SUFFICES ASSUME i < o PROVE FALSE
      OBVIOUS
    <3>1. o <= EndOf(p, i)
      BY <1>2, <2>1
    <3>2. EndOf(p, o) < EndOf(p, i)
      BY <2>1, <3>1, Laminar
    <3> QED
      BY <1>2, <2>1, <2>2, <3>2
  <2> QED
    BY <1>1, <1>2, <2>1, <2>2, <2>3, <2>4 DEF Open
<1>4. ASSUME NEW o \in Open(p, kinds, i) PROVE o \in Open(p, kinds, EndOf(p, i) + 1)
  <2>1. /\ o \in DOMAIN p /\ o \in Nat /\ o < i /\ o >= 1
        /\ p[o].op \in kinds /\ p[o].op \in Openers /\ i <= EndOf(p, o)
    BY <1>1, OpenIsOpener
  <2>2. EndOf(p, i) < EndOf(p, o) /\ EndOf(p, o) \in Nat
    BY <2>1, Laminar, Ends
  <2> QED
    BY <1>1, <1>2, <2>1, <2>2 DEF Open
<1> QED
  BY <1>3, <1>4

(* Events inside a node that neither open nor close anything are passed over
   in one step, as the arguments of a function are. *)
LEMMA OpenAfterLeaves ==
  ASSUME NEW p, Walkable(p), NEW kinds \in SUBSET Openers, NEW i \in DOMAIN p,
         NEW j \in i + 1 .. Len(p) + 1,
         \A a \in i + 1 .. j - 1 : p[a].op \notin Openers \cup Closers
  PROVE  Open(p, kinds, j) = Open(p, kinds, i + 1)
<1>1. i \in Nat /\ i >= 1 /\ j \in Nat /\ i + 1 \in 1 .. Len(p) + 1 /\ j \in 1 .. Len(p) + 1 /\ i < j
  BY DEF Walkable
<1>2. ASSUME NEW o \in Open(p, kinds, j) PROVE o \in Open(p, kinds, i + 1)
  <2>1. /\ o \in DOMAIN p /\ o \in Nat /\ o >= 1 /\ o < j /\ j <= EndOf(p, o)
        /\ p[o].op \in kinds /\ p[o].op \in Openers
    BY <1>1, OpenIsOpener
  <2>2. EndOf(p, o) \in Nat
    BY <2>1, Ends
  <2>3. o <= i
    BY <1>1, <2>1
  <2> QED
    BY <1>1, <2>1, <2>2, <2>3 DEF Open
<1>3. ASSUME NEW o \in Open(p, kinds, i + 1) PROVE o \in Open(p, kinds, j)
  <2>1. /\ o \in DOMAIN p /\ o \in Nat /\ o >= 1 /\ o < i + 1 /\ i + 1 <= EndOf(p, o)
        /\ p[o].op \in kinds /\ p[o].op \in Openers
    BY <1>1, OpenIsOpener
  <2>2. EndOf(p, o) \in Nat /\ p[EndOf(p, o)].op \in Closers
    BY <2>1, Ends
  <2>3. EndOf(p, o) >= j
    BY <1>1, <2>1, <2>2
  <2> QED
    BY <1>1, <2>1, <2>2, <2>3 DEF Open
<1> QED
  BY <1>2, <1>3

(* At the end of a node it is open, and innermost. *)
LEMMA OpenAtEnd ==
  ASSUME NEW p, Walkable(p), NEW kinds \in SUBSET Openers, NEW i \in DOMAIN p,
         p[i].op \in kinds
  PROVE  /\ i \in Open(p, kinds, EndOf(p, i))
         /\ \A o \in Open(p, kinds, EndOf(p, i)) : o <= i
<1>1. i \in Nat /\ i >= 1 /\ p[i].op \in Openers
  BY DEF Walkable
<1>2. i < EndOf(p, i) /\ EndOf(p, i) \in Nat /\ EndOf(p, i) \in 1 .. Len(p) + 1
  BY <1>1, Ends
<1>3. i \in Open(p, kinds, EndOf(p, i))
  BY <1>1, <1>2 DEF Open
<1>4. ASSUME NEW o \in Open(p, kinds, EndOf(p, i)), ~ (o <= i) PROVE FALSE
  <2>1. /\ o \in DOMAIN p /\ o \in Nat /\ o < EndOf(p, i) /\ p[o].op \in Openers
        /\ EndOf(p, i) <= EndOf(p, o)
    BY <1>2, OpenIsOpener
  <2>2. EndOf(p, o) \in Nat
    BY <2>1, Ends
  <2>3. EndOf(p, o) < EndOf(p, i)
    <3>1. i < o /\ o <= EndOf(p, i)
      BY <1>1, <1>2, <1>4, <2>1
    <3> QED
      BY <1>1, <2>1, <3>1, Laminar
  <2> QED
    BY <1>2, <2>1, <2>2, <2>3
<1> QED
  BY <1>3, <1>4

(* Behind it, it alone is not open any more. *)
LEMMA OpenAfterEnd ==
  ASSUME NEW p, Walkable(p), NEW kinds \in SUBSET Openers, NEW i \in DOMAIN p,
         p[i].op \in kinds
  PROVE  Open(p, kinds, EndOf(p, i) + 1) = Open(p, kinds, EndOf(p, i)) \ {i}
<1>1. p[i].op \in Openers /\ i \in DOMAIN p
  OBVIOUS
<1>2. Open(p, kinds, EndOf(p, i) + 1) = Open(p, kinds, i)
  BY <1>1, OpenBehind
<1>3. /\ EndOf(p, i) \in 1 .. Len(p) + 1 /\ EndOf(p, i) + 1 \in 1 .. Len(p) + 1
      /\ i < EndOf(p, i) /\ EndOf(p, i) \in Nat /\ i \in Nat /\ i >= 1
  BY <1>1, Ends
<1>4. i \notin Open(p, kinds, i)
  BY <1>3 DEF Open
<1>5. ASSUME NEW o \in Open(p, kinds, i) PROVE o \in Open(p, kinds, EndOf(p, i))
  <2>1. o \in Open(p, kinds, EndOf(p, i) + 1) /\ o \in Open(p, kinds, i)
    BY <1>2
  <2>2. /\ o \in Nat /\ o < i /\ o >= 1 /\ p[o].op \in kinds /\ EndOf(p, i) + 1 <= EndOf(p, o)
        /\ o \in DOMAIN p /\ p[o].op \in Openers
    BY <1>3, <2>1, OpenIsOpener
  <2>3. EndOf(p, o) \in Nat
    BY <2>2, Ends
  <2> QED
    BY <1>3, <2>2, <2>3 DEF Open
<1>6. ASSUME NEW o \in Open(p, kinds, EndOf(p, i)), o # i PROVE o \in Open(p, kinds, i)
  <2>1. o <= i
    BY OpenAtEnd
  <2>2. /\ o \in Nat /\ o >= 1 /\ p[o].op \in kinds /\ EndOf(p, i) <= EndOf(p, o)
        /\ o \in DOMAIN p /\ p[o].op \in Openers
    BY <1>3, OpenIsOpener
  <2>3. EndOf(p, o) \in Nat
    BY <2>2, Ends
  <2> QED
    BY <1>3, <1>6, <2>1, <2>2, <2>3 DEF Open
<1> QED
  BY <1>2, <1>4, <1>5, <1>6

(* What closes has been opened. *)
LEMMA Opened ==
  ASSUME NEW p, Walkable(p), NEW j \in DOMAIN p, p[j].op \in Closers
  PROVE  \E i \in DOMAIN p :
           /\ p[i].op \in Openers /\ EndOf(p, i) = j /\ <<p[i].op, p[j].op>> \in Brackets
<1>1. PICK i \in 1 .. j - 1 : p[i].op \in Openers /\ EndOf(p, i) = j
  BY DEF Walkable, WellNested
<1>2. i \in DOMAIN p
  BY DEF Walkable
<1> QED
  BY <1>1, <1>2, Ends

-----------------------------------------------------------------------------
(* The stack along the walk.                                               *)

LEMMA EmptyStack ==
  ASSUME NEW p, Walkable(p), NEW kinds \in SUBSET Openers
  PROVE  StackOf(<<>>, p, kinds, 1)
  BY NothingOpen DEF StackOf

(* At the end of the walk nothing is left on the stack. *)
LEMMA StackEmptied ==
  ASSUME NEW p, Walkable(p), NEW kinds \in SUBSET Openers,
         NEW S, NEW s \in Seq(S), StackOf(s, p, kinds, Len(p) + 1)
  PROVE  s = <<>>
<1>1. Open(p, kinds, Len(p) + 1) = {}
  BY NothingOpen
<1>2. DOMAIN s = {}
  BY <1>1 DEF StackOf
<1> QED
  BY <1>2

LEMMA StackKept ==
  ASSUME NEW p, NEW kinds, NEW i, NEW j, Open(p, kinds, i) = Open(p, kinds, j),
         NEW s, StackOf(s, p, kinds, i)
  PROVE  StackOf(s, p, kinds, j)
  BY DEF StackOf

(* A method that is entered pushes its frame. *)
LEMMA Pushed ==
  ASSUME NEW p, Walkable(p), NEW kinds \in SUBSET Openers, NEW i \in DOMAIN p,
         p[i].op \in kinds,
         NEW S, NEW s \in Seq(S), StackOf(s, p, kinds, i),
         NEW f \in S, f.node = i
  PROVE  StackOf(<<f>> \o s, p, kinds, i + 1)
<1> DEFINE t == <<f>> \o s
<1>1. /\ t \in Seq(S) /\ Len(t) = Len(s) + 1 /\ t[1] = f
      /\ DOMAIN t = 1 .. Len(s) + 1 /\ DOMAIN s = 1 .. Len(s) /\ Len(s) \in Nat
      /\ \A k \in DOMAIN s : t[k + 1] = s[k]
  OBVIOUS
<1>2. \A k \in DOMAIN t : k = 1 \/ (k - 1 \in DOMAIN s /\ t[k] = s[k - 1])
  BY <1>1
<1>3. /\ Open(p, kinds, i + 1) = Open(p, kinds, i) \cup {i}
      /\ \A o \in Open(p, kinds, i) : o < i
  BY OpenAfterOpener
<1> HIDE DEF t
<1>4. \A k \in DOMAIN t : t[k].node \in Open(p, kinds, i + 1)
  BY <1>1, <1>2, <1>3 DEF StackOf
<1>5. ASSUME NEW o \in Open(p, kinds, i + 1) PROVE \E k \in DOMAIN t : t[k].node = o
  <2>1. CASE o = i
    BY <1>1, <2>1
  <2>2. CASE o # i
    <3>1. PICK k \in DOMAIN s : s[k].node = o
      BY <1>3, <2>2 DEF StackOf
    <3>2. k + 1 \in DOMAIN t /\ t[k + 1].node = o
      BY <1>1, <3>1
    <3> QED
      BY <3>2
  <2> QED
    BY <2>1, <2>2
<1>6. ASSUME NEW k \in DOMAIN t, NEW l \in DOMAIN t, k < l PROVE t[l].node < t[k].node
  <2>1. l - 1 \in DOMAIN s /\ t[l] = s[l - 1]
    BY <1>1, <1>2, <1>6
  <2>2. CASE k = 1
    <3>1. s[l - 1].node < i
      BY <1>3, <2>1 DEF StackOf
    <3> QED
      BY <1>1, <2>1, <2>2, <3>1
  <2>3. CASE k # 1
    <3>1. k - 1 \in DOMAIN s /\ t[k] = s[k - 1] /\ k - 1 < l - 1
      BY <1>1, <1>2, <1>6, <2>3
    <3> QED
      BY <2>1, <3>1 DEF StackOf
  <2> QED
    BY <2>2, <2>3
<1>7. StackOf(t, p, kinds, i + 1)
  BY <1>4, <1>5, <1>6 DEF StackOf
<1> QED
  BY <1>7 DEF t

(* Where a node ends its frame is on top of the stack. *)
LEMMA OnTop ==
  ASSUME NEW p, Walkable(p), NEW kinds \in SUBSET Openers, NEW i \in DOMAIN p,
         p[i].op \in kinds,
         NEW S, NEW s \in Seq(S), StackOf(s, p, kinds, EndOf(p, i))
  PROVE  s # <<>> /\ 1 \in DOMAIN s /\ s[1] \in S /\ s[1].node = i
<1>1. DOMAIN s = 1 .. Len(s) /\ Len(s) \in Nat
  OBVIOUS
<1>2. PICK k \in DOMAIN s : s[k].node = i
  BY OpenAtEnd DEF StackOf
<1>3. 1 \in DOMAIN s
  BY <1>1, <1>2
<1>4. s[1].node \in Open(p, kinds, EndOf(p, i)) /\ s[1].node <= i
  BY <1>3, OpenAtEnd DEF StackOf
<1>5. k # 1 => i < s[1].node
  BY <1>1, <1>2, <1>3 DEF StackOf
<1>6. s[1].node \in Nat /\ i \in Nat
  <2>1. p[i].op \in Openers
    OBVIOUS
  <2>2. EndOf(p, i) \in 1 .. Len(p) + 1 /\ i \in Nat
    BY <2>1, Ends
  <2> QED
    BY <1>4, <2>2, OpenIsOpener
<1> QED
  BY <1>1, <1>2, <1>3, <1>4, <1>5, <1>6

(* A method that returns pops it. *)
LEMMA Popped ==
  ASSUME NEW p, Walkable(p), NEW kinds \in SUBSET Openers, NEW i \in DOMAIN p,
         p[i].op \in kinds,
         NEW S, NEW s \in Seq(S), StackOf(s, p, kinds, EndOf(p, i))
  PROVE  /\ Tail(s) \in Seq(S) /\ StackOf(Tail(s), p, kinds, EndOf(p, i) + 1)
         /\ \A k \in DOMAIN Tail(s) : k + 1 \in DOMAIN s /\ Tail(s)[k] = s[k + 1]
<1> DEFINE t == Tail(s)
<1>1. s # <<>> /\ 1 \in DOMAIN s /\ s[1].node = i
  BY OnTop
<1>2. /\ t \in Seq(S) /\ DOMAIN s = 1 .. Len(s) /\ Len(s) \in Nat /\ Len(s) >= 1
      /\ DOMAIN t = 1 .. Len(s) - 1 /\ \A k \in DOMAIN t : k + 1 \in DOMAIN s /\ t[k] = s[k + 1]
  BY <1>1
<1> HIDE DEF t
<1>3. Open(p, kinds, EndOf(p, i) + 1) = Open(p, kinds, EndOf(p, i)) \ {i}
  BY OpenAfterEnd
<1>4. ASSUME NEW k \in DOMAIN t PROVE t[k].node \in Open(p, kinds, EndOf(p, i) + 1)
  <2>1. k + 1 \in DOMAIN s /\ 1 < k + 1 /\ t[k] = s[k + 1]
    BY <1>2
  <2>2. s[k + 1].node < s[1].node /\ s[k + 1].node \in Open(p, kinds, EndOf(p, i))
    BY <1>1, <2>1 DEF StackOf
  <2>3. s[k + 1].node # i
    BY <1>1, <2>2 DEF Walkable
  <2> QED
    BY <1>3, <2>1, <2>2, <2>3
<1>5. ASSUME NEW o \in Open(p, kinds, EndOf(p, i) + 1) PROVE \E k \in DOMAIN t : t[k].node = o
  <2>1. PICK k \in DOMAIN s : s[k].node = o
    BY <1>3 DEF StackOf
  <2>2. k # 1
    BY <1>1, <1>3, <2>1
  <2>3. k - 1 \in DOMAIN t /\ t[k - 1] = s[k]
    BY <1>2, <2>2
  <2> QED
    BY <2>1, <2>3
<1>6. ASSUME NEW k \in DOMAIN t, NEW l \in DOMAIN t, k < l PROVE t[l].node < t[k].node
  BY <1>2, <1>6 DEF StackOf
<1>7. StackOf(t, p, kinds, EndOf(p, i) + 1)
  BY <1>4, <1>5, <1>6 DEF StackOf
<1> QED
  BY <1>2, <1>7 DEF t

-----------------------------------------------------------------------------
(* What the innermost of the open nodes gives: x is the value v has for it, *)
(* or none where no node of the kinds is open.                             *)

InnermostHas(p, kinds, i, none, v, x) ==
  IF Open(p, kinds, i) = {} THEN x = none
  ELSE \E o \in Open(p, kinds, i) : (\A q \in Open(p, kinds, i) : q <= o) /\ x = v[o]

LEMMA AroundNothing ==
  ASSUME NEW p, Walkable(p), NEW kinds \in SUBSET Openers, NEW none, NEW v, NEW x
  PROVE  /\ InnermostHas(p, kinds, 1, none, v, none)
         /\ InnermostHas(p, kinds, Len(p) + 1, none, v, x) => x = none
  BY NothingOpen DEF InnermostHas

LEMMA AroundKept ==
  ASSUME NEW p, NEW kinds, NEW i, NEW j, Open(p, kinds, i) = Open(p, kinds, j),
         NEW none, NEW v, NEW x, InnermostHas(p, kinds, i, none, v, x)
  PROVE  InnermostHas(p, kinds, j, none, v, x)
  BY DEF InnermostHas

(* Only the values of nodes that are open matter. *)
LEMMA AroundOfSame ==
  ASSUME NEW p, NEW kinds, NEW i, NEW none, NEW v, NEW w,
         \A o \in Open(p, kinds, i) : v[o] = w[o],
         NEW x, InnermostHas(p, kinds, i, none, v, x)
  PROVE  InnermostHas(p, kinds, i, none, w, x)
  BY DEF InnermostHas

LEMMA AroundOpened ==
  ASSUME NEW p, Walkable(p), NEW kinds \in SUBSET Openers, NEW i \in DOMAIN p,
         p[i].op \in kinds, NEW none, NEW v
  PROVE  InnermostHas(p, kinds, i + 1, none, v, v[i])
<1>1. p[i].op \in Openers /\ i \in Nat
  BY DEF Walkable
<1>2. /\ Open(p, kinds, i + 1) = Open(p, kinds, i) \cup {i}
      /\ \A o \in Open(p, kinds, i) : o < i
  BY <1>1, OpenAfterOpener
<1>3. i \in Open(p, kinds, i + 1) /\ \A o \in Open(p, kinds, i + 1) : o <= i
  <2>1. \A o \in Open(p, kinds, i) : o \in Nat
    BY DEF Open
  <2> QED
    BY <1>1, <1>2, <2>1
<1> QED
  BY <1>3 DEF InnermostHas

(* At the end of a node of the kinds it is the value of that node. *)
LEMMA AroundAtEnd ==
  ASSUME NEW p, Walkable(p), NEW kinds \in SUBSET Openers, NEW i \in DOMAIN p,
         p[i].op \in kinds, NEW none, NEW v, NEW x, InnermostHas(p, kinds, EndOf(p, i), none, v, x)
  PROVE  x = v[i]
<1>1. /\ i \in Open(p, kinds, EndOf(p, i)) /\ i \in Nat
      /\ \A o \in Open(p, kinds, EndOf(p, i)) : o <= i /\ o \in Int
  <2>1. p[i].op \in Openers
    OBVIOUS
  <2>2. EndOf(p, i) \in 1 .. Len(p) + 1 /\ i \in Nat
    BY <2>1, Ends
  <2>3. i \in Open(p, kinds, EndOf(p, i)) /\ \A o \in Open(p, kinds, EndOf(p, i)) : o <= i
    BY OpenAtEnd
  <2>4. \A o \in Open(p, kinds, EndOf(p, i)) : o \in Nat
    BY <2>2, OpenIsOpener
  <2> QED
    BY <2>2, <2>3, <2>4
<1>2. PICK o \in Open(p, kinds, EndOf(p, i)) :
        (\A q \in Open(p, kinds, EndOf(p, i)) : q <= o) /\ x = v[o]
  BY <1>1 DEF InnermostHas
<1> QED
  BY <1>1, <1>2
=============================================================================
