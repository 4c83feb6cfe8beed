------------------------- MODULE Resolution_proofs -------------------------
(***************************************************************************)
(* Theorems that tie the analysis to the scoping rules: the vectors of the *)
(* symbol tables list the declarations of their scopes, lookup comes to    *)
(* the scope that the rules give, get to the declaration, and the errors   *)
(* are those that the program deserves.                                    *)
(***************************************************************************)
EXTENDS Scoping_proofs

(* The entry that a declaration makes. *)
Info(p, d) == [src |-> p[d].loc, is_mut |-> p[d].mut]

(* The vector has an entry for each of the declarations, in the order in
   which the walk meets them. *)
ListedBy(p, decls, D, order) ==
  /\ order \in [DOMAIN decls -> D]
  /\ \A k, l \in DOMAIN decls : k < l => order[k] < order[l]
  /\ \A d \in D : \E k \in DOMAIN decls : order[k] = d
  /\ \A k \in DOMAIN decls : decls[k] = Info(p, order[k])

Lists(p, decls, D) == \E order : ListedBy(p, decls, D, order)

(* The scopes that have a table by now, and their table. *)
HasTable(s) == s = GlobalScope \/ (s \in DOMAIN ast /\ ast[s].op \in Tabled /\ locals[s] # None)

TableOf(s) == IF s = GlobalScope THEN GlobalSymIndex ELSE locals[s]

(* The declarations that VarDeclPass has come to. *)
Visited == IF pass = "decl" THEN 1 .. pc - 1 ELSE DOMAIN ast

DeclaredSoFar(s, n) == DeclarationsOf(ast, s, n) \cap Visited

(* Every scope has a table of its own, below that of the scope around it. *)
ScopesApart ==
  /\ \A s \in DOMAIN ast : HasTable(s) =>
       /\ locals[s] # GlobalSymIndex
       /\ HasTable(ScopeOf(ast, s)) /\ arena[locals[s]].parent = TableOf(ScopeOf(ast, s))
  /\ \A s, u \in DOMAIN ast : HasTable(s) /\ HasTable(u) /\ locals[s] = locals[u] => s = u

(* The tables that VarDeclPass makes ahead are those of function bodies. *)
TablesAhead ==
  pass = "decl" => \A s \in DOMAIN ast : locals[s] # None =>
    s < pc \/ (ast[s].op = "block" /\ \A a \in pc .. s - 1 : ast[a].op = "arg")

VectorsList ==
  \A s \in 0 .. Len(ast) : HasTable(s) => \A n \in Name :
    Lists(ast, arena[TableOf(s)].symbols[n].decls, DeclaredSoFar(s, n))

TablesMatch == ScopesApart /\ TablesAhead /\ VectorsList

-----------------------------------------------------------------------------
(* Scopes and their declarations.                                          *)

LEMMA ScopeOfFacts ==
  ASSUME NEW p, Walkable(p), NEW i \in 1 .. Len(p) + 1
  PROVE  \/ ScopeOf(p, i) = 0 /\ Open(p, Tabled, i) = {}
         \/ /\ ScopeOf(p, i) \in Open(p, Tabled, i) /\ ScopeOf(p, i) \in 1 .. i - 1
            /\ ScopeOf(p, i) \in DOMAIN p /\ p[ScopeOf(p, i)].op \in Tabled
<1> DEFINE open == Open(p, Tabled, i)
<1>1. Len(p) \in Nat /\ DOMAIN p = 1 .. Len(p) /\ i \in Nat
  BY DEF Walkable
<1>2. ScopeOf(p, i) = IF open = {} THEN 0 ELSE CHOOSE o \in open : \A q \in open : q <= o
  BY DEF ScopeOf, Innermost, Tabled
<1>3. open # {} => ScopeOf(p, i) \in open
  <2>1. CASE open = {}
    BY <2>1
  <2>2. CASE open # {}
    <3> DEFINE T == {i - o : o \in open}
    <3>1. \A o \in open : o \in 1 .. i - 1
      BY <1>1 DEF Open
    <3>2. T \subseteq Nat /\ T # {}
      BY <1>1, <2>2, <3>1
    <3>3. PICK m \in T : \A k \in T : m <= k
      BY <3>2, LeastNat
    <3>4. PICK o \in open : m = i - o
      OBVIOUS
    <3>5. \A q \in open : q <= o
      <4> TAKE q \in open
      <4>1. i - q \in T /\ i - o <= i - q
        BY <3>3, <3>4
      <4> QED
        BY <1>1, <3>1, <4>1
    <3>6. ScopeOf(p, i) \in open
      BY <1>2, <2>2, <3>5
    <3> QED
      BY <3>6
  <2> QED
    BY <2>1, <2>2
<1>4. \A o \in open : o \in 1 .. i - 1 /\ o \in DOMAIN p /\ p[o].op \in Tabled
  BY <1>1 DEF Open
<1>5. CASE open = {}
  BY <1>2, <1>5
<1>6. CASE open # {}
  BY <1>3, <1>4, <1>6
<1> QED
  BY <1>5, <1>6

LEMMA DeclarationFacts ==
  ASSUME NEW p, Walkable(p), NEW s, NEW n, NEW d \in DeclarationsOf(p, s, n)
  PROVE  /\ d \in DOMAIN p /\ d \in Nat /\ p[d].op \in {"declare", "name", "arg"} /\ p[d].path[1] = n
         /\ ScopeOf(p, d) = s /\ ~ IsKeyword(s, n)
         /\ s = GlobalScope \/ (s \in 1 .. d - 1 /\ s \in DOMAIN p /\ p[s].op \in Tabled)
<1>1. d \in DOMAIN p /\ d \in 1 .. Len(p) + 1 /\ d \in Nat
  BY DEF DeclarationsOf, Walkable
<1>2. Declares(p, d, s, n)
  BY DEF DeclarationsOf
<1> QED
  BY <1>1, <1>2, ScopeOfFacts DEF Declares, Names, GlobalScope

-----------------------------------------------------------------------------
(* Recursion over numbers.                                                 *)

(* From every number up to N one climbs to smaller ones, until one stops. *)
ClimbsDown(N, below, stop, value, f) ==
  f = [t \in 0 .. N |-> IF t \in stop THEN value[t] ELSE f[below[t]]]

LEMMA ClimbDown ==
  ASSUME NEW N \in Nat, NEW below, \A t \in 1 .. N : below[t] \in 0 .. t - 1,
         NEW stop, 0 \in stop, NEW value
  PROVE  \E f : ClimbsDown(N, below, stop, value, f)
<1> DEFINE Climb(m, f) == [t \in 0 .. m |-> IF t \in stop THEN value[t] ELSE f[below[t]]]
           T == {m \in 0 .. N : ~ \E f : f = Climb(m, f)}
<1>1. T = {}
  <2> SUFFICES ASSUME T # {} PROVE FALSE
    OBVIOUS
  <2>1. T \subseteq Nat
    OBVIOUS
  <2>2. PICK m \in T : \A k \in T : m <= k
    BY <2>1, LeastNat
  <2>3. m \in 0 .. N /\ m \in Nat /\ ~ \E f : f = Climb(m, f)
    OBVIOUS
  <2>4. m # 0
    <3>1. Climb(0, <<>>) = Climb(0, Climb(0, <<>>))
      OBVIOUS
    <3> QED
      BY <2>3, <3>1
  <2>5. PICK f : f = Climb(m - 1, f)
    <3>1. m - 1 \in 0 .. N /\ ~ (m <= m - 1)
      BY <2>3, <2>4
    <3> QED
      BY <2>2, <3>1
  <2> DEFINE g == Climb(m, f)
  <2>6. \A t \in 0 .. m - 1 : g[t] = f[t]
    BY <2>3, <2>5
  <2>7. \A t \in 0 .. m : t \notin stop => below[t] \in 0 .. m - 1
    BY <2>3
  <2>8. g = Climb(m, g)
    BY <2>6, <2>7
  <2> QED
    BY <2>3, <2>8
<1>2. N \in 0 .. N
  OBVIOUS
<1>3. PICK f : f = Climb(N, f)
  BY <1>1, <1>2
<1> QED
  BY <1>3 DEF ClimbsDown

(* From a start one goes N steps on. *)
WalksOn(N, S, start, step, w) ==
  /\ w \in [0 .. N -> S] /\ w[0] = start
  /\ \A n \in 1 .. N : w[n] = step[<<n, w[n - 1]>>]

LEMMA WalkOn ==
  ASSUME NEW N \in Nat, NEW S, NEW start \in S,
         NEW step, \A n \in 1 .. N : \A x \in S : step[<<n, x>>] \in S
  PROVE  \E w : WalksOn(N, S, start, step, w)
<1> DEFINE Goes(m, w) == /\ w \in [0 .. m -> S] /\ w[0] = start
                         /\ \A n \in 1 .. m : w[n] = step[<<n, w[n - 1]>>]
           T == {m \in 0 .. N : ~ \E w : Goes(m, w)}
<1>1. T = {}
  <2> SUFFICES ASSUME T # {} PROVE FALSE
    OBVIOUS
  <2>1. T \subseteq Nat
    OBVIOUS
  <2>2. PICK m \in T : \A k \in T : m <= k
    BY <2>1, LeastNat
  <2>3. m \in 0 .. N /\ m \in Nat /\ ~ \E w : Goes(m, w)
    OBVIOUS
  <2>4. m # 0
    <3>1. Goes(0, [n \in 0 .. 0 |-> start])
      OBVIOUS
    <3> QED
      BY <2>3, <3>1
  <2>5. PICK w : Goes(m - 1, w)
    <3>1. m - 1 \in 0 .. N /\ ~ (m <= m - 1)
      BY <2>3, <2>4
    <3> QED
      BY <2>2, <3>1
  <2> DEFINE v == [n \in 0 .. m |-> IF n = m THEN step[<<m, w[m - 1]>>] ELSE w[n]]
  <2>6. m - 1 \in 0 .. m - 1 /\ m \in 1 .. N /\ w[m - 1] \in S
    BY <2>3, <2>4, <2>5
  <2>7. step[<<m, w[m - 1]>>] \in S
    BY <2>6
  <2>8. v \in [0 .. m -> S] /\ v[0] = start
    BY <2>3, <2>4, <2>5, <2>7
  <2>9. ASSUME NEW n \in 1 .. m PROVE v[n] = step[<<n, v[n - 1]>>]
    <3>1. v[n - 1] = w[n - 1]
      BY <2>3
    <3>2. CASE n = m
      <4>1. v[n] = step[<<m, w[m - 1]>>]
        BY <3>2
      <4>2. w[m - 1] = v[n - 1]
        BY <3>1, <3>2
      <4> HIDE DEF v
      <4> QED
        BY <3>2, <4>1, <4>2
    <3>3. CASE n # m
      <4>1. n \in 1 .. m - 1 /\ v[n] = w[n]
        BY <2>3, <3>3
      <4> QED
        BY <2>5, <3>1, <4>1
    <3> QED
      BY <3>2, <3>3
  <2> HIDE DEF v
  <2>10. Goes(m, v)
    BY <2>8, <2>9
  <2> QED
    BY <2>3, <2>10
<1>2. N \in 0 .. N
  OBVIOUS
<1> QED
  BY <1>1, <1>2 DEF WalksOn

-----------------------------------------------------------------------------
(* The rules, one scope and one part of a path at a time.                  *)

LEMMA NearestClimbs ==
  ASSUME NEW p, Walkable(p), NEW n, NEW s \in 0 .. Len(p)
  PROVE  Nearest(p, s, n) = IF IsKeyword(s, n) \/ DeclarationsOf(p, s, n) # {} THEN s
                            ELSE IF s = GlobalScope THEN NoScope
                            ELSE Nearest(p, ScopeOf(p, s), n)
<1> DEFINE N == Len(p)
           knows == {t \in 0 .. N : IsKeyword(t, n) \/ DeclarationsOf(p, t, n) # {}}
           value == [t \in 0 .. N |-> IF t \in knows THEN t ELSE NoScope]
           below == [t \in 0 .. N |-> ScopeOf(p, t)]
           Rule(f) == [t \in 0 .. N |-> IF IsKeyword(t, n) \/ DeclarationsOf(p, t, n) # {} THEN t
                                        ELSE IF t = GlobalScope THEN NoScope
                                        ELSE f[ScopeOf(p, t)]]
           climb == CHOOSE f : f = Rule(f)
<1>1. N \in Nat
  BY DEF Walkable
<1>2. \A t \in 1 .. N : ScopeOf(p, t) \in 0 .. t - 1
  <2> TAKE t \in 1 .. N
  <2>1. t \in 1 .. Len(p) + 1
    BY <1>1
  <2>2. ScopeOf(p, t) = 0 \/ ScopeOf(p, t) \in 1 .. t - 1
    BY <2>1, ScopeOfFacts
  <2> QED
    BY <1>1, <2>2
<1>3. \E f : ClimbsDown(N, below, knows \cup {0}, value, f)
  <2>1. \A t \in 1 .. N : below[t] \in 0 .. t - 1
    BY <1>1, <1>2
  <2> HIDE DEF knows, value, below, N, Rule, climb
  <2> QED
    BY <1>1, <2>1, ClimbDown
<1>4. \E f : f = Rule(f)
  <2>1. PICK f : f = [t \in 0 .. N |-> IF t \in knows \cup {0} THEN value[t] ELSE f[below[t]]]
    BY <1>3 DEF ClimbsDown
  <2>2. ASSUME NEW t \in 0 .. N
        PROVE  (IF t \in knows \cup {0} THEN value[t] ELSE f[below[t]]) = Rule(f)[t]
    BY DEF GlobalScope
  <2>3. f = Rule(f)
    BY <2>1, <2>2
  <2> QED
    BY <2>3
<1>5. climb = Rule(climb)
  BY <1>4
<1>6. \A t : Nearest(p, t, n) = climb[t]
  BY DEF Nearest
<1> HIDE DEF climb
<1> QED
  BY <1>5, <1>6

(* What is named from scope s by self, super, or any other name. *)
Outward(p, s, part) ==
  IF s = NoScope THEN NoScope
  ELSE IF part = "self" THEN s
  ELSE IF s # GlobalScope /\ part = "super" THEN ScopeOf(p, s)
  ELSE NoScope

LEMMA QualifiedWalks ==
  ASSUME NEW p, Walkable(p), NEW s \in 0 .. Len(p), NEW parts, Len(parts) \in Nat
  PROVE  \E w \in [0 .. Len(parts) -> {NoScope} \cup 0 .. Len(p)] :
           /\ w[0] = s /\ w[Len(parts)] = Qualified(p, s, parts)
           /\ \A n \in 1 .. Len(parts) : w[n] = Outward(p, w[n - 1], parts[n])
<1> DEFINE N == Len(parts)
           S == {NoScope} \cup 0 .. Len(p)
           Rule(w) == [n \in 0 .. N |->
             IF n = 0 THEN s
             ELSE CASE w[n - 1] = NoScope                                 -> NoScope
                    [] w[n - 1] # NoScope /\ parts[n] = "self"            -> w[n - 1]
                    [] w[n - 1] \notin {NoScope, GlobalScope}
                       /\ parts[n] = "super"                              -> ScopeOf(p, w[n - 1])
                    [] OTHER                                              -> NoScope]
           step == [x \in (1 .. N) \X S |-> Outward(p, x[2], parts[x[1]])]
           walk == CHOOSE w : w = Rule(w)
<1>1. Len(p) \in Nat /\ \A t \in 1 .. Len(p) : ScopeOf(p, t) \in 0 .. Len(p)
  <2>1. Len(p) \in Nat
    BY DEF Walkable
  <2>2. ASSUME NEW t \in 1 .. Len(p) PROVE ScopeOf(p, t) \in 0 .. Len(p)
    <3>1. t \in 1 .. Len(p) + 1
      BY <2>1
    <3>2. ScopeOf(p, t) = 0 \/ ScopeOf(p, t) \in 1 .. t - 1
      BY <3>1, ScopeOfFacts
    <3> QED
      BY <2>1, <3>2
  <2> QED
    BY <2>1, <2>2
<1>2. \A x \in S : \A part : Outward(p, x, part) \in S
  BY <1>1 DEF Outward, NoScope, GlobalScope
<1>3. \A w, n : (CASE w[n - 1] = NoScope                                 -> NoScope
                   [] w[n - 1] # NoScope /\ parts[n] = "self"            -> w[n - 1]
                   [] w[n - 1] \notin {NoScope, GlobalScope}
                      /\ parts[n] = "super"                              -> ScopeOf(p, w[n - 1])
                   [] OTHER                                              -> NoScope)
                 = Outward(p, w[n - 1], parts[n])
  BY DEF Outward, NoScope, GlobalScope
<1>4. \A w : Rule(w) = [n \in 0 .. N |-> IF n = 0 THEN s ELSE Outward(p, w[n - 1], parts[n])]
  BY <1>3
<1>5. PICK v : WalksOn(N, S, s, step, v)
  <2>1. s \in S /\ \A n \in 1 .. N : \A x \in S : step[<<n, x>>] \in S
    BY <1>2
  <2>2. N \in Nat
    OBVIOUS
  <2> HIDE DEF S, step, N, Rule, walk
  <2> QED
    BY <2>1, <2>2, WalkOn
<1>6. \A n \in 1 .. N : v[n] = Outward(p, v[n - 1], parts[n])
  <2> TAKE n \in 1 .. N
  <2>1. n - 1 \in 0 .. N /\ v[n - 1] \in S
    BY <1>5 DEF WalksOn
  <2>2. <<n, v[n - 1]>> \in (1 .. N) \X S
    BY <2>1
  <2> HIDE DEF S
  <2> QED
    BY <1>5, <2>2 DEF WalksOn
<1> HIDE DEF Rule, S, step
<1>7. v = Rule(v)
  <2>1. \A n \in 0 .. N : v[n] = IF n = 0 THEN s ELSE Outward(p, v[n - 1], parts[n])
    BY <1>5, <1>6 DEF WalksOn
  <2> QED
    BY <1>4, <1>5, <2>1 DEF WalksOn
<1>8. walk = Rule(walk)
  BY <1>7
<1>9. Qualified(p, s, parts) = walk[N]
  BY DEF Qualified, Rule
<1> HIDE DEF walk
<1>10. /\ walk = [n \in 0 .. N |-> walk[n]] /\ walk[0] = s
       /\ \A n \in 1 .. N : walk[n] = Outward(p, walk[n - 1], parts[n])
  BY <1>4, <1>8
<1>11. \A n \in 0 .. N : walk[n] \in S
  <2> DEFINE T == {n \in 0 .. N : walk[n] \notin S}
  <2> SUFFICES ASSUME T # {} PROVE FALSE
    OBVIOUS
  <2>1. PICK m \in T : \A k \in T : m <= k
    <3>1. T \subseteq Nat
      OBVIOUS
    <3> QED
      BY <3>1, LeastNat
  <2>2. s \in S
    BY DEF S
  <2>3. m # 0 /\ m \in 1 .. N
    BY <1>10, <2>2
  <2>4. m - 1 \in 0 .. N /\ m - 1 \notin T
    BY <2>1, <2>3
  <2> QED
    BY <1>2, <1>10, <2>3, <2>4
<1> QED
  BY <1>9, <1>10, <1>11 DEF S

-----------------------------------------------------------------------------
(* Vectors.                                                                *)

LEMMA ListsNothing ==
  ASSUME NEW p
  PROVE  Lists(p, <<>>, {})
<1>1. ListedBy(p, <<>>, {}, <<>>)
  BY DEF ListedBy
<1> QED
  BY <1>1 DEF Lists

LEMMA ListsMore ==
  ASSUME NEW p, NEW decls \in Seq(SymbolInfo), NEW D \in SUBSET Nat, Lists(p, decls, D),
         NEW d \in Nat, \A e \in D : e < d
  PROVE  Lists(p, Append(decls, Info(p, d)), D \cup {d})
<1> DEFINE n == Len(decls)
           more == Append(decls, Info(p, d))
<1>1. PICK order : ListedBy(p, decls, D, order)
  BY DEF Lists
<1>2. /\ n \in Nat /\ DOMAIN decls = 1 .. n /\ DOMAIN more = 1 .. n + 1
      /\ more[n + 1] = Info(p, d) /\ \A k \in 1 .. n : more[k] = decls[k]
  OBVIOUS
<1> DEFINE o == [k \in 1 .. n + 1 |-> IF k = n + 1 THEN d ELSE order[k]]
<1> HIDE DEF more, n
<1>3. \A k \in 1 .. n : order[k] \in D /\ o[k] = order[k]
  BY <1>1, <1>2 DEF ListedBy
<1>4. o[n + 1] = d /\ n + 1 \in 1 .. n + 1
  BY <1>2
<1>5. o \in [1 .. n + 1 -> D \cup {d}]
  <2>1. ASSUME NEW k \in 1 .. n + 1 PROVE o[k] \in D \cup {d}
    <3>1. k = n + 1 \/ k \in 1 .. n
      BY <1>2
    <3> HIDE DEF o
    <3> QED
      BY <1>3, <1>4, <3>1
  <2> QED
    BY <2>1
<1> HIDE DEF o
<1>6. \A k, l \in 1 .. n + 1 : k < l => o[k] < o[l]
  <2> TAKE k, l \in 1 .. n + 1
  <2> HAVE k < l
  <2>1. k \in 1 .. n /\ (l = n + 1 \/ l \in 1 .. n)
    BY <1>2
  <2> QED
    BY <1>1, <1>2, <1>3, <1>4, <2>1 DEF ListedBy
<1>7. \A e \in D \cup {d} : \E k \in 1 .. n + 1 : o[k] = e
  <2> TAKE e \in D \cup {d}
  <2>1. CASE e = d
    BY <1>4, <2>1
  <2>2. CASE e \in D
    <3>1. PICK k \in 1 .. n : order[k] = e
      BY <1>1, <1>2, <2>2 DEF ListedBy
    <3>2. k \in 1 .. n + 1
      BY <1>2
    <3> QED
      BY <1>3, <3>1, <3>2
  <2> QED
    BY <2>1, <2>2
<1>8. \A k \in 1 .. n + 1 : more[k] = Info(p, o[k])
  <2> TAKE k \in 1 .. n + 1
  <2>1. k = n + 1 \/ k \in 1 .. n
    BY <1>2
  <2> QED
    BY <1>1, <1>2, <1>3, <1>4, <2>1 DEF ListedBy
<1>9. ListedBy(p, more, D \cup {d}, o)
  BY <1>2, <1>5, <1>6, <1>7, <1>8 DEF ListedBy
<1> QED
  BY <1>9 DEF Lists, more

LEMMA ListsEmpty ==
  ASSUME NEW p, NEW decls \in Seq(SymbolInfo), NEW D, Lists(p, decls, D)
  PROVE  decls = <<>> <=> D = {}
<1>1. PICK order : ListedBy(p, decls, D, order)
  BY DEF Lists
<1>2. decls = <<>> <=> DOMAIN decls = {}
  OBVIOUS
<1> QED
  BY <1>1, <1>2 DEF ListedBy

(* What a declaration adds to a table. *)
LEMMA InsertLists ==
  ASSUME NEW t \in Table, NEW n \in Name, NEW info \in SymbolInfo
  PROVE  \A k \in Name : Insert(t, n, info).symbols[k].decls =
           IF k = n /\ CanBind(t, n, "ssa") THEN Append(t.symbols[k].decls, info)
           ELSE t.symbols[k].decls
<1> DEFINE b == [kind |-> "ssa", index |-> None, decls |-> Append(t.symbols[n].decls, info)]
           bound == [t.symbols EXCEPT ![n] = b]
<1>1. Insert(t, n, info) = IF CanBind(t, n, "ssa") THEN [t EXCEPT !.symbols = bound] ELSE t
  BY DEF Insert
<1>2. t.symbols \in [Name -> Binding]
  BY DEF Table
<1>3. \A k \in Name : bound[k].decls = IF k = n THEN Append(t.symbols[k].decls, info)
                                       ELSE t.symbols[k].decls
  BY <1>2
<1> HIDE DEF bound
<1>4. [t EXCEPT !.symbols = bound].symbols = bound
  BY DEF Table
<1> QED
  BY <1>1, <1>3, <1>4

LEMMA InsertArgLists ==
  ASSUME NEW t \in Table, NEW n \in Name, NEW info \in SymbolInfo
  PROVE  \A k \in Name : InsertArg(t, n, info).symbols[k].decls =
           IF k = n /\ ~ Exists(t, n) THEN Append(t.symbols[k].decls, info)
           ELSE t.symbols[k].decls
<1> DEFINE u == [t EXCEPT !.argument_set = @ \cup {n}]
<1>1. u \in Table /\ u.symbols = t.symbols
  BY DEF Table
<1> HIDE DEF u
<1>2. ~ Exists(t, n) => CanBind(u, n, "ssa")
  BY <1>1 DEF Exists, CanBind
<1>3. InsertArg(t, n, info) = IF Exists(t, n) THEN t ELSE Insert(u, n, info)
  BY DEF InsertArg, u
<1> QED
  BY <1>1, <1>2, <1>3, InsertLists

(* A new table has no declarations. *)
LEMMA NewTableLists ==
  ASSUME NEW t \in Nat, NEW c \in ScopingContext, NEW q \in Nat
  PROVE  LET u == SetParent(NewTable(t, c), q) IN
         u.parent = q /\ \A k \in Name : u.symbols[k].decls = <<>>
<1> DEFINE v == NewTable(t, c)
<1>1. /\ v \in Table /\ v.symbols["self"] = IndexTo(t)
      /\ \A n \in Name \ {"self"} : v.symbols[n] = Unbound
  BY NewTableIsTable
<1> HIDE DEF v
<1>2. v.symbols["super"] = Unbound
  BY <1>1, Keywords
<1>3. /\ SetParent(v, q).parent = q /\ SetParent(v, q).symbols["super"] = IndexTo(q)
      /\ \A n \in Name \ {"super"} : SetParent(v, q).symbols[n] = v.symbols[n]
  BY <1>1, <1>2, SetParentIsTable
<1> QED
  BY <1>1, <1>3 DEF IndexTo, Unbound, v

-----------------------------------------------------------------------------
(* The tables in a state of the passes.                                    *)

LEMMA ScopeTables ==
  ASSUME PlaceInv, ScopesApart
  PROVE  /\ \A s : HasTable(s) => s \in 0 .. Len(ast) /\ TableOf(s) \in DOMAIN arena
         /\ \A s, u : HasTable(s) /\ HasTable(u) /\ TableOf(s) = TableOf(u) => s = u
<1>1. /\ DOMAIN ast = 1 .. Len(ast) /\ Len(ast) \in Nat /\ arena \in Seq(Table)
      /\ locals \in [DOMAIN ast -> {None} \cup DOMAIN arena]
  BY PlaceFacts
<1>2. GlobalSymIndex \in DOMAIN arena
  BY <1>1 DEF PlaceInv, IInv, ParentsPrecede, GlobalSymIndex
<1>3. \A s : HasTable(s) => s \in 0 .. Len(ast) /\ TableOf(s) \in DOMAIN arena
  BY <1>1, <1>2 DEF HasTable, TableOf, GlobalScope
<1>4. ASSUME NEW s, NEW u, HasTable(s), HasTable(u), TableOf(s) = TableOf(u) PROVE s = u
  BY <1>4 DEF HasTable, TableOf, ScopesApart
<1> QED
  BY <1>3, <1>4

(* A table binds a name to a table just where the rules have a keyword. *)
LEMMA KeywordBound ==
  ASSUME PlaceInv, ScopesApart, NEW s, HasTable(s), NEW n \in Name
  PROVE  LET b == arena[TableOf(s)].symbols[n] IN
         /\ b \in Binding /\ (b.kind = "index" <=> IsKeyword(s, n))
         /\ n = "self" => b.index = TableOf(s)
         /\ n = "super" /\ s # GlobalScope =>
              b.index = TableOf(ScopeOf(ast, s)) /\ HasTable(ScopeOf(ast, s))
<1> DEFINE t == TableOf(s)
           b == arena[t].symbols[n]
<1>1. t \in DOMAIN arena /\ arena[t] \in Table
  BY PlaceFacts, ScopeTables
<1>2. b \in Binding
  BY <1>1 DEF Table
<1>3. t = GlobalSymIndex <=> s = GlobalScope
  BY DEF TableOf, HasTable, ScopesApart
<1>4. s # GlobalScope => HasTable(ScopeOf(ast, s)) /\ arena[t].parent = TableOf(ScopeOf(ast, s))
  BY DEF TableOf, HasTable, ScopesApart
<1>5. /\ arena[t].symbols["self"] = IndexTo(t)
      /\ t # GlobalSymIndex => arena[t].symbols["super"] = IndexTo(arena[t].parent)
      /\ arena[t].symbols[n].kind = "index" => n = "self" \/ (n = "super" /\ t # GlobalSymIndex)
  BY <1>1 DEF PlaceInv, IInv, KeywordsIntact
<1> HIDE DEF t
<1>6. b.kind = "index" <=> IsKeyword(s, n)
  BY <1>3, <1>5 DEF IsKeyword, IndexTo
<1> QED
  BY <1>2, <1>3, <1>4, <1>5, <1>6 DEF t, IndexTo

LEMMA KnownHere ==
  ASSUME PlaceInv, ScopesApart, VectorsList, NEW s, HasTable(s), NEW n \in Name
  PROVE  LET b == arena[TableOf(s)].symbols[n] IN
         /\ Lists(ast, b.decls, DeclaredSoFar(s, n)) /\ b.decls \in Seq(SymbolInfo)
         /\ Exists(arena[TableOf(s)], n) <=> IsKeyword(s, n) \/ DeclaredSoFar(s, n) # {}
         /\ b.kind = "ssa" <=> DeclaredSoFar(s, n) # {}
<1> DEFINE b == arena[TableOf(s)].symbols[n]
<1>1. s \in 0 .. Len(ast)
  BY ScopeTables
<1>2. Lists(ast, b.decls, DeclaredSoFar(s, n))
  BY <1>1 DEF VectorsList
<1>3. b \in Binding /\ (b.kind = "index" <=> IsKeyword(s, n))
  BY KeywordBound
<1>4. Exists(arena[TableOf(s)], n) <=> b.kind # "none"
  BY DEF Exists
<1> HIDE DEF b
<1>5. b.decls \in Seq(SymbolInfo) /\ b.kind \in {"none", "index", "ssa"}
      /\ (b.kind = "ssa" <=> b.decls # <<>>)
  BY <1>3 DEF Binding
<1>6. b.decls = <<>> <=> DeclaredSoFar(s, n) = {}
  BY <1>2, <1>5, ListsEmpty
<1> QED
  BY <1>2, <1>3, <1>4, <1>5, <1>6 DEF b

LEMMA HereTabled ==
  ASSUME PlaceInv, pass \in {"decl", "ref"}, pc \in DOMAIN ast
  PROVE  LET s == ScopeOf(ast, pc) IN
         /\ HasTable(s) /\ current = TableOf(s) /\ s \in 0 .. pc - 1 /\ s \in 0 .. Len(ast)
         /\ arena[current].scope_context = ContextOf(ast, s)
<1> DEFINE s == ScopeOf(ast, pc)
<1>1. /\ Walkable(ast) /\ DOMAIN ast = 1 .. Len(ast) /\ Len(ast) \in Nat /\ pc \in 1 .. Len(ast) + 1
      /\ pc \in Nat
  BY PlaceFacts
<1>2. s = 0 \/ (s \in 1 .. pc - 1 /\ s \in DOMAIN ast /\ ast[s].op \in Tabled)
  BY <1>1, ScopeOfFacts
<1>3. s # 0 => locals[s] # None
  BY <1>1, <1>2 DEF PlaceInv, IInv, ScopesAnnotated, Tabled
<1>4. current = TableOf(s) /\ arena[current].scope_context = ContextOf(ast, s)
  BY PlacedInScope DEF InScope, TableOf
<1> HIDE DEF s
<1> QED
  BY <1>1, <1>2, <1>3, <1>4 DEF HasTable, GlobalScope, s

-----------------------------------------------------------------------------
(* The tables along the declaration pass.                                  *)

LEMMA SoFarStep ==
  ASSUME PlaceInv, pass = "decl", pc \in DOMAIN ast, Continue, NEW s, NEW n
  PROVE  DeclaredSoFar(s, n)' = DeclaredSoFar(s, n)
                                 \cup (IF pc \in DeclarationsOf(ast, s, n) THEN {pc} ELSE {})
<1>1. ast' = ast /\ pass' = pass /\ pc' = pc + 1 /\ pc \in Nat /\ pc >= 1
  BY PlaceFacts DEF Continue
<1>2. Visited' = Visited \cup {pc}
  BY <1>1 DEF Visited
<1>3. DeclaredSoFar(s, n)' = DeclarationsOf(ast, s, n) \cap Visited'
  BY <1>1 DEF DeclaredSoFar
<1> QED
  BY <1>2, <1>3 DEF DeclaredSoFar

(* An event that declares nothing and a step that makes no table. *)
LEMMA NothingDeclared ==
  ASSUME PlaceInv, TablesMatch, pass = "decl", pc \in DOMAIN ast, Continue,
         UNCHANGED <<arena, locals>>, \A s, n : pc \notin DeclarationsOf(ast, s, n)
  PROVE  TablesMatch'
<1>1. ast' = ast /\ pass' = pass /\ pc' = pc + 1 /\ pc \in Nat
  BY PlaceFacts DEF Continue
<1>2. \A s : HasTable(s)' = HasTable(s) /\ TableOf(s)' = TableOf(s)
  BY <1>1 DEF HasTable, TableOf
<1>3. \A s, n : DeclaredSoFar(s, n)' = DeclaredSoFar(s, n)
  BY SoFarStep
<1>4. ScopesApart'
  BY <1>1, <1>2 DEF TablesMatch, ScopesApart
<1>5. TablesAhead'
  BY <1>1, PlaceFacts DEF TablesMatch, TablesAhead
<1>6. VectorsList'
  BY <1>1, <1>2, <1>3 DEF TablesMatch, VectorsList
<1> QED
  BY <1>4, <1>5, <1>6 DEF TablesMatch

(* A table for scope s, made where its node or its function begins. *)
LEMMA AllocationMatches ==
  ASSUME PlaceInv, TablesMatch, pass = "decl", pc \in DOMAIN ast, Continue,
         \A u, n : pc \notin DeclarationsOf(ast, u, n),
         NEW s \in DOMAIN ast, ast[s].op \in Tabled, pc <= s, locals[s] = None,
         ScopeOf(ast, s) = ScopeOf(ast, pc),
         s = pc \/ (ast[s].op = "block" /\ \A a \in pc + 1 .. s - 1 : ast[a].op = "arg"),
         locals' = [locals EXCEPT ![s] = Len(arena) + 1],
         NEW c \in ScopingContext, arena' = Allocated(c)
  PROVE  TablesMatch'
<1> DEFINE new == Len(arena) + 1
           home == ScopeOf(ast, pc)
<1>1. /\ ast' = ast /\ pass' = pass /\ pc' = pc + 1 /\ pc \in Nat /\ pc >= 1
      /\ Walkable(ast) /\ DOMAIN ast = 1 .. Len(ast) /\ Len(ast) \in Nat
      /\ arena \in Seq(Table) /\ DOMAIN arena = 1 .. Len(arena) /\ Len(arena) \in Nat
      /\ locals \in [DOMAIN ast -> {None} \cup DOMAIN arena] /\ current \in DOMAIN arena
  BY PlaceFacts DEF Continue
<1>2. /\ ScopesApart /\ VectorsList /\ TablesAhead
      /\ \A u : HasTable(u) => u \in 0 .. Len(ast) /\ TableOf(u) \in DOMAIN arena
      /\ \A u, v : HasTable(u) /\ HasTable(v) /\ TableOf(u) = TableOf(v) => u = v
      /\ HasTable(home) /\ current = TableOf(home) /\ home \in 0 .. pc - 1
  BY ScopeTables, HereTabled DEF TablesMatch
<1>3. new \notin DOMAIN arena /\ new \in Nat /\ new # None /\ new # GlobalSymIndex /\ s # GlobalScope
  <2>1. GlobalSymIndex \in DOMAIN arena
    BY <1>1 DEF PlaceInv, IInv, ParentsPrecede, GlobalSymIndex
  <2> QED
    BY <1>1, <2>1 DEF None, GlobalSymIndex, GlobalScope
<1>4. /\ \A t \in DOMAIN arena : arena'[t] = arena[t]
      /\ arena'[new].parent = current /\ \A n \in Name : arena'[new].symbols[n].decls = <<>>
  <2>1. arena' = Append(arena, SetParent(NewTable(new, c), current))
    BY DEF Allocated
  <2>2. LET u == SetParent(NewTable(new, c), current) IN
        u.parent = current /\ \A n \in Name : u.symbols[n].decls = <<>>
    BY <1>1, NewTableLists
  <2> QED
    BY <1>1, <2>1, <2>2
<1> HIDE DEF new, home
<1>5. \A u : /\ HasTable(u)' <=> HasTable(u) \/ u = s
             /\ TableOf(u)' = IF u = s THEN new ELSE TableOf(u)
  BY <1>1, <1>3 DEF HasTable, TableOf, new
<1>6. ~ HasTable(s) /\ home # s
  BY <1>1, <1>2, <1>3 DEF HasTable
<1>7. ScopesApart'
  <2>1. ASSUME NEW u \in DOMAIN ast, HasTable(u)'
        PROVE  /\ locals'[u] # GlobalSymIndex
               /\ HasTable(ScopeOf(ast, u))' /\ arena'[locals'[u]].parent = TableOf(ScopeOf(ast, u))'
    <3>1. CASE u = s
      <4>1. locals'[s] = new
        BY <1>1 DEF new
      <4>2. HasTable(ScopeOf(ast, s))' /\ TableOf(ScopeOf(ast, s))' = current
        BY <1>1, <1>2, <1>5, <1>6 DEF home
      <4> QED
        BY <1>3, <1>4, <3>1, <4>1, <4>2
    <3>2. CASE u # s
      <4>1. HasTable(u) /\ locals'[u] = locals[u]
        BY <1>1, <1>5, <2>1, <3>2
      <4>2. /\ locals[u] # GlobalSymIndex /\ HasTable(ScopeOf(ast, u))
            /\ arena[locals[u]].parent = TableOf(ScopeOf(ast, u))
        BY <1>2, <4>1 DEF ScopesApart
      <4>3. locals[u] \in DOMAIN arena
        BY <1>1, <4>1, <1>3 DEF HasTable, GlobalScope
      <4>4. ScopeOf(ast, u) # s
        BY <1>6, <4>2
      <4> QED
        BY <1>1, <1>4, <1>5, <4>1, <4>2, <4>3, <4>4
    <3> QED
      BY <3>1, <3>2
  <2>2. ASSUME NEW u \in DOMAIN ast, NEW v \in DOMAIN ast, HasTable(u)', HasTable(v)',
               locals'[u] = locals'[v]
        PROVE  u = v
    <3>1. \A x \in DOMAIN ast : HasTable(x)' =>
            \/ x = s /\ locals'[x] = new
            \/ x # s /\ HasTable(x) /\ locals'[x] = locals[x] /\ locals[x] \in DOMAIN arena
      <4> TAKE x \in DOMAIN ast
      <4> HAVE HasTable(x)'
      <4>1. x # s => HasTable(x) /\ locals'[x] = locals[x]
        BY <1>1, <1>5
      <4>2. x # s => locals[x] \in DOMAIN arena
        BY <1>1, <4>1 DEF HasTable, GlobalScope
      <4>3. locals'[s] = new
        BY <1>1 DEF new
      <4> QED
        BY <4>1, <4>2, <4>3
    <3> QED
      BY <1>2, <1>3, <2>2, <3>1 DEF ScopesApart
  <2> QED
    BY <1>1, <2>1, <2>2 DEF ScopesApart
<1>8. TablesAhead'
  <2> SUFFICES ASSUME NEW u \in DOMAIN ast, locals'[u] # None
               PROVE  u < pc + 1 \/ (ast[u].op = "block" /\ \A a \in pc + 1 .. u - 1 : ast[a].op = "arg")
    BY <1>1 DEF TablesAhead
  <2>1. CASE u = s
    BY <1>1, <2>1
  <2>2. CASE u # s
    <3>1. locals[u] # None
      BY <1>1, <2>2
    <3>2. u < pc \/ (ast[u].op = "block" /\ \A a \in pc .. u - 1 : ast[a].op = "arg")
      BY <1>2, <3>1 DEF TablesAhead
    <3> QED
      BY <1>1, <3>2
  <2> QED
    BY <2>1, <2>2
<1>9. VectorsList'
  <2> SUFFICES ASSUME NEW u \in 0 .. Len(ast), HasTable(u)', NEW n \in Name
               PROVE  Lists(ast, arena'[TableOf(u)'].symbols[n].decls, DeclaredSoFar(u, n)')
    BY <1>1 DEF VectorsList
  <2>1. DeclaredSoFar(u, n)' = DeclaredSoFar(u, n)
    BY SoFarStep
  <2>2. CASE u = s
    <3>1. DeclaredSoFar(s, n) = {}
      <4> SUFFICES ASSUME NEW d \in DeclaredSoFar(s, n) PROVE FALSE
        OBVIOUS
      <4>1. d \in DeclarationsOf(ast, s, n) /\ d \in 1 .. pc - 1
        BY DEF DeclaredSoFar, Visited
      <4>2. s \in 1 .. d - 1
        BY <1>1, <1>3, <4>1, DeclarationFacts
      <4> QED
        BY <1>1, <4>1, <4>2
    <3>2. arena'[TableOf(u)'].symbols[n].decls = <<>>
      BY <1>4, <1>5, <2>2
    <3> QED
      BY <2>1, <2>2, <3>1, <3>2, ListsNothing
  <2>3. CASE u # s
    <3>1. HasTable(u) /\ TableOf(u)' = TableOf(u) /\ TableOf(u) \in DOMAIN arena
      BY <1>2, <1>5, <2>3
    <3> QED
      BY <1>2, <1>4, <2>1, <3>1 DEF VectorsList
  <2> QED
    BY <2>2, <2>3
<1> QED
  BY <1>7, <1>8, <1>9 DEF TablesMatch

(* The first event that names something is a declaration of it. *)
LEMMA FirstDeclares ==
  ASSUME NEW p, Walkable(p), NEW s, NEW n, ~ IsKeyword(s, n),
         NEW e \in DOMAIN p, Names(p, e, n), ScopeOf(p, e) = s
  PROVE  \E d \in DeclarationsOf(p, s, n) : d <= e
<1> DEFINE T == {k \in DOMAIN p : Names(p, k, n) /\ ScopeOf(p, k) = s}
<1>1. DOMAIN p = 1 .. Len(p) /\ Len(p) \in Nat
  BY DEF Walkable
<1>2. T \subseteq Nat /\ e \in T
  BY <1>1
<1>3. PICK m \in T : \A k \in T : m <= k
  BY <1>2, LeastNat
<1>4. \A k \in 1 .. m - 1 : ~ (Names(p, k, n) /\ ScopeOf(p, k) = s)
  BY <1>1, <1>3
<1>5. m \in DeclarationsOf(p, s, n)
  BY <1>4 DEF DeclarationsOf, Declares
<1> QED
  BY <1>2, <1>3, <1>5

(* An event declares what it names, unless that is a keyword, or it is an
   argument and the name has been declared. *)
LEMMA DeclaresHere ==
  ASSUME PlaceInv, pass = "decl", pc \in DOMAIN ast, ast[pc].op \in {"declare", "name", "arg"}
  PROVE  LET s == ScopeOf(ast, pc)
             n == ast[pc].path[1]
         IN  Declares(ast, pc, s, n)
               <=> ~ IsKeyword(s, n) /\ (ast[pc].op = "arg" => DeclaredSoFar(s, n) = {})
<1> DEFINE s == ScopeOf(ast, pc)
           n == ast[pc].path[1]
           earlier == \E e \in 1 .. pc - 1 : Names(ast, e, n) /\ ScopeOf(ast, e) = s
<1>1. Walkable(ast) /\ DOMAIN ast = 1 .. Len(ast) /\ Len(ast) \in Nat /\ pc \in Nat
  BY PlaceFacts
<1>2. Names(ast, pc, n)
  BY DEF Names
<1>3. DeclaredSoFar(s, n) # {} => earlier
  <2> SUFFICES ASSUME NEW d \in DeclaredSoFar(s, n) PROVE earlier
    OBVIOUS
  <2>1. d \in 1 .. pc - 1 /\ Names(ast, d, n) /\ ScopeOf(ast, d) = s
    BY DEF DeclaredSoFar, Visited, DeclarationsOf, Declares
  <2> QED
    BY <2>1
<1>4. ASSUME earlier, ~ IsKeyword(s, n) PROVE DeclaredSoFar(s, n) # {}
  <2>1. PICK e \in 1 .. pc - 1 : Names(ast, e, n) /\ ScopeOf(ast, e) = s
    BY <1>4
  <2>2. e \in DOMAIN ast
    BY <1>1
  <2>3. PICK d \in DeclarationsOf(ast, s, n) : d <= e
    BY <1>1, <1>4, <2>1, <2>2, FirstDeclares
  <2>4. d \in 1 .. pc - 1
    BY <1>1, <2>1, <2>3 DEF DeclarationsOf
  <2> QED
    BY <2>4 DEF DeclaredSoFar, Visited
<1>5. Declares(ast, pc, s, n) <=> ~ IsKeyword(s, n) /\ (ast[pc].op = "arg" => ~ earlier)
  BY <1>2 DEF Declares
<1> QED
  BY <1>3, <1>4, <1>5

(* A declaration joins the vector of its name in the table of its scope. *)
LEMMA DeclarationMatches ==
  ASSUME PlaceInv, TablesMatch, pass = "decl", pc \in DOMAIN ast, Continue, locals' = locals,
         NEW u, arena' = [arena EXCEPT ![current] = u], u.parent = arena[current].parent,
         \A k \in Name : u.symbols[k].decls =
           IF pc \in DeclarationsOf(ast, ScopeOf(ast, pc), k)
           THEN Append(arena[current].symbols[k].decls, Info(ast, pc))
           ELSE arena[current].symbols[k].decls
  PROVE  TablesMatch'
<1> DEFINE home == ScopeOf(ast, pc)
<1>1. /\ ast' = ast /\ pass' = pass /\ pc' = pc + 1 /\ pc \in Nat
      /\ Walkable(ast) /\ DOMAIN ast = 1 .. Len(ast) /\ Len(ast) \in Nat
      /\ arena \in Seq(Table) /\ current \in DOMAIN arena
  BY PlaceFacts DEF Continue
<1>2. /\ ScopesApart /\ VectorsList /\ TablesAhead
      /\ \A s : HasTable(s) => s \in 0 .. Len(ast) /\ TableOf(s) \in DOMAIN arena
      /\ \A s, v : HasTable(s) /\ HasTable(v) /\ TableOf(s) = TableOf(v) => s = v
      /\ HasTable(home) /\ current = TableOf(home)
  BY ScopeTables, HereTabled DEF TablesMatch
<1> HIDE DEF home
<1>3. \A s : HasTable(s)' = HasTable(s) /\ TableOf(s)' = TableOf(s)
  BY <1>1 DEF HasTable, TableOf
<1>4. arena'[current] = u /\ \A t \in DOMAIN arena : t # current => arena'[t] = arena[t]
  BY <1>1
<1>5. \A t \in DOMAIN arena : arena'[t].parent = arena[t].parent
  BY <1>4
<1>6. \A s \in DOMAIN ast : HasTable(s) => locals[s] \in DOMAIN arena
  BY <1>1, <1>2 DEF TableOf, GlobalScope
<1>7. ScopesApart'
  BY <1>1, <1>2, <1>3, <1>5, <1>6 DEF ScopesApart
<1>8. TablesAhead'
  BY <1>1, <1>2 DEF TablesAhead
<1>9. VectorsList'
  <2> SUFFICES ASSUME NEW s \in 0 .. Len(ast), HasTable(s), NEW k \in Name
               PROVE  Lists(ast, arena'[TableOf(s)].symbols[k].decls, DeclaredSoFar(s, k)')
    BY <1>1, <1>3 DEF VectorsList
  <2> DEFINE decls == arena[TableOf(s)].symbols[k].decls
  <2>1. /\ Lists(ast, decls, DeclaredSoFar(s, k)) /\ decls \in Seq(SymbolInfo)
        /\ TableOf(s) \in DOMAIN arena
    BY <1>2, KnownHere
  <2>2. DeclaredSoFar(s, k)' = DeclaredSoFar(s, k)
                                 \cup (IF pc \in DeclarationsOf(ast, s, k) THEN {pc} ELSE {})
    BY SoFarStep
  <2>3. DeclaredSoFar(s, k) \in SUBSET Nat /\ \A e \in DeclaredSoFar(s, k) : e < pc
    BY <1>1 DEF DeclaredSoFar, Visited
  <2>4. CASE pc \in DeclarationsOf(ast, s, k)
    <3>1. s = home
      BY <2>4 DEF DeclarationsOf, Declares, home
    <3>2. arena'[TableOf(s)].symbols[k].decls = Append(decls, Info(ast, pc))
      BY <1>2, <1>4, <2>4, <3>1 DEF home
    <3> HIDE DEF decls
    <3>3. Lists(ast, Append(decls, Info(ast, pc)), DeclaredSoFar(s, k) \cup {pc})
      BY <1>1, <2>1, <2>3, ListsMore
    <3> QED
      BY <2>2, <2>4, <3>2, <3>3
  <2>5. CASE pc \notin DeclarationsOf(ast, s, k)
    <3>1. arena'[TableOf(s)].symbols[k].decls = decls
      <4>1. CASE s = home
        BY <1>2, <1>4, <2>5, <4>1 DEF home
      <4>2. CASE s # home
        BY <1>2, <1>4, <2>1, <4>2
      <4> QED
        BY <4>1, <4>2
    <3> QED
      BY <2>1, <2>2, <2>5, <3>1
  <2> QED
    BY <2>4, <2>5
<1> QED
  BY <1>7, <1>8, <1>9 DEF TablesMatch

(* The table knows beforehand whether the event will declare its name. *)
LEMMA NameBinds ==
  ASSUME PlaceInv, TablesMatch, pass = "decl", pc \in DOMAIN ast
  PROVE  LET n == ast[pc].path[1]
             d == Declares(ast, pc, ScopeOf(ast, pc), n)
         IN  /\ ast[pc].op \in {"declare", "name"} => (CanBind(arena[current], n, "ssa") <=> d)
             /\ ast[pc].op = "arg" => (~ Exists(arena[current], n) <=> d)
<1> SUFFICES ASSUME ast[pc].op \in {"declare", "name", "arg"}
             PROVE  LET n == ast[pc].path[1]
                        d == Declares(ast, pc, ScopeOf(ast, pc), n)
                    IN  /\ ast[pc].op \in {"declare", "name"} => (CanBind(arena[current], n, "ssa") <=> d)
                        /\ ast[pc].op = "arg" => (~ Exists(arena[current], n) <=> d)
  OBVIOUS
<1> DEFINE n == ast[pc].path[1]
           s == ScopeOf(ast, pc)
           b == arena[current].symbols[n]
<1>1. n \in Name
  BY OneName DEF PlaceInv
<1>2. HasTable(s) /\ current = TableOf(s)
  BY HereTabled
<1> HIDE DEF n, s
<1>3. /\ b \in Binding /\ (b.kind = "index" <=> IsKeyword(s, n))
      /\ Exists(arena[current], n) <=> IsKeyword(s, n) \/ DeclaredSoFar(s, n) # {}
  BY <1>1, <1>2, KeywordBound, KnownHere DEF TablesMatch
<1>4. b.kind \in {"none", "index", "ssa"}
  BY <1>3 DEF Binding
<1>5. CanBind(arena[current], n, "ssa") <=> ~ IsKeyword(s, n)
  BY <1>3, <1>4 DEF CanBind
<1>6. Declares(ast, pc, s, n)
        <=> ~ IsKeyword(s, n) /\ (ast[pc].op = "arg" => DeclaredSoFar(s, n) = {})
  BY DeclaresHere DEF s, n
<1> QED
  BY <1>3, <1>5, <1>6 DEF s, n

LEMMA NamesMatch ==
  ASSUME PlaceInv, TablesMatch, DeclArgument \/ DeclAssignName
  PROVE  TablesMatch'
<1> DEFINE n == ast[pc].path[1]
           home == ScopeOf(ast, pc)
           t == arena[current]
<1>1. /\ pass = "decl" /\ pc \in DOMAIN ast /\ Continue /\ locals' = locals
      /\ ast[pc].op \in {"declare", "name", "arg"}
  BY DEF DeclArgument, DeclAssignName, At
<1>2. t \in Table /\ n \in Name /\ \A m \in BOOLEAN : [src |-> ast[pc].loc, is_mut |-> m] \in SymbolInfo
  BY <1>1, OneName, PlaceFacts DEF PlaceInv
<1>3. \A k : pc \in DeclarationsOf(ast, home, k) <=> k = n /\ Declares(ast, pc, home, n)
  BY <1>1 DEF DeclarationsOf, Declares, Names
<1>4. /\ ast[pc].op \in {"declare", "name"} => (CanBind(t, n, "ssa") <=> Declares(ast, pc, home, n))
      /\ ast[pc].op = "arg" => (~ Exists(t, n) <=> Declares(ast, pc, home, n))
  BY <1>1, NameBinds
<1>5. CASE DeclArgument
  <2> DEFINE info == [src |-> ast[pc].loc, is_mut |-> FALSE]
             u == InsertArg(t, n, info)
  <2>1. ast[pc].op = "arg" /\ arena' = [arena EXCEPT ![current] = u]
    BY <1>5 DEF DeclArgument, At
  <2>2. info = Info(ast, pc)
    <3>1. ast[pc] \in Event /\ ~ ast[pc].mut
      BY <1>1, <2>1 DEF PlaceInv, IInv, TypeOK, WellLinked
    <3>2. ast[pc].mut \in BOOLEAN
      BY <3>1 DEF Event
    <3> QED
      BY <3>1, <3>2 DEF Info
  <2>3. info \in SymbolInfo
    BY <1>2
  <2> HIDE DEF info, t, n, home
  <2>4. u.parent = t.parent
    BY <1>2, <2>3, InsertArgKeeps
  <2>5. \A k \in Name : u.symbols[k].decls = IF pc \in DeclarationsOf(ast, home, k)
                                             THEN Append(t.symbols[k].decls, Info(ast, pc))
                                             ELSE t.symbols[k].decls
    BY <1>2, <1>3, <1>4, <2>1, <2>2, <2>3, InsertArgLists
  <2> HIDE DEF u
  <2> QED
    BY <1>1, <2>1, <2>4, <2>5, DeclarationMatches DEF t, home
<1>6. CASE DeclAssignName
  <2> DEFINE info == [src |-> ast[pc].loc, is_mut |-> ast[pc].mut]
             u == Insert(t, n, info)
  <2>1. ast[pc].op \in {"declare", "name"} /\ arena' = [arena EXCEPT ![current] = u]
    BY <1>6 DEF DeclAssignName, At
  <2>2. info = Info(ast, pc)
    BY DEF Info
  <2>3. info \in SymbolInfo
    BY <1>1, <1>2, OneName DEF PlaceInv
  <2> HIDE DEF info, t, n, home
  <2>4. u.parent = t.parent
    BY <1>2, <2>3, InsertKeeps
  <2>5. \A k \in Name : u.symbols[k].decls = IF pc \in DeclarationsOf(ast, home, k)
                                             THEN Append(t.symbols[k].decls, Info(ast, pc))
                                             ELSE t.symbols[k].decls
    BY <1>2, <1>3, <1>4, <2>1, <2>2, <2>3, InsertLists
  <2> HIDE DEF u
  <2> QED
    BY <1>1, <2>1, <2>4, <2>5, DeclarationMatches DEF t, home
<1> QED
  BY <1>5, <1>6

LEMMA NamesOnly ==
  ASSUME NEW p, NEW i, p[i].op \notin {"declare", "name", "arg"}
  PROVE  \A s, n : i \notin DeclarationsOf(p, s, n)
  BY DEF DeclarationsOf, Declares, Names

LEMMA ScopesMatch ==
  ASSUME PlaceInv, TablesMatch, DeclFunction \/ DeclBlock \/ DeclInAssign
  PROVE  TablesMatch'
<1>1. /\ Walkable(ast) /\ DOMAIN ast = 1 .. Len(ast) /\ Len(ast) \in Nat
      /\ context \in ScopingContext /\ WellLinked(ast) /\ ast \in Seq(Event)
      /\ locals \in [DOMAIN ast -> {None} \cup DOMAIN arena]
  BY PlaceFacts DEF PlaceInv, IInv, TypeOK
<1>2. /\ pass = "decl" /\ pc \in DOMAIN ast /\ Continue /\ pc \in Nat
      /\ ast[pc].op \in {"fn", "block", "in"}
  BY <1>1 DEF DeclFunction, DeclBlock, DeclInAssign, At
<1>3. \A s, n : pc \notin DeclarationsOf(ast, s, n)
  BY <1>2, NamesOnly
<1>4. "SCOPE" \in ScopingContext
  BY DEF ScopingContext
<1>5. CASE DeclFunction
  <2> DEFINE body == pc + ast[pc].link
  <2>1. /\ ast[pc].op = "fn" /\ locals' = [locals EXCEPT ![body] = Len(arena) + 1]
        /\ arena' = Allocated("SCOPE")
    BY <1>5 DEF DeclFunction, At
  <2>2. ast[pc].link \in Int
    <3>1. ast[pc] \in Event
      BY <1>1, <1>2
    <3> QED
      BY <3>1 DEF Event
  <2>3. /\ body \in DOMAIN ast /\ ast[pc].link > 0 /\ ast[body].op = "block"
        /\ \A a \in pc + 1 .. body - 1 : ast[a].op = "arg"
    <3>1. /\ pc + ast[pc].link \in DOMAIN ast
          /\ ast[pc].link > 0 /\ ast[pc + ast[pc].link].op = "block"
          /\ \A a \in pc + 1 .. pc + ast[pc].link - 1 : ast[a].op = "arg"
      <4>1. ast[pc].op = "fn" /\ pc \in DOMAIN ast /\ WellLinked(ast)
        BY <1>1, <1>2, <2>1
      <4> HIDE DEF body
      <4> QED
        BY <4>1 DEF WellLinked
    <3>2. pc + 1 .. body - 1 = pc + 1 .. pc + ast[pc].link - 1
      BY <1>2, <2>2
    <3> HIDE DEF body
    <3>3. \A a \in pc + 1 .. body - 1 : ast[a].op = "arg"
      BY <3>1, <3>2
    <3> QED
      BY <3>1, <3>3 DEF body
  <2>4. pc < body /\ body \in pc + 1 .. Len(ast) + 1
    BY <1>1, <1>2, <2>2, <2>3
  <2> HIDE DEF body
  <2>5. locals[body] = None
    <3> SUFFICES ASSUME locals[body] # None PROVE FALSE
      OBVIOUS
    <3>1. body < pc \/ \A a \in pc .. body - 1 : ast[a].op = "arg"
      BY <1>2, <2>3 DEF TablesMatch, TablesAhead
    <3>2. pc \in pc .. body - 1
      BY <1>2, <2>4
    <3> QED
      BY <1>2, <2>1, <2>4, <3>1, <3>2
  <2>6. ScopeOf(ast, body) = ScopeOf(ast, pc)
    <3>1. \A a \in pc + 1 .. body - 1 : ast[a].op \notin Openers \cup Closers
      BY <2>3 DEF Openers, Closers
    <3>2. Open(ast, Tabled, body) = Open(ast, Tabled, pc + 1)
      BY <1>1, <1>2, <2>4, <3>1, KindsOfNodes, OpenAfterLeaves
    <3>3. ast[pc].op \in Openers \ Tabled
      BY <2>1 DEF Openers, Tabled
    <3>4. Open(ast, Tabled, pc) = Open(ast, Tabled, pc + 1)
      BY <1>1, <1>2, <3>3, KindsOfNodes, OpenAside
    <3> DEFINE Greatest(open) == IF open = {} THEN 0 ELSE CHOOSE o \in open : \A q \in open : q <= o
    <3>5. \A i : ScopeOf(ast, i) = Greatest(Open(ast, Tabled, i))
      BY DEF ScopeOf, Innermost, Tabled
    <3> HIDE DEF Greatest
    <3> QED
      BY <3>2, <3>4, <3>5
  <2>7. ast[body].op \in Tabled /\ pc <= body
    BY <1>2, <2>3, <2>4 DEF Tabled
  <2> QED
    BY <1>2, <1>3, <1>4, <2>1, <2>3, <2>5, <2>6, <2>7, AllocationMatches
<1>6. CASE DeclBlock \/ DeclInAssign
  <2>1. ast[pc].op \in Tabled /\ pc <= pc
    BY <1>2, <1>6 DEF DeclBlock, DeclInAssign, At, Tabled
  <2>2. CASE DeclBlock /\ locals[pc] # None
    <3>1. UNCHANGED <<arena, locals>>
      BY <2>2 DEF DeclBlock
    <3> QED
      BY <1>2, <1>3, <3>1, NothingDeclared
  <2>3. CASE ~ (DeclBlock /\ locals[pc] # None)
    <3>1. locals[pc] = None
      <4> SUFFICES ASSUME locals[pc] # None, DeclInAssign PROVE FALSE
        BY <1>6, <2>3
      <4>1. ast[pc].op = "in"
        BY DEF DeclInAssign, At
      <4>2. pc < pc \/ ast[pc].op = "block"
        BY <1>2 DEF TablesMatch, TablesAhead
      <4> QED
        BY <1>2, <4>1, <4>2
    <3>2. /\ locals' = [locals EXCEPT ![pc] = Len(arena) + 1]
          /\ \E c \in ScopingContext : arena' = Allocated(c)
      BY <1>1, <1>4, <1>6, <3>1 DEF DeclBlock, DeclInAssign
    <3> QED
      BY <1>2, <1>3, <2>1, <3>1, <3>2, AllocationMatches
  <2> QED
    BY <2>2, <2>3
<1> QED
  BY <1>5, <1>6

(* The other methods of VarDeclPass. *)
LEMMA DeclPassMatches ==
  ASSUME PlaceInv, TablesMatch, DeclPass, ~ DeclDone
  PROVE  TablesMatch'
<1>1. CASE DeclFunction \/ DeclBlock \/ DeclInAssign
  BY <1>1, ScopesMatch
<1>2. CASE DeclArgument \/ DeclAssignName
  BY <1>2, NamesMatch
<1>3. CASE DeclEndFunction \/ DeclEndBlock \/ DeclEndInAssign \/ DeclTypeAssign
           \/ DeclEndTypeAssign \/ DeclOther
  <2>1. /\ pass = "decl" /\ pc \in DOMAIN ast /\ Continue /\ UNCHANGED <<arena, locals>>
        /\ ast[pc].op \notin {"declare", "name", "arg"}
    BY <1>3 DEF DeclEndFunction, DeclEndBlock, DeclEndInAssign, DeclTypeAssign, DeclEndTypeAssign,
       DeclOther, At
  <2> QED
    BY <2>1, NamesOnly, NothingDeclared
<1> QED
  BY <1>1, <1>2, <1>3 DEF DeclPass

(* After VarDeclPass the tables stay as they are. *)
LEMMA TablesKept ==
  ASSUME PlaceInv, TablesMatch, UNCHANGED <<ast, arena, locals>>,
         pass' # "decl", pass = "decl" => pc = Len(ast) + 1
  PROVE  TablesMatch'
<1>1. DOMAIN ast = 1 .. Len(ast) /\ Len(ast) \in Nat
  BY PlaceFacts
<1>2. \A s : HasTable(s)' = HasTable(s) /\ TableOf(s)' = TableOf(s)
  BY DEF HasTable, TableOf
<1>3. Visited' = Visited
  BY <1>1 DEF Visited
<1>4. \A s, n : DeclaredSoFar(s, n)' = DeclaredSoFar(s, n)
  BY <1>3 DEF DeclaredSoFar
<1>5. ScopesApart'
  BY <1>2 DEF TablesMatch, ScopesApart
<1>6. TablesAhead'
  BY DEF TablesAhead
<1>7. VectorsList'
  BY <1>2, <1>4 DEF TablesMatch, VectorsList
<1> QED
  BY <1>5, <1>6, <1>7 DEF TablesMatch

LEMMA TablesBegin ==
  ASSUME Init
  PROVE  TablesMatch
<1>1. /\ ast \in Programs /\ pass = "decl" /\ pc = 1 /\ locals = [i \in DOMAIN ast |-> None]
      /\ arena = <<NewTable(GlobalSymIndex, "GLOBAL")>>
  BY DEF Init
<1>2. \A s : HasTable(s) => s = GlobalScope
  BY <1>1 DEF HasTable
<1>3. DOMAIN ast = 1 .. Len(ast) /\ Len(ast) \in Nat
  BY <1>1, ProgramsAssumption
<1>4. GlobalScope \notin DOMAIN ast
  BY <1>3 DEF GlobalScope
<1>5. ScopesApart
  BY <1>2, <1>4 DEF ScopesApart
<1>6. TablesAhead
  BY <1>1 DEF TablesAhead
<1>7. VectorsList
  <2> SUFFICES ASSUME NEW n \in Name
               PROVE  Lists(ast, arena[TableOf(GlobalScope)].symbols[n].decls,
                            DeclaredSoFar(GlobalScope, n))
    BY <1>2 DEF VectorsList
  <2>1. arena[TableOf(GlobalScope)] = NewTable(GlobalSymIndex, "GLOBAL")
    BY <1>1 DEF TableOf, GlobalSymIndex
  <2>2. NewTable(GlobalSymIndex, "GLOBAL").symbols[n].decls = <<>>
    <3>1. /\ NewTable(GlobalSymIndex, "GLOBAL").symbols["self"] = IndexTo(GlobalSymIndex)
          /\ \A k \in Name \ {"self"} : NewTable(GlobalSymIndex, "GLOBAL").symbols[k] = Unbound
      BY NewTableIsTable DEF GlobalSymIndex, ScopingContext
    <3> QED
      BY <3>1 DEF IndexTo, Unbound
  <2>3. DeclaredSoFar(GlobalScope, n) = {}
    BY <1>1 DEF DeclaredSoFar, Visited
  <2> QED
    BY <2>1, <2>2, <2>3, ListsNothing
<1> QED
  BY <1>5, <1>6, <1>7 DEF TablesMatch

-----------------------------------------------------------------------------
(* Lookup, when VarDeclPass is done.                                       *)

LEMMA AllTabled ==
  ASSUME PlaceInv, pass = "ref"
  PROVE  /\ HasTable(GlobalScope)
         /\ \A i \in DOMAIN ast : HasTable(ScopeOf(ast, i))
         /\ \A s, n : DeclaredSoFar(s, n) = DeclarationsOf(ast, s, n)
<1>1. Walkable(ast) /\ DOMAIN ast = 1 .. Len(ast) /\ Len(ast) \in Nat
  BY PlaceFacts
<1>2. ASSUME NEW i \in DOMAIN ast PROVE HasTable(ScopeOf(ast, i))
  <2>1. i \in 1 .. Len(ast) + 1
    BY <1>1
  <2>2. \/ ScopeOf(ast, i) = 0
        \/ ScopeOf(ast, i) \in DOMAIN ast /\ ast[ScopeOf(ast, i)].op \in Tabled
    BY <1>1, <2>1, ScopeOfFacts
  <2> QED
    BY <2>2 DEF HasTable, GlobalScope, Tabled, PlaceInv, IInv, ScopesAnnotated
<1>3. \A s, n : DeclaredSoFar(s, n) = DeclarationsOf(ast, s, n)
  BY DEF DeclaredSoFar, Visited, DeclarationsOf
<1> QED
  BY <1>2, <1>3 DEF HasTable

(* What a table binds, in terms of the rules. *)
LEMMA Bound ==
  ASSUME PlaceInv, TablesMatch, pass = "ref", NEW s, HasTable(s), NEW n \in Name
  PROVE  LET b == arena[TableOf(s)].symbols[n] IN
         /\ TableOf(s) \in DOMAIN arena /\ s \in 0 .. Len(ast)
         /\ b \in Binding /\ (b.kind = "index" <=> IsKeyword(s, n))
         /\ (b.kind = "ssa" <=> DeclarationsOf(ast, s, n) # {})
         /\ (Exists(arena[TableOf(s)], n) <=> IsKeyword(s, n) \/ DeclarationsOf(ast, s, n) # {})
         /\ Lists(ast, b.decls, DeclarationsOf(ast, s, n)) /\ b.decls \in Seq(SymbolInfo)
  BY AllTabled, ScopeTables, KeywordBound, KnownHere DEF TablesMatch

(* mostRecentDef comes to the table of the nearest scope that knows a name. *)
LEMMA MostRecentNearest ==
  ASSUME PlaceInv, TablesMatch, pass = "ref", NEW n \in Name, NEW s, HasTable(s)
  PROVE  LET h == Nearest(ast, s, n)
             t == MostRecentDef(arena, TableOf(s), n)
         IN  \/ h = NoScope /\ t = None
             \/ /\ h # NoScope /\ HasTable(h) /\ t = TableOf(h)
                /\ IsKeyword(h, n) \/ DeclarationsOf(ast, h, n) # {}
<1> DEFINE Good(u) == LET h == Nearest(ast, u, n)
                          t == MostRecentDef(arena, TableOf(u), n)
                      IN  \/ h = NoScope /\ t = None
                          \/ /\ h # NoScope /\ HasTable(h) /\ t = TableOf(h)
                             /\ IsKeyword(h, n) \/ DeclarationsOf(ast, h, n) # {}
           T == {u \in 0 .. Len(ast) : HasTable(u) /\ ~ Good(u)}
<1>1. /\ Walkable(ast) /\ DOMAIN ast = 1 .. Len(ast) /\ Len(ast) \in Nat /\ arena \in Seq(Table)
      /\ Rooted(arena) /\ DOMAIN arena = 1 .. Len(arena) /\ Len(arena) \in Nat
  BY PlaceFacts, ArenaRooted DEF PlaceInv, IInv
<1>2. T = {}
  <2> SUFFICES ASSUME T # {} PROVE FALSE
    OBVIOUS
  <2>1. PICK u \in T : \A k \in T : u <= k
    <3>1. T \subseteq Nat
      OBVIOUS
    <3> QED
      BY <3>1, LeastNat
  <2> DEFINE t == TableOf(u)
             knows == IsKeyword(u, n) \/ DeclarationsOf(ast, u, n) # {}
             out == ScopeOf(ast, u)
  <2>2. /\ u \in 0 .. Len(ast) /\ HasTable(u) /\ t \in DOMAIN arena /\ t # None
        /\ Exists(arena[t], n) <=> knows
    BY <1>1, <2>1, Bound DEF None
  <2>3. Nearest(ast, u, n) = IF knows THEN u
                             ELSE IF u = GlobalScope THEN NoScope ELSE Nearest(ast, out, n)
    BY <1>1, <2>2, NearestClimbs
  <2>4. /\ \A v \in 0 .. Len(arena) : MostRecentDef(arena, v, n) =
              IF v = None THEN None
              ELSE IF Exists(arena[v], n) THEN v ELSE MostRecentDef(arena, arena[v].parent, n)
    BY <1>1, MostRecentDefClimbs
  <2>5. MostRecentDef(arena, t, n) = IF knows THEN t ELSE MostRecentDef(arena, arena[t].parent, n)
    BY <1>1, <2>2, <2>4
  <2>6. ~ Good(u)
    BY <2>1
  <2>7. u # NoScope
    BY <2>2 DEF NoScope
  <2>8. CASE knows
    BY <2>2, <2>3, <2>5, <2>6, <2>7, <2>8
  <2>9. CASE ~ knows /\ u = GlobalScope
    <3>1. arena[t].parent = None
      BY <2>2, <2>9 DEF TableOf, PlaceInv, IInv, ParentsPrecede
    <3>2. MostRecentDef(arena, None, n) = None
      BY <1>1, <2>4 DEF None
    <3> QED
      BY <2>3, <2>5, <2>6, <2>9, <3>1, <3>2
  <2>10. CASE ~ knows /\ u # GlobalScope
    <3>1. u \in DOMAIN ast /\ u \in 1 .. Len(ast) + 1
      BY <1>1, <2>2, <2>10 DEF HasTable
    <3>2. HasTable(out) /\ arena[t].parent = TableOf(out)
      BY <2>2, <2>10, <3>1 DEF TablesMatch, ScopesApart, TableOf
    <3>3. out \in 0 .. u - 1
      <4>1. out = 0 \/ out \in 1 .. u - 1
        BY <1>1, <3>1, ScopeOfFacts
      <4> QED
        BY <1>1, <3>1, <4>1
    <3>4. out \in 0 .. Len(ast) /\ ~ (u <= out)
      BY <1>1, <3>1, <3>3
    <3>5. Good(out)
      BY <2>1, <3>2, <3>4
    <3>6. /\ Nearest(ast, u, n) = Nearest(ast, out, n)
          /\ MostRecentDef(arena, t, n) = MostRecentDef(arena, TableOf(out), n)
      BY <2>3, <2>5, <2>10, <3>2
    <3> QED
      BY <2>6, <3>5, <3>6
  <2> QED
    BY <2>8, <2>9, <2>10
<1>3. s \in 0 .. Len(ast)
  BY ScopeTables DEF TablesMatch
<1> QED
  BY <1>2, <1>3

(* From the table of a scope, the loop of lookup follows self and super as
   the rules walk from scope to scope, up to the last part of the path. *)
LEMMA FollowQualified ==
  ASSUME PlaceInv, TablesMatch, pass = "ref", NEW s, HasTable(s), NEW path, Len(path) \in Nat,
         NEW from \in 1 .. Len(path), \A j \in from .. Len(path) : path[j] \in Name,
         NEW parts, Len(parts) = Len(path) - from,
         \A k \in 1 .. Len(path) - from : parts[k] = path[from + k - 1]
  PROVE  LET q     == Qualified(ast, s, parts)
             found == Follow(arena, path, from, TableOf(s))
         IN  \/ q = NoScope /\ found.part < Len(path)
             \/ /\ q # NoScope /\ HasTable(q)
                /\ IF IsKeyword(q, path[Len(path)]) THEN found.part = Len(path) + 1
                   ELSE found = [table |-> TableOf(q), part |-> Len(path)]
<1> DEFINE L == Len(path)
           N == L - from
           q == Qualified(ast, s, parts)
           found == Follow(arena, path, from, TableOf(s))
<1>1. /\ Walkable(ast) /\ DOMAIN ast = 1 .. Len(ast) /\ Len(ast) \in Nat /\ arena \in Seq(Table)
      /\ Rooted(arena) /\ L \in Nat /\ N \in Nat /\ from \in Nat
  BY PlaceFacts, ArenaRooted DEF PlaceInv, IInv
<1>2. s \in 0 .. Len(ast) /\ TableOf(s) \in DOMAIN arena
  BY ScopeTables DEF TablesMatch
<1>3. PICK w : /\ w[0] = s /\ w[N] = q
               /\ \A n \in 1 .. N : w[n] = Outward(ast, w[n - 1], parts[n])
  <2>1. Len(parts) = N
    OBVIOUS
  <2> HIDE DEF N
  <2>2. Len(parts) \in Nat /\ Walkable(ast) /\ s \in 0 .. Len(ast)
    BY <1>1, <1>2, <2>1
  <2>3. \E w \in [0 .. Len(parts) -> {NoScope} \cup 0 .. Len(ast)] :
          /\ w[0] = s /\ w[Len(parts)] = Qualified(ast, s, parts)
          /\ \A n \in 1 .. Len(parts) : w[n] = Outward(ast, w[n - 1], parts[n])
    BY ONLY <2>2, QualifiedWalks, SMTT(60)
  <2> QED
    BY <2>1, <2>3
<1>4. PICK f : Follows(DOMAIN arena, arena, path, from, f) /\ found = f[<<TableOf(s), from>>]
  <2>1. from \in 1 .. Len(path) + 1
    BY <1>1
  <2> QED
    BY <1>1, <1>2, <2>1, FollowRuns
<1>5. \A t \in DOMAIN arena : \A i \in from .. L + 1 :
        f[<<t, i>>] = IF i <= L /\ arena[t].symbols[path[i]].kind = "index"
                      THEN f[<<arena[t].symbols[path[i]].index, i + 1>>]
                      ELSE [table |-> t, part |-> i]
  <2>1. \A S, U : \A g : f = [x \in S \X U |-> Following(arena, path, g, x)]
          => \A t \in S : \A i \in U : f[<<t, i>>] = Following(arena, path, g, <<t, i>>)
    OBVIOUS
  <2>2. \A t \in DOMAIN arena : \A i \in from .. L + 1 : f[<<t, i>>] = Following(arena, path, f, <<t, i>>)
    BY <1>4, <2>1 DEF Follows
  <2> QED
    BY <2>2 DEF Following
<1> HIDE DEF q, found
<1> DEFINE Good(n) == \/ w[n] = NoScope /\ found.part < from + n
                      \/ /\ w[n] # NoScope /\ HasTable(w[n])
                         /\ found = f[<<TableOf(w[n]), from + n>>]
           T == {n \in 0 .. N : ~ Good(n)}
<1>6. T = {}
  <2> SUFFICES ASSUME T # {} PROVE FALSE
    OBVIOUS
  <2>1. PICK n \in T : \A k \in T : n <= k
    <3>1. T \subseteq Nat
      OBVIOUS
    <3> QED
      BY <3>1, LeastNat
  <2>2. Good(0)
    <3>1. s # NoScope /\ from + 0 = from
      BY <1>1, <1>2 DEF NoScope
    <3> QED
      BY <1>3, <1>4, <3>1
  <2>3. n \in 1 .. N /\ n - 1 \in 0 .. N /\ n \in 0 .. N /\ ~ (n <= n - 1)
    <3>1. n \in 0 .. N /\ n # 0
      BY <2>1, <2>2
    <3> HIDE DEF N, T
    <3> QED
      BY <1>1, <3>1
  <2>4. Good(n - 1)
    <3>1. n - 1 \notin T
      <4> HIDE DEF T
      <4> QED
        BY <2>1, <2>3
    <3> QED
      BY <2>3, <3>1
  <2>5. ~ Good(n)
    BY <2>1
  <2> DEFINE x == w[n - 1]
             i == from + (n - 1)
             b == arena[TableOf(x)].symbols[path[i]]
  <2>6. /\ i \in from .. L /\ i \in from .. L + 1 /\ i + 1 = from + n /\ i = from + n - 1
        /\ path[i] \in Name /\ parts[n] = path[i]
    BY <1>1, <2>3
  <2>7. w[n] = Outward(ast, x, path[i])
    BY <1>3, <2>3, <2>6
  <2> HIDE DEF x, i
  <2>8. CASE x = NoScope
    <3>1. w[n] = NoScope
      BY <2>7, <2>8 DEF Outward
    <3>2. found.part < i
      BY <2>4, <2>8 DEF x, i
    <3>3. found.part < from + n
      <4>1. found.part \in Nat
        <5>1. from \in 1 .. Len(path) + 1
          BY <1>1
        <5>2. found.part \in from .. Len(path) + 1
          BY <1>1, <1>2, <5>1, FollowStaysInArena DEF found
        <5> QED
          BY <1>1, <5>2
      <4> QED
        BY <1>1, <2>6, <3>2, <4>1
    <3> QED
      BY <2>5, <3>1, <3>3
  <2>9. CASE x # NoScope
    <3>1. HasTable(x) /\ found = f[<<TableOf(x), i>>]
      BY <2>4, <2>9 DEF x, i
    <3>2. /\ TableOf(x) \in DOMAIN arena /\ (b.kind = "index" <=> IsKeyword(x, path[i]))
          /\ x \in 0 .. Len(ast)
      BY <2>6, <3>1, Bound
    <3>3. /\ path[i] = "self" => b.index = TableOf(x)
          /\ path[i] = "super" /\ x # GlobalScope =>
               b.index = TableOf(ScopeOf(ast, x)) /\ HasTable(ScopeOf(ast, x))
      BY <2>6, <3>1, KeywordBound DEF TablesMatch
    <3>4. found = IF IsKeyword(x, path[i]) THEN f[<<b.index, from + n>>]
                  ELSE [table |-> TableOf(x), part |-> i]
      <4>1. i <= L
        BY <1>1, <2>6
      <4> QED
        BY <1>5, <2>6, <3>1, <3>2, <4>1
    <3>5. CASE path[i] = "self"
      <4>1. w[n] = x /\ IsKeyword(x, path[i])
        BY <2>7, <2>9, <3>5 DEF Outward, IsKeyword
      <4> QED
        BY <2>5, <2>9, <3>1, <3>3, <3>4, <3>5, <4>1
    <3>6. CASE path[i] = "super" /\ x # GlobalScope
      <4>1. w[n] = ScopeOf(ast, x) /\ IsKeyword(x, path[i])
        BY <2>7, <2>9, <3>6 DEF Outward, IsKeyword
      <4>2. w[n] # NoScope
        <5>1. ScopeOf(ast, x) \in 0 .. Len(ast)
          BY <3>3, <3>6, ScopeTables DEF TablesMatch
        <5> QED
          BY <4>1, <5>1 DEF NoScope
      <4> QED
        BY <2>5, <3>3, <3>4, <3>6, <4>1, <4>2
    <3>7. CASE ~ IsKeyword(x, path[i])
      <4>1. w[n] = NoScope
        BY <2>7, <2>9, <3>7 DEF Outward, IsKeyword
      <4>2. found.part = i /\ i < from + n
        BY <1>1, <2>6, <3>4, <3>7
      <4> QED
        BY <2>5, <4>1, <4>2
    <3> QED
      BY <3>5, <3>6, <3>7 DEF IsKeyword
  <2> QED
    BY <2>8, <2>9
<1>7. N \in 0 .. N /\ from + N = L
  BY <1>1
<1>8. Good(N)
  BY <1>6, <1>7
<1>9. CASE q = NoScope
  BY <1>3, <1>7, <1>8, <1>9 DEF q, found
<1>10. CASE q # NoScope
  <2> DEFINE key == path[L]
             b == arena[TableOf(q)].symbols[key]
  <2>1. HasTable(q) /\ found = f[<<TableOf(q), L>>]
    BY <1>3, <1>7, <1>8, <1>10
  <2>2. key \in Name /\ L \in from .. L + 1 /\ L + 1 \in from .. L + 1 /\ L <= L /\ ~ (L + 1 <= L)
    BY <1>1
  <2>3. TableOf(q) \in DOMAIN arena /\ (b.kind = "index" <=> IsKeyword(q, key))
    BY <2>1, <2>2, Bound
  <2> HIDE DEF L
  <2>4. CASE IsKeyword(q, key)
    <3>1. found = f[<<b.index, L + 1>>]
      BY <1>1, <1>5, <2>1, <2>2, <2>3, <2>4
    <3>2. b.index \in DOMAIN arena
      BY <1>1, <2>2, <2>3, <2>4 DEF Rooted
    <3>3. f[<<b.index, L + 1>>] = [table |-> b.index, part |-> L + 1]
      <4> HIDE DEF b
      <4> QED
        BY <1>5, <2>2, <3>2
    <3>4. found.part = L + 1
      BY <3>1, <3>3
    <3> QED
      BY <1>10, <2>1, <2>4, <3>4 DEF q, found, L
  <2>5. CASE ~ IsKeyword(q, key)
    <3>1. found = [table |-> TableOf(q), part |-> L]
      BY <1>5, <2>1, <2>2, <2>3, <2>5
    <3> QED
      BY <1>10, <2>1, <2>5, <3>1 DEF q, found, L
  <2> QED
    BY <2>4, <2>5
<1> QED
  BY <1>9, <1>10

(* A path that does not begin with a keyword names no scope. *)
LEMMA QualifiedNowhere ==
  ASSUME NEW p, Walkable(p), NEW s \in 0 .. Len(p), NEW parts, Len(parts) \in Nat, Len(parts) >= 1,
         Outward(p, s, parts[1]) = NoScope
  PROVE  Qualified(p, s, parts) = NoScope
<1> DEFINE N == Len(parts)
<1>1. PICK w \in [0 .. N -> {NoScope} \cup 0 .. Len(p)] :
        /\ w[0] = s /\ w[N] = Qualified(p, s, parts)
        /\ \A n \in 1 .. N : w[n] = Outward(p, w[n - 1], parts[n])
  BY QualifiedWalks
<1> HIDE DEF N
<1>2. N \in Nat /\ N >= 1
  BY DEF N
<1> DEFINE T == {n \in 1 .. N : w[n] # NoScope}
<1>3. T = {}
  <2> SUFFICES ASSUME T # {} PROVE FALSE
    OBVIOUS
  <2>1. PICK n \in T : \A k \in T : n <= k
    <3>1. T \subseteq Nat
      OBVIOUS
    <3> QED
      BY <3>1, LeastNat
  <2>2. n \in 1 .. N /\ w[n] # NoScope /\ w[n] = Outward(p, w[n - 1], parts[n])
    BY <1>1
  <2>3. n # 1
    BY <1>1, <2>2
  <2>4. n - 1 \in 1 .. N /\ n - 1 \notin T
    <3>1. n - 1 \in 1 .. N /\ ~ (n <= n - 1)
      BY <1>2, <2>2, <2>3
    <3> QED
      BY <2>1, <3>1
  <2>5. w[n - 1] = NoScope
    BY <2>4
  <2> QED
    BY <2>2, <2>5 DEF Outward
<1> QED
  BY <1>1, <1>2, <1>3

(* What lookup comes to for a variable, given the scope that its path names. *)
Finds(i, found) ==
  LET path == ast[i].path
      key  == path[Len(path)]
      home == HomeOf(ast, i)
  IN  \/ /\ home = NoScope
         /\ Stopped(found, path) \/ (found.table \in DOMAIN arena /\ ~ Exists(arena[found.table], key))
      \/ /\ home # NoScope /\ HasTable(home)
         /\ IF IsKeyword(home, key) THEN Stopped(found, path)
            ELSE found = [table |-> TableOf(home), part |-> Len(path)]

LEMMA LookupFinds ==
  ASSUME PlaceInv, TablesMatch, pass = "ref", NEW i \in Uses,
         current = TableOf(ScopeOf(ast, i))
  PROVE  Finds(i, Lookup(arena, current, ast[i].path))
<1> DEFINE path   == ast[i].path
           L      == Len(path)
           key    == path[L]
           s      == ScopeOf(ast, i)
           home   == HomeOf(ast, i)
           found  == Lookup(arena, current, path)
           within == SubSeq(path, 1, L - 1)
           def    == MostRecentDef(arena, current, path[1])
           empty  == path[1] = ""
<1> SUFFICES Finds(i, found)
  OBVIOUS
<1>1. /\ Walkable(ast) /\ arena \in Seq(Table) /\ Rooted(arena) /\ current \in DOMAIN arena
      /\ i \in DOMAIN ast /\ ast[i].op \in {"use", "target", "callee"} /\ ast \in Seq(Event)
  BY PlaceFacts, ArenaRooted DEF PlaceInv, IInv, Uses, TypeOK
<1>2. HasTable(s) /\ current = TableOf(s) /\ s \in 0 .. Len(ast) /\ HasTable(GlobalScope)
  BY <1>1, AllTabled, ScopeTables DEF TablesMatch
<1>3. Named(path) /\ key \in Name
  BY <1>1, ReferencePath DEF PlaceInv
<1>4. L \in Nat /\ L >= 1 /\ (empty \/ path[1] \in Name) /\ \A j \in 2 .. L : path[j] \in Name
  BY <1>3, PathParts
<1>5. L = 1 => ~ empty
  BY <1>3, NameAssumption
<1>6. \E S : path \in Seq(S)
  BY <1>3 DEF Named
<1>7. found = CASE empty                -> Follow(arena, path, 2, GlobalSymIndex)
                [] ~ empty /\ def = None -> [table |-> current, part |-> 1]
                [] ~ empty /\ def # None -> Follow(arena, path, 1, def)
  BY DEF Lookup
<1>8. home = CASE L = 1           -> Nearest(ast, s, path[1])
               [] L > 1 /\ empty   -> Qualified(ast, GlobalScope, Tail(within))
               [] L > 1 /\ ~ empty -> Qualified(ast, s, within)
  BY DEF HomeOf
<1> HIDE DEF path, empty
<1>9. ~ empty => path[1] \in Name /\ \A j \in 1 .. L : path[j] \in Name
  BY <1>4
<1>10. L > 1 => /\ Len(within) = L - 1 /\ \A k \in 1 .. L - 1 : within[k] = path[k]
                /\ Len(Tail(within)) = L - 2 /\ \A k \in 1 .. L - 2 : Tail(within)[k] = path[k + 1]
  <2>1. PICK S : path \in Seq(S)
    BY <1>6
  <2> HIDE DEF within
  <2>2. ASSUME L > 1 PROVE Len(within) = L - 1 /\ \A k \in 1 .. L - 1 : within[k] = path[k]
    BY <1>4, <2>1, <2>2 DEF within
  <2>3. ASSUME L > 1 PROVE Len(Tail(within)) = L - 2 /\ \A k \in 1 .. L - 2 : Tail(within)[k] = path[k + 1]
    <3>1. within \in Seq(S) /\ within # <<>>
      <4>1. \A k \in 1 .. L - 1 : k \in 1 .. L /\ path[k] \in S
        BY <1>4, <2>1
      <4>2. within \in Seq(S)
        BY <1>4, <2>1, <2>3, <4>1 DEF within
      <4> QED
        BY <1>4, <2>2, <2>3, <4>2
    <3>2. Len(Tail(within)) = L - 2 /\ \A k \in 1 .. L - 2 : Tail(within)[k] = within[k + 1]
      BY <1>4, <2>2, <2>3, <3>1
    <3> QED
      BY <1>4, <2>2, <2>3, <3>2
  <2> QED
    BY <2>2, <2>3
<1>11. Finds(i, found)
         <=> \/ /\ home = NoScope
                /\ \/ found.part # L
                   \/ found.table \in DOMAIN arena /\ ~ Exists(arena[found.table], key)
             \/ /\ home # NoScope /\ HasTable(home)
                /\ IF IsKeyword(home, key) THEN found.part # L
                   ELSE found = [table |-> TableOf(home), part |-> L]
  BY DEF Finds, Stopped, path
<1> HIDE DEF found, home, within, s, def
<1>12. ASSUME ~ empty
       PROVE  \/ Nearest(ast, s, path[1]) = NoScope /\ def = None
              \/ LET h == Nearest(ast, s, path[1]) IN
                 /\ h # NoScope /\ HasTable(h) /\ def = TableOf(h)
                 /\ IsKeyword(h, path[1]) \/ DeclarationsOf(ast, h, path[1]) # {}
  BY <1>2, <1>9, <1>12, MostRecentNearest DEF def
<1>13. \A h : \A k : IsKeyword(h, k) => IsKeyword(s, k) \/ s = GlobalScope
  BY DEF IsKeyword
<1>14. ASSUME ~ empty, NEW h, HasTable(h), def = TableOf(h), ~ IsKeyword(h, path[1])
       PROVE  found = [table |-> TableOf(h), part |-> 1]
  <2>1. /\ TableOf(h) \in DOMAIN arena
        /\ arena[TableOf(h)].symbols[path[1]].kind # "index"
    BY <1>9, <1>14, Bound
  <2>2. def # None
    BY <1>1, <1>14, <2>1 DEF None
  <2>3. found = Follow(arena, path, 1, TableOf(h))
    BY <1>7, <1>14, <2>2
  <2>4. PICK f : /\ Follows(DOMAIN arena, arena, path, 1, f)
                 /\ Follow(arena, path, 1, TableOf(h)) = f[<<TableOf(h), 1>>]
    <3>1. 1 \in 1 .. Len(path) + 1 /\ Len(path) \in Nat
      BY <1>4
    <3> QED
      BY <1>1, <1>9, <1>14, <2>1, <3>1, FollowRuns
  <2>5. \A S, U : \A g : f = [x \in S \X U |-> Following(arena, path, g, x)]
          => \A t \in S : \A j \in U : f[<<t, j>>] = Following(arena, path, g, <<t, j>>)
    OBVIOUS
  <2>6. f[<<TableOf(h), 1>>] = Following(arena, path, f, <<TableOf(h), 1>>)
    <3>1. 1 \in 1 .. Len(path) + 1
      BY <1>4
    <3> QED
      BY <2>1, <2>4, <2>5, <3>1 DEF Follows
  <2> QED
    BY <2>1, <2>3, <2>4, <2>6 DEF Following
<1>15. CASE L = 1
  <2> DEFINE h == Nearest(ast, s, path[1])
  <2>1. home = h /\ ~ empty /\ key = path[1]
    BY <1>5, <1>8, <1>15
  <2> HIDE DEF h
  <2>2. CASE h = NoScope
    <3>1. def = None
      BY <1>12, <2>1, <2>2 DEF h
    <3>2. found = [table |-> current, part |-> 1]
      BY <1>7, <2>1, <3>1
    <3>3. ~ Exists(arena[current], key)
      <4>1. Exists(arena[current], key) => def = current
        <5>1. current \in 0 .. Len(arena) /\ current # None
          BY <1>1 DEF None
        <5> QED
          BY <1>1, <2>1, <5>1, MostRecentDefClimbs DEF def
      <4> QED
        BY <1>1, <3>1, <4>1 DEF None
    <3> QED
      BY <1>1, <1>11, <2>1, <2>2, <3>2, <3>3
  <2>3. CASE h # NoScope
    <3>1. HasTable(h) /\ def = TableOf(h)
      BY <1>12, <2>1, <2>3 DEF h
    <3>2. CASE ~ IsKeyword(h, key)
      BY <1>11, <1>14, <1>15, <2>1, <2>3, <3>1, <3>2
    <3>3. CASE IsKeyword(h, key)
      <4> DEFINE parts == <<>>
      <4>1. Len(parts) = L - 1 /\ \A k \in 1 .. L - 1 : parts[k] = path[1 + k - 1]
        BY <1>15
      <4>2. def # None
        <5>1. TableOf(h) \in DOMAIN arena
          BY <3>1, ScopeTables DEF TablesMatch
        <5> QED
          BY <1>1, <3>1, <5>1 DEF None
      <4>3. found = Follow(arena, path, 1, TableOf(h))
        BY <1>7, <2>1, <3>1, <4>2
      <4>4. Qualified(ast, h, parts) = h
        <5>1. h \in 0 .. Len(ast)
          BY <3>1, ScopeTables DEF TablesMatch
        <5>2. Len(parts) = 0
          OBVIOUS
        <5> HIDE DEF parts
        <5> QED
          BY <1>1, <5>1, <5>2, QualifiedWalks
      <4> HIDE DEF parts
      <4>5. 1 \in 1 .. Len(path)
        BY <1>4
      <4>6. found.part = L + 1
        BY <1>4, <1>9, <2>1, <2>3, <3>1, <3>3, <4>1, <4>3, <4>4, <4>5, FollowQualified
      <4>7. found.part # L
        BY <1>4, <4>6
      <4> QED
        BY <1>11, <2>1, <2>3, <3>1, <3>3, <4>7
    <3> QED
      BY <3>2, <3>3
  <2> QED
    BY <2>2, <2>3
<1>16. CASE L > 1 /\ empty
  <2>1. home = Qualified(ast, GlobalScope, Tail(within)) /\ found = Follow(arena, path, 2, GlobalSymIndex)
    BY <1>4, <1>7, <1>8, <1>16
  <2>2. 2 \in 1 .. Len(path)
    BY <1>4, <1>16
  <2>3. TableOf(GlobalScope) = GlobalSymIndex
    BY DEF TableOf
  <2>4. Len(Tail(within)) = Len(path) - 2
        /\ \A k \in 1 .. Len(path) - 2 : Tail(within)[k] = path[2 + k - 1]
    <3>1. \A k \in 1 .. L - 2 : 2 + k - 1 = k + 1
      BY <1>4
    <3> QED
      BY <1>10, <1>16, <3>1
  <2> DEFINE parts == Tail(within)
  <2> HIDE DEF parts
  <2>5. \/ home = NoScope /\ found.part < L
        \/ /\ home # NoScope /\ HasTable(home)
           /\ IF IsKeyword(home, key) THEN found.part = L + 1
              ELSE found = [table |-> TableOf(home), part |-> L]
    BY <1>2, <1>4, <2>1, <2>2, <2>3, <2>4, FollowQualified DEF parts
  <2>6. found.part < L \/ found.part = L + 1 => found.part # L
    BY <1>4
  <2> QED
    BY <1>11, <2>5, <2>6
<1>17. CASE L > 1 /\ ~ empty
  <2>1. home = Qualified(ast, s, within)
    BY <1>4, <1>8, <1>17
  <2>2. 1 \in 1 .. Len(path) /\ 1 # L
    BY <1>4, <1>17
  <2>3. Len(within) = Len(path) - 1 /\ \A k \in 1 .. Len(path) - 1 : within[k] = path[1 + k - 1]
    <3>1. \A k \in 1 .. L - 1 : 1 + k - 1 = k
      BY <1>4
    <3> QED
      BY <1>10, <1>17, <3>1
  <2>4. CASE IsKeyword(s, path[1])
    <3>1. def = current /\ def # None
      <4>1. Exists(arena[current], path[1])
        BY <1>2, <1>9, <1>17, <2>4, Bound
      <4>2. current \in 0 .. Len(arena) /\ current # None
        BY <1>1 DEF None
      <4> QED
        BY <1>1, <4>1, <4>2, MostRecentDefClimbs DEF def
    <3>2. found = Follow(arena, path, 1, TableOf(s))
      BY <1>2, <1>7, <1>17, <3>1
    <3>3. \/ home = NoScope /\ found.part < L
          \/ /\ home # NoScope /\ HasTable(home)
             /\ IF IsKeyword(home, key) THEN found.part = L + 1
                ELSE found = [table |-> TableOf(home), part |-> L]
      BY <1>2, <1>4, <1>9, <1>17, <2>1, <2>2, <2>3, <3>2, FollowQualified
    <3>4. found.part < L \/ found.part = L + 1 => found.part # L
      BY <1>4
    <3> QED
      BY <1>11, <3>3, <3>4
  <2>5. CASE ~ IsKeyword(s, path[1])
    <3>1. home = NoScope
      <4>1. Outward(ast, s, path[1]) = NoScope
        BY <2>5 DEF Outward, IsKeyword
      <4>2. Len(within) \in Nat /\ Len(within) >= 1 /\ within[1] = path[1]
        BY <1>4, <1>10, <1>17
      <4> QED
        BY <1>1, <1>2, <2>1, <4>1, <4>2, QualifiedNowhere
    <3>2. found.part = 1
      <4>1. CASE def = None
        BY <1>7, <1>17, <4>1
      <4>2. CASE def # None
        <5> DEFINE h == Nearest(ast, s, path[1])
        <5>1. HasTable(h) /\ def = TableOf(h) /\ h # NoScope
          BY <1>12, <1>17, <4>2
        <5>2. s = GlobalScope => h = s
          BY <1>1, <1>2, <5>1, NearestClimbs
        <5>3. ~ IsKeyword(h, path[1])
          BY <1>13, <2>5, <5>2
        <5> HIDE DEF h
        <5> QED
          BY <1>14, <1>17, <5>1, <5>3
      <4> QED
        BY <4>1, <4>2
    <3> QED
      BY <1>11, <2>2, <3>1, <3>2
  <2> QED
    BY <2>4, <2>5
<1>18. L = 1 \/ L > 1
  <2>1. L \in Nat /\ L >= 1
    BY <1>4
  <2> HIDE DEF L
  <2> QED
    BY <2>1
<1> QED
  BY <1>15, <1>16, <1>17, <1>18

-----------------------------------------------------------------------------
(* Get, and the declaration that the rules give.                           *)

LEMMA BeforeIsStrict ==
  ASSUME NEW a \in Location, NEW b \in Location, Before(a, b)
  PROVE  ~ Before(b, a) /\ a # b
  BY DEF Before, Location

Prior(p, D, loc) == {d \in D : ~ Before(loc, p[d].loc)}
Last(p, D) == CHOOSE d \in D : \A e \in D : ~ Before(p[d].loc, p[e].loc)
First(p, D) == CHOOSE d \in D : \A e \in D : ~ Before(p[e].loc, p[d].loc)

LEMMA ResolveCases ==
  ASSUME NEW p, Walkable(p), NEW i
  PROVE  LET home  == HomeOf(p, i)
             decls == DeclarationsOf(p, home, p[i].path[Len(p[i].path)])
             prior == Prior(p, decls, p[i].loc)
         IN  /\ home = NoScope \/ decls = {} =>
                  Resolve(p, i) = [kind |-> "undeclared", decl |-> 0]
             /\ home # NoScope /\ prior # {} =>
                  Resolve(p, i) = [kind |-> "declared", decl |-> Last(p, prior)]
             /\ home # NoScope /\ decls # {} /\ prior = {} =>
                  Resolve(p, i) = IF ContextOf(p, home) = "SCOPE" THEN [kind |-> "early", decl |-> 0]
                                  ELSE [kind |-> "declared", decl |-> First(p, decls)]
<1> DEFINE home  == HomeOf(p, i)
           decls == DeclarationsOf(p, home, p[i].path[Len(p[i].path)])
           prior == Prior(p, decls, p[i].loc)
           last  == Last(p, prior)
           first == First(p, decls)
           scope == ContextOf(p, home) = "SCOPE"
<1> SUFFICES
      /\ home = NoScope \/ decls = {} => Resolve(p, i) = [kind |-> "undeclared", decl |-> 0]
      /\ home # NoScope /\ prior # {} => Resolve(p, i) = [kind |-> "declared", decl |-> last]
      /\ home # NoScope /\ decls # {} /\ prior = {} =>
           Resolve(p, i) = IF scope THEN [kind |-> "early", decl |-> 0]
                           ELSE [kind |-> "declared", decl |-> first]
  OBVIOUS
<1>1. Resolve(p, i) = CASE home = NoScope \/ decls = {}        -> [kind |-> "undeclared", decl |-> 0]
                        [] prior # {}                          -> [kind |-> "declared", decl |-> last]
                        [] decls # {} /\ prior = {}            ->
                             IF scope THEN [kind |-> "early", decl |-> 0]
                             ELSE [kind |-> "declared", decl |-> first]
  BY DEF Resolve, Prior, Last, First
<1>2. (prior # {} => decls # {}) /\ (home = NoScope => decls = {})
  <2>1. \A d \in decls : home = GlobalScope \/ home \in 1 .. d - 1
    BY DeclarationFacts
  <2>2. NoScope # GlobalScope /\ \A d : NoScope \notin 1 .. d - 1
    BY DEF NoScope, GlobalScope
  <2> QED
    BY <2>1, <2>2 DEF Prior
<1> HIDE DEF home, decls, prior, last, first, scope
<1> QED
  BY <1>1, <1>2

Ordered(p, D) == \A d, e \in D : d < e => Before(p[d].loc, p[e].loc)

(* What get makes of the declarations D of a name. *)
GetsRight(p, D, table, n, loc) ==
  LET prior == Prior(p, D, loc)
      got   == Get(table, n, loc)
      entry == table.symbols[n].decls[got.at]
  IN  /\ prior # {} => /\ Last(p, prior) \in D /\ got.kind = "var"
                       /\ entry = Info(p, Last(p, prior))
      /\ prior = {} /\ table.scope_context # "SCOPE" =>
           First(p, D) \in D /\ got.kind = "var" /\ entry = Info(p, First(p, D))
      /\ prior = {} /\ table.scope_context = "SCOPE" => got = NotFound

LEMMA ResolveKinds ==
  ASSUME NEW p, Walkable(p), NEW i
  PROVE  Resolve(p, i).kind \in {"undeclared", "declared", "early"}
<1> DEFINE home  == HomeOf(p, i)
           decls == DeclarationsOf(p, home, p[i].path[Len(p[i].path)])
           prior == Prior(p, decls, p[i].loc)
           scope == ContextOf(p, home) = "SCOPE"
<1>1. /\ home = NoScope \/ decls = {} => Resolve(p, i) = [kind |-> "undeclared", decl |-> 0]
      /\ home # NoScope /\ prior # {} => Resolve(p, i) = [kind |-> "declared", decl |-> Last(p, prior)]
      /\ home # NoScope /\ decls # {} /\ prior = {} =>
           Resolve(p, i) = IF scope THEN [kind |-> "early", decl |-> 0]
                           ELSE [kind |-> "declared", decl |-> First(p, decls)]
  BY ResolveCases
<1> HIDE DEF home, decls, prior, scope
<1> QED
  BY <1>1

(* Where the declarations were inserted in source order, get comes to the
   entry of the one that the rules give. *)
LEMMA GetResolves ==
  ASSUME NEW p \in Seq(Event), NEW D \in SUBSET DOMAIN p, Ordered(p, D),
         NEW table \in Table, NEW n \in Name, table.symbols[n].kind = "ssa",
         Lists(p, table.symbols[n].decls, D), NEW loc \in Location
  PROVE  GetsRight(p, D, table, n, loc)
<1> DEFINE decls == table.symbols[n].decls
           prior == Prior(p, D, loc)
           got   == Get(table, n, loc)
           entry == table.symbols[n].decls[got.at]
           next  == UpperBound(decls, loc)
<1> SUFFICES /\ prior # {} => /\ Last(p, prior) \in D /\ got.kind = "var"
                              /\ entry = Info(p, Last(p, prior))
             /\ prior = {} /\ table.scope_context # "SCOPE" =>
                  First(p, D) \in D /\ got.kind = "var" /\ entry = Info(p, First(p, D))
             /\ prior = {} /\ table.scope_context = "SCOPE" => got = NotFound
  BY DEF GetsRight
<1>1. PICK order : ListedBy(p, decls, D, order)
  BY DEF Lists
<1>2. decls \in Seq(SymbolInfo) /\ decls # <<>>
  BY DEF Table, Binding
<1>3. got = IF next > 0 THEN [kind |-> "var", at |-> next]
            ELSE IF table.scope_context # "SCOPE" THEN [kind |-> "var", at |-> 1] ELSE NotFound
  <2>1. next \in Nat
    <3>1. Between(decls, loc, 0, Len(decls), next)
      BY <1>2, UpperBoundStops
    <3>2. Len(decls) \in Nat
      BY <1>2
    <3> HIDE DEF next, decls
    <3> QED
      BY <3>1, <3>2 DEF Between
  <2>2. next > 0 \/ next = 0
    <3> HIDE DEF next
    <3> QED
      BY <2>1
  <2>3. Get(table, n, loc) = CASE table.symbols[n].kind = "index" -> [kind |-> "index", at |-> table.symbols[n].index]
        [] table.symbols[n].kind = "ssa" /\ next > 0      -> [kind |-> "var", at |-> next]
        [] /\ table.symbols[n].kind = "ssa" /\ next = 0
           /\ table.scope_context # "SCOPE" -> [kind |-> "var", at |-> 1]
        [] OTHER                           -> NotFound
    BY DEF Get
  <2>4. next = 0 => ~ (next > 0)
    <3> HIDE DEF next
    <3> QED
      OBVIOUS
  <2> HIDE DEF next
  <2> QED
    BY <2>2, <2>3, <2>4
<1> HIDE DEF decls, got, prior
<1>4. /\ DOMAIN decls = 1 .. Len(decls) /\ Len(decls) \in Nat /\ Len(decls) >= 1
      /\ order \in [DOMAIN decls -> D]
      /\ \A k, l \in DOMAIN decls : k < l => order[k] < order[l]
      /\ \A d \in D : \E k \in DOMAIN decls : order[k] = d
      /\ \A k \in DOMAIN decls : decls[k] = Info(p, order[k])
  BY <1>1, <1>2 DEF ListedBy
<1>5. \A d \in D : p[d].loc \in Location /\ d \in Nat
  <2>1. \A d \in D : p[d] \in Event /\ d \in Nat
    OBVIOUS
  <2> QED
    BY <2>1 DEF Event
<1>6. \A k \in DOMAIN decls : decls[k].src = p[order[k]].loc
  BY <1>4 DEF Info
<1>7. \A k, l \in DOMAIN decls : k < l => Before(p[order[k]].loc, p[order[l]].loc)
  BY <1>4 DEF Ordered
<1>8. InTextOrder(decls)
  <2> SUFFICES ASSUME NEW k \in DOMAIN decls, NEW l \in DOMAIN decls, k < l
               PROVE  ~ Before(decls[l].src, decls[k].src)
    BY DEF InTextOrder
  <2> QED
    BY <1>4, <1>5, <1>6, <1>7, BeforeIsStrict
<1>9. \A k \in DOMAIN decls : k <= next <=> ~ Before(loc, p[order[k]].loc)
  BY <1>2, <1>6, <1>8, UpperBoundCounts
<1>10. next \in 0 .. Len(decls)
  <2>1. Between(decls, loc, 0, Len(decls), next)
    BY <1>2, UpperBoundStops
  <2> HIDE DEF next
  <2> QED
    BY <1>4, <2>1 DEF Between
<1> HIDE DEF next
<1>11. \A d \in prior : \E k \in DOMAIN decls : order[k] = d /\ k <= next
  BY <1>4, <1>9 DEF prior, Prior
<1>12. CASE prior # {}
  <2>1. next > 0 /\ next \in DOMAIN decls /\ next <= next
    <3>1. PICK k \in DOMAIN decls : k <= next
      BY <1>11, <1>12
    <3> QED
      BY <1>4, <1>10, <3>1
  <2> DEFINE d == order[next]
  <2>2. d \in prior /\ d \in D
    BY <1>4, <1>9, <2>1 DEF prior, Prior
  <2>3. \A e \in prior : e = d \/ Before(p[e].loc, p[d].loc)
    <3> TAKE e \in prior
    <3>1. PICK k \in DOMAIN decls : order[k] = e /\ k <= next
      BY <1>11
    <3>2. k = next \/ k < next
      BY <1>4, <1>10, <3>1
    <3> QED
      BY <1>7, <2>1, <3>1, <3>2
  <2> HIDE DEF d
  <2>4. \A e \in prior : e \in D
    BY DEF prior, Prior
  <2>5. \A e \in prior : ~ Before(p[d].loc, p[e].loc)
    BY <1>5, <2>2, <2>3, <2>4, BeforeIsStrict
  <2>6. \A e \in prior : (\A o \in prior : ~ Before(p[e].loc, p[o].loc)) => e = d
    BY <2>2, <2>3
  <2>7. Last(p, prior) = d
    BY <2>2, <2>5, <2>6 DEF Last
  <2>8. got = [kind |-> "var", at |-> next]
    BY <1>3, <2>1
  <2>9. decls[next] = Info(p, d)
    BY <1>4, <2>1 DEF d
  <2> QED
    BY <1>12, <2>2, <2>7, <2>8, <2>9 DEF prior, got, decls
<1>13. CASE prior = {}
  <2>1. next = 0
    <3> SUFFICES ASSUME next # 0 PROVE FALSE
      OBVIOUS
    <3>1. next \in DOMAIN decls /\ next <= next
      BY <1>4, <1>10
    <3>2. order[next] \in prior
      BY <1>4, <1>9, <3>1 DEF prior, Prior
    <3> QED
      BY <1>13, <3>2
  <2>2. 1 \in DOMAIN decls /\ ~ (next > 0)
    BY <1>4, <2>1
  <2> DEFINE d == order[1]
  <2>3. d \in D
    BY <1>4, <2>2
  <2>4. \A e \in D : e = d \/ Before(p[d].loc, p[e].loc)
    <3> TAKE e \in D
    <3>1. PICK k \in DOMAIN decls : order[k] = e
      BY <1>4
    <3>2. k = 1 \/ 1 < k
      BY <1>4, <3>1
    <3> QED
      BY <1>7, <2>2, <3>1, <3>2
  <2> HIDE DEF d
  <2>5. \A e \in D : ~ Before(p[e].loc, p[d].loc)
    BY <1>5, <2>3, <2>4, BeforeIsStrict
  <2>6. \A e \in D : (\A o \in D : ~ Before(p[o].loc, p[e].loc)) => e = d
    BY <2>3, <2>4
  <2>7. First(p, D) = d
    BY <2>3, <2>5, <2>6 DEF First
  <2>8. decls[1] = Info(p, d)
    BY <1>4, <2>2 DEF d
  <2>9. got = IF table.scope_context # "SCOPE" THEN [kind |-> "var", at |-> 1] ELSE NotFound
    BY <1>3, <2>2
  <2> QED
    BY <1>13, <2>3, <2>7, <2>8, <2>9 DEF prior, got, decls
<1> QED
  BY <1>12, <1>13

(* What visitVariable and visitBinOpCall make of a variable that the rules
   resolve to r, with its table t and the error ref. *)
Resolves(i, found, error) ==
  LET r   == Resolve(ast, i)
      key == ast[i].path[Len(ast[i].path)]
      got == Get(arena[found.table], key, ast[i].loc)
  IN  IF r.kind = "declared"
      THEN /\ error = "none" /\ found.table = TableOf(ScopeOf(ast, r.decl)) /\ got.kind = "var"
           /\ arena[found.table].symbols[key].decls[got.at] = Info(ast, r.decl)
      ELSE error = r.kind

LEMMA ReferenceResolves ==
  ASSUME PlaceInv, TablesMatch, pass = "ref", NEW i \in Uses, HomeInOrder(i),
         NEW found, Finds(i, found)
  PROVE  Resolves(i, found, Reference(found, ast[i].path, ast[i].loc).error)
<1> DEFINE path  == ast[i].path
           key   == path[Len(path)]
           home  == HomeOf(ast, i)
           decls == DeclarationsOf(ast, home, key)
           prior == Prior(ast, decls, ast[i].loc)
           r     == Resolve(ast, i)
           table == arena[found.table]
           got   == Get(table, key, ast[i].loc)
           error == Reference(found, path, ast[i].loc).error
           stopped == Stopped(found, path)
           seen  == Exists(table, key)
<1> SUFFICES IF r.kind = "declared"
             THEN /\ error = "none" /\ found.table = TableOf(ScopeOf(ast, r.decl)) /\ got.kind = "var"
                  /\ table.symbols[key].decls[got.at] = Info(ast, r.decl)
             ELSE error = r.kind
  BY DEF Resolves
<1>1. /\ Walkable(ast) /\ ast \in Seq(Event) /\ DOMAIN ast = 1 .. Len(ast) /\ arena \in Seq(Table)
      /\ i \in DOMAIN ast /\ ast[i].op \in {"use", "target", "callee"} /\ key \in Name
  BY PlaceFacts, ReferencePath DEF PlaceInv, IInv, TypeOK, Uses
<1>2. ast[i].loc \in Location
  <2>1. ast[i] \in Event
    BY <1>1
  <2> QED
    BY <2>1 DEF Event
<1>3. /\ stopped => error = "undeclared"
      /\ ~ stopped /\ got.kind = "var" => error = "none"
      /\ ~ stopped /\ got.kind = "none" => error = IF seen THEN "early" ELSE "undeclared"
  <2> HIDE DEF stopped, seen, got, path, key, table
  <2> DEFINE early == IF seen THEN "early" ELSE "undeclared"
  <2>1. Reference(found, path, ast[i].loc) =
          CASE stopped -> [table |-> None, error |-> "undeclared"]
            [] ~ stopped /\ got.kind = "var" -> [table |-> found.table, error |-> "none"]
            [] ~ stopped /\ got.kind = "index" -> [table |-> None, error |-> "nonvarsymbol"]
            [] ~ stopped /\ got.kind = "none" -> [table |-> None, error |-> early]
    BY DEF Reference, stopped, seen, got, path, key, table
  <2> HIDE DEF early
  <2> QED
    BY <2>1 DEF early
<1>4. /\ home = NoScope \/ decls = {} => r = [kind |-> "undeclared", decl |-> 0]
      /\ home # NoScope /\ prior # {} => r = [kind |-> "declared", decl |-> Last(ast, prior)]
      /\ home # NoScope /\ decls # {} /\ prior = {} =>
           r = IF ContextOf(ast, home) = "SCOPE" THEN [kind |-> "early", decl |-> 0]
               ELSE [kind |-> "declared", decl |-> First(ast, decls)]
  BY <1>1, ResolveCases
<1>5. \/ /\ home = NoScope
         /\ stopped \/ (found.table \in DOMAIN arena /\ ~ seen)
      \/ /\ home # NoScope /\ HasTable(home)
         /\ IF IsKeyword(home, key) THEN stopped
            ELSE found = [table |-> TableOf(home), part |-> Len(path)]
  BY DEF Finds
<1>6. found.table \in DOMAIN arena /\ ~ seen => got.kind = "none"
  <2> HIDE DEF path, key
  <2> QED
    BY DEF Get, NotFound, Exists
<1> HIDE DEF error, r, prior, home
<1>7. CASE home = NoScope
  <2>1. r.kind = "undeclared"
    BY <1>4, <1>7
  <2>2. error = "undeclared"
    BY <1>3, <1>5, <1>6, <1>7
  <2> QED
    BY <2>1, <2>2
<1>8. CASE home # NoScope /\ IsKeyword(home, key)
  <2>1. decls = {}
    BY <1>8 DEF DeclarationsOf, Declares
  <2>2. r.kind = "undeclared"
    BY <1>4, <2>1
  <2>3. error = "undeclared"
    BY <1>3, <1>5, <1>8
  <2> QED
    BY <2>2, <2>3
<1>9. CASE home # NoScope /\ ~ IsKeyword(home, key)
  <2>1. /\ HasTable(home) /\ ~ stopped /\ found.table = TableOf(home) /\ found.table \in DOMAIN arena
    BY <1>5, <1>9, ScopeTables DEF TablesMatch, Stopped
  <2>2. LET b == table.symbols[key] IN
        /\ b \in Binding /\ b.kind # "index" /\ (b.kind = "ssa" <=> decls # {})
        /\ seen <=> decls # {}
        /\ Lists(ast, b.decls, decls)
    BY <1>1, <1>9, <2>1, Bound
  <2>3. table.symbols[key].kind \in {"none", "ssa"}
    BY <2>2 DEF Binding
  <2>4. table \in Table
    BY <1>1, <2>1
  <2>5. CASE decls = {}
    <3>1. r.kind = "undeclared"
      BY <1>4, <2>5
    <3>2. error = "undeclared"
      BY <1>3, <1>6, <2>1, <2>2, <2>5
    <3> QED
      BY <3>1, <3>2
  <2>6. CASE decls # {}
    <3>1. table.symbols[key].kind = "ssa" /\ seen
      BY <2>2, <2>6
    <3>2. /\ decls \in SUBSET DOMAIN ast
          /\ \A d, e \in decls : d < e => Before(ast[d].loc, ast[e].loc)
      BY <1>9 DEF HomeInOrder, InSourceOrder, DeclarationsOf, home
    <3>3. table.scope_context = ContextOf(ast, home)
      <4>1. CASE home = GlobalScope
        BY <2>1, <4>1 DEF TableOf, PlaceInv, TablesPlaced, ContextOf
      <4>2. CASE home # GlobalScope
        BY <2>1, <4>2 DEF TableOf, PlaceInv, TablesPlaced, HasTable
      <4> QED
        BY <4>1, <4>2
    <3>4. \A d \in decls : ScopeOf(ast, d) = home
      BY DEF DeclarationsOf, Declares
    <3> DEFINE entry == table.symbols[key].decls[got.at]
    <3>5. /\ prior # {} => /\ Last(ast, prior) \in decls /\ got.kind = "var"
                           /\ entry = Info(ast, Last(ast, prior))
          /\ prior = {} /\ table.scope_context # "SCOPE" =>
               First(ast, decls) \in decls /\ got.kind = "var" /\ entry = Info(ast, First(ast, decls))
          /\ prior = {} /\ table.scope_context = "SCOPE" => got = NotFound
      <4> DEFINE loc == ast[i].loc
      <4>1. prior = Prior(ast, decls, loc) /\ got = Get(table, key, loc)
        BY DEF prior
      <4>2. Lists(ast, table.symbols[key].decls, decls) /\ loc \in Location
        BY <1>2, <2>2
      <4>3. /\ ast \in Seq(Event) /\ decls \in SUBSET DOMAIN ast /\ key \in Name
            /\ table \in Table /\ table.symbols[key].kind = "ssa"
        BY <1>1, <2>4, <3>1, <3>2
      <4>4. Ordered(ast, decls)
        BY <3>2 DEF Ordered
      <4> HIDE DEF table, key, decls, got, loc
      <4>5. GetsRight(ast, decls, table, key, loc)
        BY <4>2, <4>3, <4>4, GetResolves
      <4> QED
        BY <4>1, <4>5 DEF GetsRight
    <3> HIDE DEF decls, got, entry, table, key, path, stopped, seen
    <3>6. CASE prior # {}
      <4>1. r = [kind |-> "declared", decl |-> Last(ast, prior)]
        BY <1>4, <1>9, <3>6
      <4>2. error = "none"
        BY <1>3, <2>1, <3>5, <3>6
      <4> QED
        BY <2>1, <3>4, <3>5, <3>6, <4>1, <4>2 DEF entry
    <3>7. CASE prior = {} /\ table.scope_context # "SCOPE"
      <4>1. r = [kind |-> "declared", decl |-> First(ast, decls)]
        BY <1>4, <1>9, <2>6, <3>3, <3>7
      <4>2. error = "none"
        BY <1>3, <2>1, <3>5, <3>7
      <4> QED
        BY <2>1, <3>4, <3>5, <3>7, <4>1, <4>2 DEF entry
    <3>8. CASE prior = {} /\ table.scope_context = "SCOPE"
      <4>1. r = [kind |-> "early", decl |-> 0]
        BY <1>4, <1>9, <2>6, <3>3, <3>8
      <4>2. got.kind = "none"
        BY <3>5, <3>8 DEF NotFound
      <4>3. error = "early"
        BY <1>3, <2>1, <3>1, <4>2
      <4> QED
        BY <4>1, <4>3
    <3> QED
      BY <3>6, <3>7, <3>8
  <2> QED
    BY <2>5, <2>6
<1> QED
  BY <1>7, <1>8, <1>9

-----------------------------------------------------------------------------
(* Every variable is resolved as the rules say.                            *)

(* The event has been visited by VarRefPass. *)
Seen(i) == pass = "done" \/ (pass \in {"ref", "crashed"} /\ i < pc)

AsScoped(i) ==
  HomeInOrder(i) =>
    LET r == Resolve(ast, i) IN
    IF r.kind = "declared" THEN def_table[i] # None /\ ResolvedTo(i, r.decl)
    ELSE def_table[i] = None

Scoped == \A i \in Uses : IF Seen(i) THEN AsScoped(i) ELSE def_table[i] = None

LEMMA RefVariableResolves ==
  ASSUME PlaceInv, TablesMatch, RefVariable, NEW i \in Uses, i = pc, def_table[i] = None
  PROVE  AsScoped(i)'
<1> DEFINE path  == ast[i].path
           key   == path[Len(path)]
           found == Lookup(arena, current, path)
           error == Reference(found, path, ast[i].loc).error
           got   == Get(arena[found.table], key, ast[i].loc)
           r     == Resolve(ast, i)
<1>1. /\ pass = "ref" /\ pc \in DOMAIN ast /\ ast[i].op \in {"use", "target", "callee"}
      /\ ast' = ast /\ arena' = arena /\ locals' = locals
      /\ IF error = "none" THEN def_table' = [def_table EXCEPT ![i] = found.table]
         ELSE def_table' = def_table
  BY DEF RefVariable, Continue
<1>2. /\ HomeInOrder(i)' <=> HomeInOrder(i)
      /\ r' = r
  BY <1>1 DEF HomeInOrder
<1> SUFFICES ASSUME HomeInOrder(i)
             PROVE  IF r.kind = "declared" THEN (def_table[i])' # None /\ ResolvedTo(i, r.decl)'
                    ELSE (def_table[i])' = None
  BY <1>1, <1>2 DEF AsScoped, ResolvedTo, Found
<1>3. current = TableOf(ScopeOf(ast, i))
  BY <1>1, HereTabled
<1>4. Resolves(i, found, error)
  BY <1>1, <1>3, LookupFinds, ReferenceResolves
<1>5. found.table \in DOMAIN arena /\ None \notin DOMAIN arena
  BY <1>1, LookedUp, PlaceFacts DEF PlaceInv, None
<1>6. def_table \in [DOMAIN ast -> {None} \cup DOMAIN arena]
  BY DEF PlaceInv, IInv, TypeOK
<1>7. IF r.kind = "declared"
      THEN /\ error = "none" /\ found.table = TableOf(ScopeOf(ast, r.decl))
           /\ arena[found.table].symbols[key].decls[got.at] = Info(ast, r.decl)
      ELSE error = r.kind
  BY <1>4 DEF Resolves
<1>8. r.kind \in {"undeclared", "declared", "early"}
  BY PlaceFacts, ResolveKinds
<1> HIDE DEF found, error, got, r, key
<1>9. CASE r.kind = "declared"
  <2>1. def_table'[i] = found.table
    BY <1>1, <1>6, <1>7, <1>9
  <2>2. Found(i)' = arena[found.table].symbols[key].decls[got.at]
    BY <1>1, <2>1 DEF Found, key, got
  <2>3. PICK d : d = r.decl
    OBVIOUS
  <2>4. ResolvedTo(i, d)'
    BY <1>1, <1>7, <1>9, <2>1, <2>2, <2>3 DEF ResolvedTo, TableOf, Info
  <2> QED
    BY <1>2, <1>5, <1>9, <2>1, <2>3, <2>4
<1>10. CASE r.kind # "declared"
  <2>1. error # "none"
    BY <1>7, <1>8, <1>10
  <2> QED
    BY <1>1, <1>10, <2>1
<1> QED
  BY <1>9, <1>10

(* What was resolved stays so. *)
LEMMA ScopedStays ==
  ASSUME NEW i, AsScoped(i), UNCHANGED <<ast, arena, locals>>, def_table'[i] = def_table[i]
  PROVE  AsScoped(i)'
<1>1. /\ HomeInOrder(i)' <=> HomeInOrder(i)
      /\ Resolve(ast, i)' = Resolve(ast, i)
  BY DEF HomeInOrder
<1>2. \A d : ResolvedTo(i, d)' <=> ResolvedTo(i, d)
  BY DEF ResolvedTo, Found
<1> QED
  BY <1>1, <1>2 DEF AsScoped

LEMMA RefPassScopes ==
  ASSUME PlaceInv, TablesMatch, Scoped, RefPass
  PROVE  Scoped'
<1>0. PlaceInv' => pc' \in Nat
  BY DEF PlaceInv, IInv, TypeOK
<1>1. /\ pass = "ref" /\ ast' = ast /\ arena' = arena /\ locals' = locals
      /\ Uses' = Uses /\ Uses \in SUBSET DOMAIN ast
  BY DEF RefPass, RefBlock, RefEndBlock, RefFunction, RefEndFunction, RefVariable, RefAssign,
     RefAssignNoVariable, RefInAssign, RefEndInAssign, RefTypeAssign, RefEndTypeAssign,
     RefOther, RefDone, At, Continue, Uses
<1>2. DOMAIN ast = 1 .. Len(ast) /\ Len(ast) \in Nat /\ pc \in 1 .. Len(ast) + 1
      /\ def_table \in [DOMAIN ast -> {None} \cup DOMAIN arena]
  BY PlaceFacts DEF PlaceInv, IInv, TypeOK
<1>3. CASE RefVariable
  <2>1. pc' = pc + 1 /\ pass' = "ref" /\ pc \in Uses
    BY <1>1, <1>3 DEF RefVariable, Continue, Uses
  <2>2. \A i \in Uses \ {pc} : def_table'[i] = def_table[i]
    BY <1>1, <1>2, <1>3 DEF RefVariable
  <2>3. def_table[pc] = None
    BY <1>1, <1>2, <2>1 DEF Scoped, Seen
  <2>4. ASSUME NEW i \in Uses PROVE IF Seen(i)' THEN AsScoped(i)' ELSE def_table'[i] = None
    <3>1. CASE i = pc
      <4>1. AsScoped(i)'
        BY <1>3, <2>3, <3>1, RefVariableResolves
      <4>2. Seen(i)'
        BY <1>2, <2>1, <3>1 DEF Seen
      <4> QED
        BY <4>1, <4>2
    <3>2. CASE i # pc
      <4>1. i \in Nat
        BY <1>1, <1>2
      <4>2. Seen(i)' <=> Seen(i)
        BY <1>1, <1>2, <2>1, <3>2, <4>1 DEF Seen
      <4>3. def_table'[i] = def_table[i]
        BY <2>2, <3>2
      <4>4. Seen(i) => AsScoped(i)'
        BY <1>1, <4>3, ScopedStays DEF Scoped
      <4> QED
        BY <4>2, <4>3, <4>4 DEF Scoped
    <3> QED
      BY <3>1, <3>2
  <2> QED
    BY <1>1, <2>4 DEF Scoped
<1>4. CASE RefPass /\ ~ RefVariable
  <2>1. def_table' = def_table
    BY <1>4 DEF RefPass, RefBlock, RefEndBlock, RefFunction, RefEndFunction, RefAssign,
       RefAssignNoVariable, RefInAssign, RefEndInAssign, RefTypeAssign, RefEndTypeAssign,
       RefOther, RefDone, At, Continue
  <2>2. \A i \in Uses : Seen(i)' <=> Seen(i)
    <3>1. CASE RefDone
      BY <1>1, <1>2, <3>1 DEF RefDone, Seen
    <3>2. CASE RefAssignNoVariable
      BY <1>1, <3>2 DEF RefAssignNoVariable, Seen
    <3>3. CASE ~ RefDone /\ ~ RefAssignNoVariable
      <4>1. pc' = pc + 1 /\ pass' = "ref" /\ pc \in DOMAIN ast
            /\ ast[pc].op \notin {"use", "target", "callee"}
        BY <1>4, <3>3 DEF RefPass, RefBlock, RefEndBlock, RefFunction, RefEndFunction, RefAssign,
           RefInAssign, RefEndInAssign, RefTypeAssign, RefEndTypeAssign, RefOther, At, Continue
      <4>2. pc \notin Uses
        BY <4>1 DEF Uses
      <4>3. \A i \in Uses : i < pc + 1 <=> i < pc
        BY <1>1, <1>2, <4>2
      <4> QED
        BY <1>1, <4>1, <4>3 DEF Seen
    <3> QED
      BY <3>1, <3>2, <3>3
  <2>3. \A i \in Uses : AsScoped(i) => AsScoped(i)'
    BY <1>1, <2>1, ScopedStays
  <2> QED
    BY <1>1, <2>1, <2>2, <2>3 DEF Scoped
<1> QED
  BY <1>3, <1>4

LEMMA DeclPassScopes ==
  ASSUME PlaceInv, Scoped, DeclPass
  PROVE  Scoped'
<1>1. /\ pass = "decl" /\ ast' = ast /\ def_table' = def_table
      /\ pass' = "decl" \/ (pass' = "ref" /\ pc' = 1)
  BY DEF DeclPass, DeclFunction, DeclEndFunction, DeclArgument, DeclBlock, DeclEndBlock,
     DeclAssignName, DeclInAssign, DeclEndInAssign, DeclTypeAssign, DeclEndTypeAssign,
     DeclOther, DeclDone, At, Continue
<1>2. Uses' = Uses /\ \A i \in Uses : i \in Nat /\ i >= 1
  BY <1>1, PlaceFacts DEF Uses
<1>3. \A i \in Uses : ~ Seen(i) /\ ~ Seen(i)'
  BY <1>1, <1>2 DEF Seen
<1> QED
  BY <1>1, <1>2, <1>3 DEF Scoped

LEMMA PassesKeepInputs ==
  ASSUME DeclPass \/ RefPass
  PROVE  inputs' = inputs
  BY DEF DeclPass, DeclFunction, DeclEndFunction, DeclArgument, DeclBlock, DeclEndBlock,
     DeclAssignName, DeclInAssign, DeclEndInAssign, DeclTypeAssign, DeclEndTypeAssign,
     DeclOther, DeclDone, RefPass, RefBlock, RefEndBlock, RefFunction, RefEndFunction,
     RefVariable, RefAssign, RefAssignNoVariable, RefInAssign, RefEndInAssign, RefTypeAssign,
     RefEndTypeAssign, RefOther, RefDone, At, Continue

ResolveInv == inputs = 1 => TablesMatch /\ Scoped

LEMMA ResolveStep ==
  ASSUME PlaceInv, ResolveInv, [Next]_vars
  PROVE  ResolveInv'
<1>1. inputs \in Nat /\ inputs >= 1
  BY InputsAssumption DEF PlaceInv, IInv, TypeOK
<1>2. CASE DeclPass \/ RefPass
  <2>1. inputs' = inputs
    BY <1>2, PassesKeepInputs
  <2> SUFFICES ASSUME inputs = 1 PROVE TablesMatch' /\ Scoped'
    BY <2>1 DEF ResolveInv
  <2>2. TablesMatch /\ Scoped
    BY DEF ResolveInv
  <2>3. CASE DeclPass /\ ~ DeclDone
    BY <2>2, <2>3, DeclPassMatches, DeclPassScopes
  <2>4. CASE DeclPass /\ DeclDone
    <3>1. UNCHANGED <<ast, arena, locals>> /\ pass' # "decl" /\ pc = Len(ast) + 1
      BY <2>4 DEF DeclDone
    <3> QED
      BY <2>2, <2>4, <3>1, TablesKept, DeclPassScopes
  <2>5. CASE RefPass
    <3>1. UNCHANGED <<ast, arena, locals>> /\ pass = "ref" /\ pass' # "decl"
      BY <2>5 DEF RefPass, RefBlock, RefEndBlock, RefFunction, RefEndFunction, RefVariable,
         RefAssign, RefAssignNoVariable, RefInAssign, RefEndInAssign, RefTypeAssign,
         RefEndTypeAssign, RefOther, RefDone, At, Continue
    <3> QED
      BY <2>2, <2>5, <3>1, TablesKept, RefPassScopes
  <2> QED
    BY <1>2, <2>3, <2>4, <2>5
<1>3. CASE NextInput
  <2>1. inputs' # 1
    BY <1>1, <1>3 DEF NextInput
  <2> QED
    BY <2>1 DEF ResolveInv
<1>4. CASE UNCHANGED vars
  <2> USE <1>4 DEF vars
  <2>1. \A s : HasTable(s)' = HasTable(s) /\ TableOf(s)' = TableOf(s)
    BY DEF HasTable, TableOf
  <2>2. Visited' = Visited
    BY DEF Visited
  <2>3. TablesMatch => TablesMatch'
    BY <2>1, <2>2 DEF TablesMatch, ScopesApart, TablesAhead, VectorsList, DeclaredSoFar
  <2>4. Uses' = Uses /\ \A i : (Seen(i)' <=> Seen(i)) /\ (AsScoped(i) => AsScoped(i)')
    BY ScopedStays DEF Uses, Seen
  <2> QED
    BY <2>3, <2>4 DEF ResolveInv, Scoped
<1> QED
  BY <1>2, <1>3, <1>4 DEF Next, Ended

LEMMA ResolveInit ==
  ASSUME Init
  PROVE  ResolveInv
<1>1. \A i \in Uses : ~ Seen(i) /\ def_table[i] = None
  BY DEF Init, Uses, Seen
<1> QED
  BY <1>1, TablesBegin DEF ResolveInv, Scoped

(* The symbol tables and the variables of the first input, at every moment *)
(* of both passes: each scope has a table of its own below that of the     *)
(* scope around it, the vectors list the declarations that VarDeclPass has *)
(* come to, and the variables that VarRefPass has come to are resolved.    *)
THEOREM AnalysisResolves == Spec => []ResolveInv
<1>1. Init => ResolveInv
  BY ResolveInit
<1>2. PlaceInv /\ ResolveInv /\ [Next]_vars => ResolveInv'
  BY ResolveStep
<1> QED
  BY <1>1, <1>2, PassesArePlaced, PTL DEF Spec

(* ResolvedAsScoped holds of the first input, whose declarations are alone *)
(* in the arena: a variable comes to the declaration that the scoping      *)
(* rules give it, and to none when they give it none, for every program    *)
(* (VarRefPass.cpp:30, ast.cpp:1046, SymTable.cpp:88).                     *)
THEOREM UsesAreResolved == Spec => [](inputs = 1 => ResolvedAsScoped)
<1>1. ResolveInv => (inputs = 1 => ResolvedAsScoped)
  BY DEF ResolveInv, Scoped, Seen, AsScoped, ResolvedAsScoped
<1> QED
  BY <1>1, AnalysisResolves, PTL

-----------------------------------------------------------------------------
(* The errors are those that the program deserves.                         *)

Declaring == {"declare", "name", "arg"}
Using == {"use", "target", "callee"}

Errors(i) == {[event |-> i, what |-> w] : w \in Deserved(ast, i)}

(* The events whose errors are known by now: declarations are judged by
   VarDeclPass, everything else by VarRefPass, up to the event at which it
   may crash. *)
Judged ==
  {j \in DOMAIN ast :
     IF ast[j].op \in Declaring THEN pass # "decl" \/ j < pc
     ELSE pass = "done" \/ (pass = "ref" /\ j < pc) \/ (pass = "crashed" /\ j <= pc)}

AllInOrder == \A i \in Uses : HomeInOrder(i)

Judgement == AllInOrder => diagnosed = UNION {Errors(i) : i \in Judged}

LEMMA JudgedMore ==
  ASSUME UNCHANGED ast, AllInOrder, Judgement, diagnosed' = diagnosed \cup Errors(pc),
         Judged' = Judged \cup {pc}
  PROVE  Judgement'
<1>1. \A i : Errors(i)' = Errors(i)
  BY DEF Errors
<1>2. UNION {Errors(i) : i \in Judged \cup {pc}} = (UNION {Errors(i) : i \in Judged}) \cup Errors(pc)
  OBVIOUS
<1>3. diagnosed = UNION {Errors(i) : i \in Judged}
  BY DEF Judgement
<1> QED
  BY <1>1, <1>2, <1>3 DEF Judgement

LEMMA JudgedSame ==
  ASSUME UNCHANGED <<ast, diagnosed>>, Judgement, Judged' = Judged
  PROVE  Judgement'
<1>1. \A i : Errors(i)' = Errors(i)
  BY DEF Errors
<1>2. AllInOrder' <=> AllInOrder
  BY DEF AllInOrder, HomeInOrder, Uses
<1> QED
  BY <1>1, <1>2 DEF Judgement

LEMMA OrderStays ==
  ASSUME UNCHANGED ast
  PROVE  /\ AllInOrder' <=> AllInOrder
         /\ ~ AllInOrder => Judgement'
  BY DEF AllInOrder, HomeInOrder, Uses, Judgement

LEMMA JudgedInDecl ==
  ASSUME PlaceInv, pass = "decl", pc \in DOMAIN ast, Continue
  PROVE  Judged' = IF ast[pc].op \in Declaring THEN Judged \cup {pc} ELSE Judged
<1>1. ast' = ast /\ pass' = pass /\ pc' = pc + 1 /\ DOMAIN ast = 1 .. Len(ast) /\ Len(ast) \in Nat
  BY PlaceFacts DEF Continue
<1>2. \A j \in DOMAIN ast : j < pc + 1 <=> j < pc \/ j = pc
  BY <1>1
<1>3. Judged' = {j \in DOMAIN ast : ast[j].op \in Declaring /\ j < pc + 1}
  BY <1>1 DEF Judged
<1>4. Judged = {j \in DOMAIN ast : ast[j].op \in Declaring /\ j < pc}
  BY DEF Judged
<1> QED
  BY <1>2, <1>3, <1>4

LEMMA JudgedInRef ==
  ASSUME PlaceInv, pass = "ref", pc \in DOMAIN ast, Continue
  PROVE  Judged' = IF ast[pc].op \in Declaring THEN Judged ELSE Judged \cup {pc}
<1>1. ast' = ast /\ pass' = pass /\ pc' = pc + 1 /\ DOMAIN ast = 1 .. Len(ast) /\ Len(ast) \in Nat
  BY PlaceFacts DEF Continue
<1>2. \A j \in DOMAIN ast : j < pc + 1 <=> j < pc \/ j = pc
  BY <1>1
<1>3. Judged' = {j \in DOMAIN ast : ast[j].op \in Declaring \/ j < pc + 1}
  BY <1>1 DEF Judged
<1>4. Judged = {j \in DOMAIN ast : ast[j].op \in Declaring \/ j < pc}
  BY DEF Judged
<1> QED
  BY <1>2, <1>3, <1>4

LEMMA ErrorsOf ==
  ASSUME NEW i
  PROVE  /\ Deserved(ast, i) = {} => Errors(i) = {}
         /\ \A w : Deserved(ast, i) = {w} => Errors(i) = {[event |-> i, what |-> w]}
  BY DEF Errors

(* An event that deserves no error. *)
LEMMA Innocent ==
  ASSUME NEW i, ast[i].op \notin Declaring \cup Using \cup {"assign"}
  PROVE  Errors(i) = {}
<1>1. Deserved(ast, i) = {}
  BY DEF Deserved, Declaring, Using
<1> QED
  BY <1>1, ErrorsOf

(* Both methods of VarDeclPass that declare a name. *)
LEMMA NamesJudged ==
  ASSUME PlaceInv, TablesMatch, Judgement, DeclArgument \/ DeclAssignName
  PROVE  Judgement'
<1> DEFINE n == ast[pc].path[1]
           d == Declares(ast, pc, ScopeOf(ast, pc), n)
           t == arena[current]
<1>1. pass = "decl" /\ pc \in DOMAIN ast /\ Continue /\ ast' = ast /\ ast[pc].op \in Declaring
  BY DEF DeclArgument, DeclAssignName, At, Continue, Declaring
<1>2. /\ ast[pc].op \in {"declare", "name"} => (CanBind(t, n, "ssa") <=> d)
      /\ ast[pc].op = "arg" => (~ Exists(t, n) <=> d)
  BY <1>1, NameBinds
<1>3. Deserved(ast, pc) = IF d THEN {} ELSE IF ast[pc].op = "arg" THEN {"argument"} ELSE {"binding"}
  BY <1>1 DEF Deserved, Declaring
<1>4. IF d THEN diagnosed' = diagnosed
      ELSE diagnosed' = diagnosed \cup {[event |-> pc,
                          what |-> IF ast[pc].op = "arg" THEN "argument" ELSE "binding"]}
  <2> HIDE DEF d, t, n
  <2>1. CASE DeclArgument
    <3>1. ast[pc].op = "arg" /\ IF Exists(t, n) THEN Report(pc, "argument") ELSE UNCHANGED diagnosed
      BY <2>1 DEF DeclArgument, At, t, n
    <3> QED
      BY <1>2, <3>1 DEF Report
  <2>2. CASE DeclAssignName
    <3>1. /\ ast[pc].op \in {"declare", "name"}
          /\ IF CanBind(t, n, "ssa") THEN UNCHANGED diagnosed ELSE Report(pc, "binding")
      BY <2>2 DEF DeclAssignName, At, t, n
    <3> QED
      BY <1>2, <3>1 DEF Report
  <2> QED
    BY <2>1, <2>2
<1> HIDE DEF d
<1>5. diagnosed' = diagnosed \cup Errors(pc)
  <2>1. CASE d
    BY <1>3, <1>4, <2>1, ErrorsOf
  <2>2. CASE ~ d
    BY <1>3, <1>4, <2>2, ErrorsOf
  <2> QED
    BY <2>1, <2>2
<1>6. Judged' = Judged \cup {pc}
  BY <1>1, JudgedInDecl
<1> QED
  BY <1>1, <1>5, <1>6, JudgedMore, OrderStays

LEMMA DeclPassJudges ==
  ASSUME PlaceInv, TablesMatch, Judgement, DeclPass
  PROVE  Judgement'
<1>1. CASE DeclArgument \/ DeclAssignName
  BY <1>1, NamesJudged
<1>2. CASE DeclDone
  <2>1. /\ pass = "decl" /\ pass' = "ref" /\ pc = Len(ast) + 1 /\ pc' = 1
        /\ ast' = ast /\ diagnosed' = diagnosed
    BY <1>2 DEF DeclDone
  <2>2. DOMAIN ast = 1 .. Len(ast) /\ Len(ast) \in Nat
    BY PlaceFacts
  <2>3. Judged' = {j \in DOMAIN ast : ast[j].op \in Declaring}
    BY <2>1, <2>2 DEF Judged
  <2>4. Judged = {j \in DOMAIN ast : ast[j].op \in Declaring}
    BY <2>1, <2>2 DEF Judged
  <2> QED
    BY <2>1, <2>3, <2>4, JudgedSame
<1>3. CASE ~ (DeclArgument \/ DeclAssignName \/ DeclDone)
  <2>1. /\ pass = "decl" /\ pc \in DOMAIN ast /\ Continue /\ ast' = ast /\ diagnosed' = diagnosed
        /\ ast[pc].op \notin Declaring
    BY <1>3 DEF DeclPass, DeclFunction, DeclEndFunction, DeclBlock, DeclEndBlock, DeclInAssign,
       DeclEndInAssign, DeclTypeAssign, DeclEndTypeAssign, DeclOther, At, Continue, Declaring
  <2> QED
    BY <2>1, JudgedInDecl, JudgedSame
<1> QED
  BY <1>1, <1>2, <1>3

LEMMA VariableJudged ==
  ASSUME PlaceInv, TablesMatch, Judgement, RefVariable
  PROVE  Judgement'
<1>0. pc \in Uses
  BY DEF RefVariable, Uses
<1> SUFFICES ASSUME NEW i \in Uses, i = pc PROVE Judgement'
  BY <1>0
<1> DEFINE path  == ast[i].path
           found == Lookup(arena, current, path)
           error == Reference(found, path, ast[i].loc).error
           r     == Resolve(ast, i)
<1>1. /\ pass = "ref" /\ i \in DOMAIN ast /\ ast[i].op \in Using /\ Continue /\ ast' = ast
      /\ IF error = "none" THEN diagnosed' = diagnosed
         ELSE diagnosed' = diagnosed \cup {[event |-> i, what |-> error]}
  BY DEF RefVariable, Continue, Using, Report
<1>2. Judged' = Judged \cup {pc}
  <2>1. ast[pc].op \notin Declaring
    BY <1>1 DEF Declaring, Using
  <2> QED
    BY <1>1, <2>1, JudgedInRef
<1> SUFFICES ASSUME AllInOrder PROVE diagnosed' = diagnosed \cup Errors(i)
  BY <1>1, <1>2, JudgedMore, OrderStays
<1>3. current = TableOf(ScopeOf(ast, i))
  BY <1>1, HereTabled
<1>4. Resolves(i, found, error)
  BY <1>1, <1>3, LookupFinds, ReferenceResolves DEF AllInOrder
<1>5. IF r.kind = "declared" THEN error = "none" ELSE error = r.kind
  BY <1>4 DEF Resolves
<1>6. r.kind \in {"undeclared", "declared", "early"}
  BY PlaceFacts, ResolveKinds
<1>7. Deserved(ast, i) = {r.kind} \ {"declared"}
  BY <1>1 DEF Deserved, Using
<1> HIDE DEF error, r
<1>8. CASE r.kind = "declared"
  <2>1. Deserved(ast, i) = {}
    BY <1>7, <1>8
  <2> QED
    BY <1>1, <1>5, <1>8, <2>1, ErrorsOf
<1>9. CASE r.kind # "declared"
  <2>1. Deserved(ast, i) = {error} /\ error # "none"
    BY <1>5, <1>6, <1>7, <1>9
  <2> QED
    BY <1>1, <2>1, ErrorsOf
<1> QED
  BY <1>8, <1>9

(* What visitBinOpCall objects to is what the target of the reassignment
   was resolved to. *)
LEMMA ObjectsRightly ==
  ASSUME PlaceInv, References, Scoped, AllInOrder, pass = "ref", pc \in DOMAIN ast,
         ast[pc].op = "assign", ast[pc].link # 0
  PROVE  LET error == Objection(pc + ast[pc].link) IN
         Reassignment(ast, pc) = IF error = "none" THEN {} ELSE {error}
<1> DEFINE target == pc + ast[pc].link
           key == ast[target].path[Len(ast[target].path)]
           t   == def_table[target]
           got == Get(arena[t], key, ast[target].loc)
           r   == Resolve(ast, target)
           mut == arena[t].symbols[key].decls[got.at].is_mut
           spoken == key \in {"self", "super"}
<1> SUFFICES Reassignment(ast, pc) = IF Objection(target) = "none" THEN {} ELSE {Objection(target)}
  OBVIOUS
<1>1. /\ target \in DOMAIN ast /\ ast[target].op = "target" /\ ast[pc].link < 0
      /\ DOMAIN ast = 1 .. Len(ast) /\ Len(ast) \in Nat /\ ast[pc] \in Event
  BY PlaceFacts DEF PlaceInv, IInv, TypeOK, WellLinked
<1>2. target < pc /\ target \in Uses
  <2>1. ast[pc].link \in Int
    <3> HIDE DEF target
    <3> QED
      BY <1>1 DEF Event
  <2> QED
    BY <1>1, <2>1 DEF Uses
<1>3. AsScoped(target) /\ HomeInOrder(target)
  BY <1>2 DEF Scoped, Seen, AllInOrder
<1>4. IF r.kind = "declared" THEN t # None /\ mut = ast[r.decl].mut ELSE t = None
  <2>1. r.kind = "declared" => t # None /\ Found(target) = [src |-> ast[r.decl].loc, is_mut |-> ast[r.decl].mut]
    BY <1>3 DEF AsScoped, ResolvedTo
  <2>2. r.kind # "declared" => t = None
    BY <1>3 DEF AsScoped
  <2>3. Found(target).is_mut = mut
    BY DEF Found
  <2> HIDE DEF target, t, r, mut
  <2> QED
    BY <2>1, <2>2, <2>3
<1>5. t # None => got.kind = "var"
  BY <1>1 DEF References, ReferencesHold
<1>6. Objection(target) = CASE spoken -> "keyword"
                            [] ~ spoken /\ t = None -> "unknown"
                            [] ~ spoken /\ t # None ->
                                 IF got.kind = "var" /\ ~ mut THEN "immutable" ELSE "none"
  BY DEF Objection
<1>7. Reassignment(ast, pc) = CASE spoken -> {"keyword"}
                                [] OTHER -> IF r.kind # "declared" THEN {"unknown"}
                                            ELSE IF ast[r.decl].mut THEN {} ELSE {"immutable"}
  BY DEF Reassignment
<1> HIDE DEF target, key, t, got, r, mut, spoken
<1> QED
  BY <1>4, <1>5, <1>6, <1>7

LEMMA AssignJudged ==
  ASSUME PlaceInv, References, Scoped, Judgement, RefAssign \/ RefAssignNoVariable
  PROVE  Judgement'
<1>1. pass = "ref" /\ pc \in DOMAIN ast /\ ast[pc].op = "assign" /\ ast' = ast
  BY DEF RefAssign, RefAssignNoVariable, At, Continue
<1>2. ast[pc].op \notin Declaring /\ Deserved(ast, pc) = Reassignment(ast, pc)
  BY <1>1 DEF Declaring, Deserved
<1>3. CASE RefAssign
  <2> DEFINE error == Objection(pc + ast[pc].link)
  <2>1. /\ Continue /\ ast[pc].link # 0
        /\ IF error = "none" THEN diagnosed' = diagnosed
           ELSE diagnosed' = diagnosed \cup {[event |-> pc, what |-> error]}
    BY <1>3 DEF RefAssign, Report
  <2>2. Judged' = Judged \cup {pc}
    BY <1>1, <1>2, <2>1, JudgedInRef
  <2> SUFFICES ASSUME AllInOrder PROVE diagnosed' = diagnosed \cup Errors(pc)
    BY <1>1, <2>2, JudgedMore, OrderStays
  <2>3. Deserved(ast, pc) = IF error = "none" THEN {} ELSE {error}
    BY <1>1, <1>2, <2>1, ObjectsRightly
  <2> HIDE DEF error
  <2>4. CASE error = "none"
    BY <2>1, <2>3, <2>4, ErrorsOf
  <2>5. CASE error # "none"
    BY <2>1, <2>3, <2>5, ErrorsOf
  <2> QED
    BY <2>4, <2>5
<1>4. CASE RefAssignNoVariable
  <2>1. /\ ast[pc].link = 0 /\ pass' = "crashed" /\ pc' = pc
        /\ diagnosed' = diagnosed \cup {[event |-> pc, what |-> "nonvariable"]}
    BY <1>4 DEF RefAssignNoVariable, Report
  <2>2. Deserved(ast, pc) = {"nonvariable"}
    BY <1>2, <2>1 DEF Reassignment
  <2>3. Judged' = Judged \cup {pc}
    <3>1. DOMAIN ast = 1 .. Len(ast) /\ Len(ast) \in Nat
      BY PlaceFacts
    <3>2. \A j \in DOMAIN ast : j <= pc <=> j < pc \/ j = pc
      BY <1>1, <3>1
    <3>3. Judged' = {j \in DOMAIN ast : ast[j].op \in Declaring \/ j <= pc}
      BY <1>1, <2>1 DEF Judged
    <3>4. Judged = {j \in DOMAIN ast : ast[j].op \in Declaring \/ j < pc}
      BY <1>1 DEF Judged
    <3> QED
      BY <1>1, <3>2, <3>3, <3>4
  <2> QED
    BY <1>1, <2>1, <2>2, <2>3, ErrorsOf, JudgedMore, OrderStays
<1> QED
  BY <1>3, <1>4

LEMMA RefPassJudges ==
  ASSUME PlaceInv, References, TablesMatch, Scoped, Judgement, RefPass
  PROVE  Judgement'
<1>1. CASE RefVariable
  BY <1>1, VariableJudged
<1>2. CASE RefAssign \/ RefAssignNoVariable
  BY <1>2, AssignJudged
<1>3. CASE RefDone
  <2>1. /\ pass = "ref" /\ pass' = "done" /\ pc = Len(ast) + 1 /\ ast' = ast
        /\ diagnosed' = diagnosed
    BY <1>3 DEF RefDone
  <2>2. DOMAIN ast = 1 .. Len(ast) /\ Len(ast) \in Nat
    BY PlaceFacts
  <2>3. Judged' = DOMAIN ast /\ Judged = DOMAIN ast
    BY <2>1, <2>2 DEF Judged
  <2> QED
    BY <2>1, <2>3, JudgedSame
<1>4. CASE ~ (RefVariable \/ RefAssign \/ RefAssignNoVariable \/ RefDone)
  <2>1. /\ pass = "ref" /\ pc \in DOMAIN ast /\ Continue /\ ast' = ast /\ diagnosed' = diagnosed
        /\ ast[pc].op \notin Using \cup {"assign"}
    BY <1>4 DEF RefPass, RefBlock, RefEndBlock, RefFunction, RefEndFunction, RefInAssign,
       RefEndInAssign, RefTypeAssign, RefEndTypeAssign, RefOther, At, Continue, Using
  <2>2. CASE ast[pc].op \in Declaring
    BY <2>1, <2>2, JudgedInRef, JudgedSame
  <2>3. CASE ast[pc].op \notin Declaring
    <3>1. Errors(pc) = {}
      BY <2>1, <2>3, Innocent
    <3>2. diagnosed' = diagnosed \cup Errors(pc) /\ Judged' = Judged \cup {pc}
      BY <2>1, <2>3, <3>1, JudgedInRef
    <3> QED
      BY <2>1, <3>2, JudgedMore, OrderStays
  <2> QED
    BY <2>2, <2>3
<1> QED
  BY <1>1, <1>2, <1>3, <1>4

JudgeInv == inputs = 1 => Judgement

LEMMA JudgeStep ==
  ASSUME PlaceInv, References, ResolveInv, JudgeInv, [Next]_vars
  PROVE  JudgeInv'
<1>1. CASE DeclPass \/ RefPass
  <2>1. inputs' = inputs
    BY <1>1, PassesKeepInputs
  <2> SUFFICES ASSUME inputs = 1 PROVE Judgement'
    BY <2>1 DEF JudgeInv
  <2> QED
    BY <1>1, DeclPassJudges, RefPassJudges DEF JudgeInv, ResolveInv
<1>2. CASE NextInput
  <2>1. inputs \in Nat /\ inputs >= 1
    BY InputsAssumption DEF PlaceInv, IInv, TypeOK
  <2>2. inputs' # 1
    BY <1>2, <2>1 DEF NextInput
  <2> QED
    BY <2>2 DEF JudgeInv
<1>3. CASE UNCHANGED vars
  <2>1. Judged' = Judged
    BY <1>3 DEF Judged, vars
  <2> QED
    BY <1>3, <2>1, JudgedSame DEF JudgeInv, vars
<1> QED
  BY <1>1, <1>2, <1>3 DEF Next, Ended

(* ErrorsDeserved holds of the first input: what the passes log is exactly  *)
(* what the events of the program deserve by the scoping rules, for every   *)
(* program whose names are declared in the order of the source, and after   *)
(* a crash it is that of what was visited.  The diagnostic for a symbol     *)
(* that is no variable (VarRefPass.cpp:43) is never logged.                 *)
THEOREM ErrorsAreDeserved == Spec => [](inputs = 1 => ErrorsDeserved)
<1>1. Init => JudgeInv
  <2> SUFFICES ASSUME Init PROVE Judgement
    BY DEF JudgeInv
  <2>1. ast \in Programs /\ pass = "decl" /\ pc = 1 /\ diagnosed = {}
    BY DEF Init
  <2>2. DOMAIN ast = 1 .. Len(ast) /\ Len(ast) \in Nat
    BY <2>1, ProgramsAssumption
  <2>3. Judged = {}
    BY <2>1, <2>2 DEF Judged
  <2> QED
    BY <2>1, <2>3 DEF Judgement
<1>2. PlaceInv /\ References /\ ResolveInv /\ JudgeInv /\ [Next]_vars => JudgeInv'
  BY JudgeStep
<1>3. JudgeInv => (inputs = 1 => ErrorsDeserved)
  <2> SUFFICES ASSUME Judgement, pass \in {"done", "crashed"}, AllInOrder
               PROVE  diagnosed = UNION {{[event |-> i, what |-> w] : w \in Deserved(ast, i)} :
                         i \in {j \in DOMAIN ast : \/ pass = "done" \/ j <= pc
                                                   \/ ast[j].op \in {"declare", "name", "arg"}}}
    BY DEF JudgeInv, ErrorsDeserved, AllInOrder
  <2>1. Judged = {j \in DOMAIN ast : \/ pass = "done" \/ j <= pc
                                     \/ ast[j].op \in {"declare", "name", "arg"}}
    BY DEF Judged, Declaring
  <2> QED
    BY <2>1 DEF Judgement, Errors
<1> QED
  BY <1>1, <1>2, <1>3, PassesArePlaced, ReferencesInductive, AnalysisResolves, PTL DEF Spec

=============================================================================
