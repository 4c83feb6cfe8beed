------------------------- MODULE Translation_proofs -------------------------
(***************************************************************************)
(* Theorems that tie the generated module to the scoping rules: storage is *)
(* set once and for the entry of its own declaration, a function touches   *)
(* the slots and arguments that the rules give its variables, and a call   *)
(* calls the function that its name means.                                 *)
(***************************************************************************)
EXTENDS CodegenCorrect, Codegen_proofs, Resolution_proofs

-----------------------------------------------------------------------------
(* The inductive invariant, on top of GInv.                                *)

(* What the analysis of the one input has come to. *)
Beginning ==
  /\ inputs = 1
  /\ pass \in {"decl", "ref"} => ~ generated /\ PlaceInv /\ ResolveInv
  /\ pass = "gen" => generated
  /\ pass = "done" /\ generated => pc = Len(ast) + 1
  /\ ~ generated => storage = <<>> /\ module = [n \in Name |-> Absent]

(* What the generator finds: the tables of all scopes, and what each of    *)
(* them lists and each variable was resolved to.                           *)
Tables ==
  /\ \A s \in 0 .. Len(ast) : HasTable(s) => TableOf(s) \in DOMAIN arena
  /\ \A s, u \in 0 .. Len(ast) : HasTable(s) /\ HasTable(u) /\ TableOf(s) = TableOf(u) => s = u
  /\ \A i \in DOMAIN ast : HasTable(ScopeOf(ast, i)) /\ ScopeOf(ast, i) \in 0 .. Len(ast)
  /\ \A s \in 0 .. Len(ast) : HasTable(s) => \A n \in Name :
       LET b == arena[TableOf(s)].symbols[n] IN
       /\ b.kind = "ssa" <=> DeclarationsOf(ast, s, n) # {}
       /\ b.decls \in Seq(SymbolInfo) /\ Lists(ast, b.decls, DeclarationsOf(ast, s, n))

Known == generated \/ pass = "done" => Tables /\ \A i \in Uses : AsScoped(i)

(* Only variables have a table. *)
UsesOnly == \A i \in DOMAIN ast \ Uses : def_table[i] = None

(* Without an error every name that was visited is declared. *)
AllDeclared ==
  generated \/ diagnosed = {} =>
    \A d \in Visited : ast[d].op \in Declaring => Declares(ast, d, ScopeOf(ast, d), ast[d].path[1])

(* The walk does not come to the arguments of a function by itself, and is *)
(* only in functions with a name.                                          *)
ArgsSkipped ==
  pass = "gen" =>
    /\ \A f \in DOMAIN ast : ast[f].op = "fn" => pc \notin f + 1 .. f + ast[f].link - 1
    /\ \A f \in Open(ast, Fns, pc) : Naming(f) # {}

(* Key k of storage is the entry that declaration d made. *)
Owns(k, d) ==
  /\ k[2] \in Name /\ d \in DeclarationsOf(ast, ScopeOf(ast, d), k[2])
  /\ k[1] = TableOf(ScopeOf(ast, d))
  /\ k[3] \in DOMAIN Entries(k) /\ Entries(k)[k[3]] = Info(ast, d)

OfFunction(d, name) == Constructed(d) \/ name = NameOf(FunctionOf(d))

(* Storage belongs to a declaration that was visited, and is of the        *)
(* function around it.                                                     *)
StorageRight ==
  generated => \A k \in DOMAIN storage :
    /\ k[1] \in DOMAIN arena
    /\ Sorted(Entries(k)) =>
         \E d \in DOMAIN ast : d < pc /\ Owns(k, d) /\ OfFunction(d, storage[k].of)

UseRight(u) ==
  u.kind # "call" /\ HomeInOrder(VariableOf(u)) =>
    LET d == Resolve(ast, VariableOf(u)).decl IN d # 0 /\ OfFunction(d, u.of)

CallNamed(u) ==
  u.kind = "call" => /\ u.event - 1 \in DOMAIN ast /\ ast[u.event - 1].op = "callee"
                     /\ u.of = LastName(ast[u.event - 1].path)

UsesRight == \A n \in Name : \A u \in module[n].uses : UseRight(u) /\ CallNamed(u)

(* While there is no error each function that was visited is in the        *)
(* module, or the walk has come to the declaration of one that was erased, *)
(* and ends there.                                                         *)
InModule(f) == LET m == module[NameOf(f)] IN
  m.state # "absent" /\ m.event = EndOf(ast, f) + 1 /\ m.input = inputs

Doomed == pass = "gen" /\ pc \in DOMAIN ast /\ ast[pc].op = "declare" /\ codegen.type = "null"

FunctionsMade ==
  generated /\ pass \in {"gen", "done"} /\ diagnosed = {} =>
    \/ Doomed
    \/ \A f \in DOMAIN ast :
         ast[f].op = "fn" /\ f < pc /\ Naming(f) # {} /\ ~ Unvisited(f) => InModule(f)

TInv ==
  /\ Beginning /\ Known /\ UsesOnly /\ AllDeclared /\ ArgsSkipped
  /\ StorageRight /\ UsesRight /\ FunctionsMade

-----------------------------------------------------------------------------
(* The declaration that a name resolves to.                                *)

(* A finite set has an element that no other one is above. *)
LEMMA Uppermost ==
  ASSUME NEW N \in Nat, NEW D \in SUBSET (1 .. N), D # {}, NEW above,
         \A d \in D : <<d, d>> \notin above,
         \A c, d, e \in D : <<c, d>> \in above /\ <<d, e>> \in above => <<c, e>> \in above
  PROVE  \E d \in D : \A e \in D : <<d, e>> \notin above
<1> DEFINE Upto(m) == {d \in D : d <= m}
           Best(m) == \E d \in Upto(m) : \A e \in Upto(m) : <<d, e>> \notin above
           T == {m \in 0 .. N : Upto(m) # {} /\ ~ Best(m)}
<1>1. \A d \in D : d \in Nat /\ 1 <= d /\ d <= N
  OBVIOUS
<1>a. Upto(N) = D
  BY <1>1
<1> SUFFICES ASSUME ~ Best(N) PROVE FALSE
  BY <1>a
<1> HIDE DEF Best
<1>2. T \subseteq Nat /\ N \in T
  BY <1>a
<1>3. PICK m \in T : \A k \in T : m <= k
  BY <1>2, LeastNat
<1>b. m \in 0 .. N /\ Upto(m) # {} /\ ~ Best(m)
  BY <1>3
<1>4. m \in 0 .. N /\ Upto(m) # {} /\ ~ Best(m) /\ m # 0
  <2>1. \A d \in D : ~ (d <= 0)
    BY <1>1
  <2>2. Upto(0) = {}
    BY <2>1
  <2> QED
    BY <1>b, <2>2
<1>5. m - 1 \in 0 .. N /\ m - 1 \notin T /\ m \in Nat
  <2>1. m - 1 \in 0 .. N /\ ~ (m <= m - 1) /\ m \in Nat
    BY <1>4
  <2> QED
    BY <1>3, <2>1
<1>6. /\ Upto(m - 1) \subseteq Upto(m) /\ \A d \in Upto(m) : d \in Upto(m - 1) \/ d = m
      /\ Upto(m) \subseteq D
  <2>1. \A d \in D : (d <= m - 1 => d <= m) /\ (d <= m => d <= m - 1 \/ d = m)
    BY <1>1, <1>5
  <2> QED
    BY <2>1
<1>7. CASE Upto(m - 1) = {}
  <2>1. \A d \in Upto(m) : d = m
    BY <1>6, <1>7
  <2>2. m \in Upto(m)
    BY <1>4, <2>1
  <2> HIDE DEF Upto
  <2>3. \A e \in Upto(m) : <<m, e>> \notin above
    BY <1>6, <2>1, <2>2
  <2> QED
    BY <1>4, <2>2, <2>3 DEF Best
<1>8. CASE Upto(m - 1) # {}
  <2>1. PICK d \in Upto(m - 1) : \A e \in Upto(m - 1) : <<d, e>> \notin above
    BY <1>5, <1>8 DEF Best
  <2> HIDE DEF Upto
  <2>2. d \in Upto(m) /\ d \in D
    BY <1>6, <2>1
  <2>3. PICK e \in Upto(m) : <<d, e>> \in above
    BY <1>4, <2>2 DEF Best
  <2>4. e = m /\ m \in D
    BY <1>6, <2>1, <2>3
  <2>5. PICK x \in Upto(m) : <<m, x>> \in above
    BY <1>4, <2>3, <2>4 DEF Best
  <2>6. x \in Upto(m - 1) /\ x \in D
    BY <1>6, <2>4, <2>5
  <2> QED
    BY <2>1, <2>2, <2>3, <2>4, <2>5, <2>6
<1> QED
  BY <1>7, <1>8

LEMMA BeforeOrders ==
  ASSUME NEW a \in Location, NEW b \in Location, NEW c \in Location
  PROVE  ~ Before(a, a) /\ (Before(a, b) /\ Before(b, c) => Before(a, c))
  BY DEF Before, Location

LEMMA Extremes ==
  ASSUME NEW p, Walkable(p), NEW D \in SUBSET DOMAIN p, D # {}
  PROVE  First(p, D) \in D /\ Last(p, D) \in D
<1> DEFINE after  == {x \in D \X D : Before(p[x[1]].loc, p[x[2]].loc)}
           before == {x \in D \X D : Before(p[x[2]].loc, p[x[1]].loc)}
<1>1. Len(p) \in Nat /\ DOMAIN p = 1 .. Len(p) /\ \A i \in DOMAIN p : p[i].loc \in Location
  <2>1. p \in Seq(Event)
    BY DEF Walkable
  <2>2. \A i \in DOMAIN p : p[i] \in Event
    BY <2>1
  <2>3. \A i \in DOMAIN p : p[i].loc \in Location
    BY <2>2 DEF Event
  <2> QED
    BY <2>1, <2>3
<1>2. \A d, e \in D : /\ <<d, e>> \in after <=> Before(p[d].loc, p[e].loc)
                      /\ <<d, e>> \in before <=> Before(p[e].loc, p[d].loc)
  OBVIOUS
<1> HIDE DEF after, before
<1>3. \A d \in D : <<d, d>> \notin after /\ <<d, d>> \notin before
  BY <1>1, <1>2, BeforeOrders
<1>4. \A c, d, e \in D :
        /\ <<c, d>> \in after /\ <<d, e>> \in after => <<c, e>> \in after
        /\ <<c, d>> \in before /\ <<d, e>> \in before => <<c, e>> \in before
  BY <1>1, <1>2, BeforeOrders
<1>a. D \in SUBSET (1 .. Len(p))
  BY <1>1
<1>b. Len(p) \in Nat
  BY <1>1
<1>5. \E d \in D : \A e \in D : <<d, e>> \notin after
  <2>1. \A d \in D : <<d, d>> \notin after
    BY <1>3
  <2>2. \A c, d, e \in D : <<c, d>> \in after /\ <<d, e>> \in after => <<c, e>> \in after
    BY <1>4
  <2> QED
    BY <1>a, <1>b, <2>1, <2>2, Uppermost, Zenon
<1>6. \E d \in D : \A e \in D : <<d, e>> \notin before
  <2>1. \A d \in D : <<d, d>> \notin before
    BY <1>3
  <2>2. \A c, d, e \in D : <<c, d>> \in before /\ <<d, e>> \in before => <<c, e>> \in before
    BY <1>4
  <2> QED
    BY <1>a, <1>b, <2>1, <2>2, Uppermost, Zenon
<1>7. Last(p, D) \in D
  BY <1>2, <1>5 DEF Last
<1>8. First(p, D) \in D
  BY <1>2, <1>6 DEF First
<1> QED
  BY <1>7, <1>8

(* What a name resolves to is one of the declarations in the scope that    *)
(* its path names, whatever their order.                                   *)
LEMMA ResolveDeclares ==
  ASSUME NEW p, Walkable(p), NEW i, Resolve(p, i).decl # 0 \/ Resolve(p, i).kind = "declared"
  PROVE  /\ HomeOf(p, i) # NoScope /\ Resolve(p, i).kind = "declared"
         /\ Resolve(p, i).decl \in DeclarationsOf(p, HomeOf(p, i), p[i].path[Len(p[i].path)])
<1> DEFINE home  == HomeOf(p, i)
           decls == DeclarationsOf(p, home, p[i].path[Len(p[i].path)])
           prior == Prior(p, decls, p[i].loc)
           scope == ContextOf(p, home) = "SCOPE"
           r     == Resolve(p, i)
           last  == Last(p, prior)
           first == First(p, decls)
<1>1. /\ home = NoScope \/ decls = {} => r = [kind |-> "undeclared", decl |-> 0]
      /\ home # NoScope /\ prior # {} => r = [kind |-> "declared", decl |-> last]
      /\ home # NoScope /\ decls # {} /\ prior = {} =>
           r = IF scope THEN [kind |-> "early", decl |-> 0] ELSE [kind |-> "declared", decl |-> first]
  BY ResolveCases
<1>2. decls \in SUBSET DOMAIN p /\ prior \in SUBSET decls
  BY DEF DeclarationsOf, Prior
<1>3. /\ decls # {} => first \in decls
      /\ prior # {} => last \in decls
  BY <1>2, Extremes
<1>4. r.decl # 0 \/ r.kind = "declared"
  OBVIOUS
<1> HIDE DEF home, decls, prior, scope, r, last, first
<1>5. home # NoScope /\ decls # {}
  BY <1>1, <1>4
<1>6. r.kind = "declared" /\ r.decl \in decls
  BY <1>1, <1>3, <1>4, <1>5
<1> QED
  BY <1>5, <1>6 DEF home, decls, r

-----------------------------------------------------------------------------
(* The entries of the tables.                                              *)

LEMMA TablesRemain ==
  ASSUME Tables, UNCHANGED <<ast, arena, locals>>
  PROVE  Tables'
  BY DEF Tables, HasTable, TableOf

LEMMA TablesComplete ==
  ASSUME PlaceInv, TablesMatch, pass = "ref"
  PROVE  Tables
<1>1. /\ \A s : HasTable(s) => s \in 0 .. Len(ast) /\ TableOf(s) \in DOMAIN arena
      /\ \A s, u : HasTable(s) /\ HasTable(u) /\ TableOf(s) = TableOf(u) => s = u
  BY ScopeTables DEF TablesMatch
<1>2. \A i \in DOMAIN ast : HasTable(ScopeOf(ast, i))
  BY AllTabled
<1>3. ASSUME NEW s \in 0 .. Len(ast), HasTable(s), NEW n \in Name
      PROVE  LET b == arena[TableOf(s)].symbols[n] IN
             /\ b.kind = "ssa" <=> DeclarationsOf(ast, s, n) # {}
             /\ b.decls \in Seq(SymbolInfo) /\ Lists(ast, b.decls, DeclarationsOf(ast, s, n))
  BY <1>3, Bound
<1> QED
  BY <1>1, <1>2, <1>3 DEF Tables

(* In a vector in source order an entry is that of one declaration.        *)
LEMMA OwnEntry ==
  ASSUME Walkable(ast), Tables, NEW k, Sorted(Entries(k)), NEW c, NEW d, Owns(k, c), Owns(k, d)
  PROVE  c = d
<1> DEFINE s == ScopeOf(ast, d)
           D == DeclarationsOf(ast, s, k[2])
           decls == Entries(k)
<1>1. /\ k[2] \in Name /\ c \in DeclarationsOf(ast, ScopeOf(ast, c), k[2]) /\ d \in D
      /\ k[1] = TableOf(ScopeOf(ast, c)) /\ k[1] = TableOf(s)
      /\ k[3] \in DOMAIN decls /\ decls[k[3]] = Info(ast, c) /\ decls[k[3]] = Info(ast, d)
  BY DEF Owns
<1>2. c \in DOMAIN ast /\ d \in DOMAIN ast
  BY <1>1 DEF DeclarationsOf
<1>3. /\ HasTable(s) /\ HasTable(ScopeOf(ast, c)) /\ s \in 0 .. Len(ast)
      /\ ScopeOf(ast, c) \in 0 .. Len(ast)
  BY <1>2 DEF Tables
<1>4. ScopeOf(ast, c) = s
  BY <1>1, <1>3 DEF Tables
<1>5. /\ arena[TableOf(s)].symbols[k[2]].decls \in Seq(SymbolInfo)
      /\ Lists(ast, arena[TableOf(s)].symbols[k[2]].decls, D)
  BY <1>1, <1>3 DEF Tables
<1>6. decls \in Seq(SymbolInfo) /\ Lists(ast, decls, D)
  BY <1>1, <1>5 DEF Entries
<1>7. c \in D
  BY <1>1, <1>4
<1> HIDE DEF s, D, decls
<1>8. PICK order : ListedBy(ast, decls, D, order)
  BY <1>6 DEF Lists
<1>9. PICK i \in DOMAIN decls, j \in DOMAIN decls : order[i] = c /\ order[j] = d
  BY <1>1, <1>7, <1>8 DEF ListedBy
<1>10. decls[i] = Info(ast, c) /\ decls[j] = Info(ast, d)
  BY <1>8, <1>9 DEF ListedBy
<1>11. decls[i].src = decls[j].src /\ decls[i].src \in Location /\ i \in Int /\ j \in Int
  <2>1. decls[i] = decls[j] /\ decls[i] \in SymbolInfo /\ i \in Int /\ j \in Int
    <3>1. decls[i] = decls[j]
      BY <1>1, <1>10
    <3>2. DOMAIN decls = 1 .. Len(decls) /\ \A x \in DOMAIN decls : decls[x] \in SymbolInfo
      BY <1>6
    <3>3. i \in Int /\ j \in Int
      BY <1>9, <3>2
    <3> QED
      BY <1>9, <3>1, <3>2, <3>3
  <2> QED
    BY <2>1 DEF SymbolInfo
<1>12. ~ (i < j) /\ ~ (j < i)
  <2>1. ~ Before(decls[i].src, decls[j].src) /\ ~ Before(decls[j].src, decls[i].src)
    BY <1>11, BeforeOrders
  <2> QED
    BY <1>9, <2>1 DEF Sorted, decls
<1> QED
  BY <1>9, <1>11, <1>12

(* Slot finds the entry that a declaration made.                           *)
LEMMA SlotOwned ==
  ASSUME Walkable(ast), Tables, NEW d \in DOMAIN ast, NEW n \in Name, n = ast[d].path[1],
         Declares(ast, d, ScopeOf(ast, d), n), arena \in Seq(Table),
         NEW k, k = Slot(TableOf(ScopeOf(ast, d)), n, ast[d].loc), Sorted(Entries(k))
  PROVE  Owns(k, d)
<1> DEFINE s == ScopeOf(ast, d)
           t == TableOf(s)
           D == DeclarationsOf(ast, s, n)
           b == arena[t].symbols[n]
           decls == b.decls
           loc == ast[d].loc
           got == Get(arena[t], n, loc)
           next == UpperBound(decls, loc)
<1>1. /\ HasTable(s) /\ s \in 0 .. Len(ast) /\ t \in DOMAIN arena
      /\ (b.kind = "ssa" <=> D # {}) /\ decls \in Seq(SymbolInfo) /\ Lists(ast, decls, D)
  BY DEF Tables
<1>2. d \in D
  BY DEF DeclarationsOf
<1>3. k = <<t, n, IF got.kind = "var" THEN got.at ELSE 0>>
  BY DEF Slot
<1>4. k[1] = t /\ k[2] = n /\ k[3] = IF got.kind = "var" THEN got.at ELSE 0
  BY <1>3
<1>5. Entries(k) = decls
  BY <1>4 DEF Entries
<1>6. loc \in Location
  <2>1. ast \in Seq(Event) /\ ast[d] \in Event
    BY DEF Walkable
  <2> QED
    BY <2>1 DEF Event
<1>7. got = CASE b.kind = "index"                -> [kind |-> "index", at |-> b.index]
              [] b.kind = "ssa" /\ next > 0      -> [kind |-> "var", at |-> next]
              [] /\ b.kind = "ssa" /\ next = 0
                 /\ arena[t].scope_context # "SCOPE" -> [kind |-> "var", at |-> 1]
              [] OTHER                           -> NotFound
  BY DEF Get
<1> HIDE DEF decls, D, t, s, loc, got, b, next
<1>8. PICK order : ListedBy(ast, decls, D, order)
  BY <1>1 DEF Lists
<1>9. PICK i \in DOMAIN decls : order[i] = d
  BY <1>2, <1>8 DEF ListedBy
<1>10. decls[i] = Info(ast, d) /\ decls[i].src = loc
  BY <1>8, <1>9 DEF ListedBy, Info, loc
<1>11. /\ DOMAIN decls = 1 .. Len(decls) /\ Len(decls) \in Nat /\ i \in Nat /\ i >= 1
       /\ \A j \in DOMAIN decls : decls[j].src \in Location
  <2>1. DOMAIN decls = 1 .. Len(decls) /\ Len(decls) \in Nat /\ i \in Nat /\ i >= 1
    BY <1>1, <1>9
  <2>2. \A j \in DOMAIN decls : decls[j] \in SymbolInfo
    BY <1>1
  <2> QED
    BY <2>1, <2>2 DEF SymbolInfo
<1>12. \A l, m \in DOMAIN decls : l < m => Before(decls[l].src, decls[m].src)
  BY <1>5 DEF Sorted
<1>13. InTextOrder(decls)
  BY <1>11, <1>12, BeforeIsStrict DEF InTextOrder
<1>14. next \in 0 .. Len(decls) /\ \A j \in DOMAIN decls : j <= next <=> ~ Before(loc, decls[j].src)
  <2>1. \A j \in DOMAIN decls : j <= next <=> ~ Before(loc, decls[j].src)
    BY <1>1, <1>6, <1>13, UpperBoundCounts DEF next
  <2>2. next \in 0 .. Len(decls)
    BY <1>1, UpperBoundStops DEF next, Between
  <2> QED
    BY <2>1, <2>2
<1>15. next = i
  <2>1. i <= next
    BY <1>6, <1>9, <1>10, <1>14, BeforeOrders
  <2>2. \A j \in DOMAIN decls : i < j => ~ (j <= next)
    BY <1>9, <1>10, <1>12, <1>14
  <2> QED
    BY <1>11, <1>14, <2>1, <2>2
<1>16. b.kind = "ssa"
  BY <1>1, <1>2
<1>17. got.kind = "var" /\ got.at = i
  BY <1>7, <1>11, <1>15, <1>16
<1>18. k[3] = i
  BY <1>4, <1>17
<1> QED
  BY <1>2, <1>4, <1>5, <1>9, <1>10, <1>18 DEF Owns, D, t, s

(* The table and the builder where the walk is. *)
LEMMA CurrentHere ==
  ASSUME GInv, pass = "gen"
  PROVE  current = TableOf(ScopeOf(ast, pc))
<1>1. Walkable(ast) /\ pc \in 1 .. Len(ast) + 1
  BY GenFacts
<1>2. InnermostHas(ast, Scopes, pc, GlobalSymIndex, locals, current)
  BY DEF GInv, Walking, TableFor
<1>3. ScopeOf(ast, pc) = Innermost(ast, pc, Scopes)
  BY DEF ScopeOf, Scopes
<1>4. \/ ScopeOf(ast, pc) = 0 /\ current = GlobalSymIndex
      \/ ScopeOf(ast, pc) # 0 /\ current = locals[ScopeOf(ast, pc)]
  BY <1>1, <1>2, <1>3, Kinds, InnermostGives
<1> QED
  BY <1>4 DEF TableOf, GlobalScope

LEMMA InsertHere ==
  ASSUME GInv, pass = "gen", insert # NoFunction
  PROVE  FunctionOf(pc) \in Open(ast, Fns, pc) /\ insert = NameOf(FunctionOf(pc))
<1>1. Walkable(ast) /\ pc \in 1 .. Len(ast) + 1
  BY GenFacts
<1>2. InnermostHas(ast, Fns, pc, NoFunction, NamesIn(ast), insert)
  BY DEF GInv, Walking, BuilderFor
<1>3. FunctionOf(pc) = Innermost(ast, pc, Fns)
  BY DEF FunctionOf, Fns
<1>4. FunctionOf(pc) \in Open(ast, Fns, pc) /\ insert = NamesIn(ast)[FunctionOf(pc)]
  BY <1>1, <1>2, <1>3, Kinds, InnermostGives
<1>5. FunctionOf(pc) \in DOMAIN ast
  BY <1>1, <1>4, Kinds, OpenIsOpener
<1> QED
  BY <1>4, <1>5 DEF NamesIn, NameOf

-----------------------------------------------------------------------------
(* What a step of the generator changes.                                   *)

LEMMA GenSteps ==
  ASSUME GenPass
  PROVE  /\ UNCHANGED <<inputs, ast, arena, locals, def_table>>
         /\ GenStart \/ (pass = "gen" /\ UNCHANGED generated)
         /\ pass' \in {"gen", "crashed"} \/ GenDone
         /\ pass' = "crashed" => UNCHANGED <<pc, diagnosed, codegen, module, storage>>
         /\ diagnosed \subseteq diagnosed'
<1> USE DEF Continue, Crash, UnchangedAnalysis, GenAt, At, Report, genvars
<1>1. CASE GenStart \/ GenLiteral \/ GenNode \/ GenEndNode \/ GenEnter \/ GenLeave \/ GenOther
  BY <1>1 DEF GenStart, GenLiteral, GenNode, GenEndNode, GenEnter, GenLeave, GenOther
<1>2. CASE GenFunctionAgain \/ GenFunction \/ GenFunctionUnnamed \/ GenEndFunction \/ GenErased
  BY <1>2 DEF GenFunctionAgain, GenFunction, GenFunctionUnnamed, GenEndFunction, GenErased
<1>3. CASE GenVariable \/ GenNameFunction \/ GenAssignName \/ GenArgument
  BY <1>3 DEF GenVariable, GenNameFunction, GenAssignName, GenArgument
<1>4. CASE GenAssign \/ GenBinOp \/ GenUnOp \/ GenCall \/ GenEndCall
  BY <1>4 DEF GenAssign, GenBinOp, GenUnOp, GenCall, GenEndCall
<1>5. CASE GenIf \/ GenThen \/ GenEndBranch \/ GenEndIf \/ GenDone
  BY <1>5 DEF GenIf, GenThen, GenEndBranch, GenEndIf, GenDone
<1> QED
  BY <1>1, <1>2, <1>3, <1>4, <1>5 DEF GenPass

(* A node that is passed over: an error was logged for it, or it is a      *)
(* branch of an if without else.                                           *)
Skips ==
  /\ ast[pc].op \in Openers /\ pc' = EndOf(ast, pc) + 1
  /\ \/ ast[pc].op \in {"fn", "call"} /\ diagnosed' # {}
     \/ ast[pc].op = "then" /\ ~ HasElse(IfOf(pc))

LEMMA GenMoves ==
  ASSUME GInv, GenPass, pass = "gen", pass' = "gen"
  PROVE  /\ pc \in DOMAIN ast
         /\ \/ pc' = pc + 1 /\ ast[pc].op # "fn" /\ ~ (ast[pc].op = "then" /\ ~ HasElse(IfOf(pc)))
            \/ Skips
            \/ GenFunction /\ ast[pc].op = "fn" /\ pc' = pc + ast[pc].link
<1> USE DEF Continue, Crash, GenAt, At
<1>1. CASE GenStart \/ GenLiteral \/ GenNode \/ GenEndNode \/ GenEnter \/ GenLeave \/ GenOther
  BY <1>1 DEF GenStart, GenLiteral, GenNode, GenEndNode, GenEnter, GenLeave, GenOther
<1>2. CASE GenFunctionAgain
  <2>1. pc' = pc + ast[pc].link + ast[pc + ast[pc].link].link + 2 /\ ast[pc].op = "fn" /\ pc \in DOMAIN ast
    BY <1>2 DEF GenFunctionAgain
  <2>2. ast[pc].op \in Openers /\ diagnosed' # {}
    BY <1>2, <2>1 DEF GenFunctionAgain, Report, Openers
  <2>3. pc \in Int /\ ast[pc].link \in Int /\ ast[pc + ast[pc].link].link \in Int
    <3>1. pc + ast[pc].link \in DOMAIN ast /\ ast \in Seq(Event)
      BY <2>1, GenFacts DEF WellLinked
    <3>2. pc \in Nat
      BY GenFacts
    <3>3. ast[pc].link \in Int
      BY <2>1, <3>1, EventFields
    <3>4. ast[pc + ast[pc].link].link \in Int
      BY <3>1, EventFields
    <3> QED
      BY <3>2, <3>3, <3>4
  <2>4. pc' = EndOf(ast, pc) + 1
    BY <2>1, <2>3 DEF EndOf
  <2> QED
    BY <2>1, <2>2, <2>4 DEF Skips
<1>3. CASE GenFunction \/ GenFunctionUnnamed \/ GenEndFunction \/ GenErased
  BY <1>3 DEF GenFunction, GenFunctionUnnamed, GenEndFunction, GenErased
<1>4. CASE GenVariable \/ GenNameFunction \/ GenAssignName \/ GenArgument
  BY <1>4 DEF GenVariable, GenNameFunction, GenAssignName, GenArgument
<1>5. CASE GenAssign \/ GenBinOp \/ GenUnOp \/ GenEndCall
  BY <1>5 DEF GenAssign, GenBinOp, GenUnOp, GenEndCall
<1>6. CASE GenCall
  BY <1>6 DEF GenCall, Skips, EndOf, Report, Openers
<1>7. CASE GenThen
  BY <1>7 DEF GenThen, Skips, EndOf, Openers
<1>8. CASE GenIf \/ GenEndBranch \/ GenEndIf \/ GenDone
  BY <1>8 DEF GenIf, GenEndBranch, GenEndIf, GenDone
<1> QED
  BY <1>1, <1>2, <1>3, <1>4, <1>5, <1>6, <1>7, <1>8 DEF GenPass

-----------------------------------------------------------------------------
(* The passes of the analysis.                                             *)

LEMMA PassSteps ==
  ASSUME DeclPass \/ RefPass
  PROVE  /\ UNCHANGED <<inputs, ast>> /\ diagnosed \subseteq diagnosed'
         /\ pass = "decl" \/ pass = "ref"
         /\ pass' \in {"decl", "ref", "crashed"} \/ RefDone
         /\ pass = "ref" => pass' # "decl" /\ UNCHANGED <<arena, locals>>
         /\ pass = "decl" => UNCHANGED def_table /\ (DeclDone \/ (pass' = "decl" /\ pc' = pc + 1 /\ pc \in DOMAIN ast))
<1> USE DEF Continue, At, Report
<1>1. CASE DeclFunction \/ DeclEndFunction \/ DeclArgument \/ DeclBlock \/ DeclEndBlock \/ DeclAssignName
  BY <1>1 DEF DeclFunction, DeclEndFunction, DeclArgument, DeclBlock, DeclEndBlock, DeclAssignName
<1>2. CASE \/ DeclInAssign \/ DeclEndInAssign \/ DeclTypeAssign \/ DeclEndTypeAssign \/ DeclOther
           \/ DeclDone
  BY <1>2 DEF DeclInAssign, DeclEndInAssign, DeclTypeAssign, DeclEndTypeAssign, DeclOther, DeclDone
<1>3. CASE RefBlock \/ RefEndBlock \/ RefFunction \/ RefEndFunction \/ RefVariable \/ RefAssign
  BY <1>3 DEF RefBlock, RefEndBlock, RefFunction, RefEndFunction, RefVariable, RefAssign
<1>4. CASE \/ RefAssignNoVariable \/ RefInAssign \/ RefEndInAssign \/ RefTypeAssign
           \/ RefEndTypeAssign \/ RefOther \/ RefDone
  BY <1>4 DEF RefAssignNoVariable, RefInAssign, RefEndInAssign, RefTypeAssign, RefEndTypeAssign,
     RefOther, RefDone
<1> QED
  BY <1>1, <1>2, <1>3, <1>4 DEF DeclPass, RefPass

LEMMA BeginningStays ==
  ASSUME Beginning, DeclPass \/ RefPass, UNCHANGED genvars
  PROVE  Beginning' /\ PlaceInv /\ TablesMatch /\ Scoped /\ ResolveInv' /\ PlaceInv'
<1>1. pass \in {"decl", "ref"} /\ UNCHANGED <<inputs, ast>> /\ pass' # "gen" /\ inputs = 1
  BY PassSteps DEF Beginning, RefDone
<1>2. PlaceInv /\ ResolveInv
  BY <1>1 DEF Beginning
<1>3. Next
  BY DEF Next
<1>4. IInv'
  BY <1>2, DeclPassKeeps, RefPassKeeps DEF PlaceInv
<1>5. WellNested(ast)' /\ FramesPlaced' /\ TablesPlaced' /\ Rested'
  BY <1>2, <1>3, PlaceStep
<1>6. PlaceInv'
  BY <1>4, <1>5 DEF PlaceInv
<1>7. ResolveInv'
  BY <1>2, <1>3, ResolveStep
<1>8. TablesMatch /\ Scoped
  BY <1>1, <1>2 DEF ResolveInv
<1>9. Beginning'
  BY <1>1, <1>6, <1>7 DEF Beginning, genvars
<1> QED
  BY <1>2, <1>6, <1>7, <1>8, <1>9

LEMMA KnownStays ==
  ASSUME Beginning, DeclPass \/ RefPass, UNCHANGED genvars
  PROVE  Known'
<1>1. PlaceInv /\ TablesMatch /\ ResolveInv' /\ ~ generated /\ generated' = generated /\ inputs' = 1
  BY BeginningStays, PassSteps DEF Beginning, genvars
<1> SUFFICES ASSUME pass' = "done"
             PROVE  Tables' /\ \A i \in Uses' : AsScoped(i)'
  BY <1>1 DEF Known
<1>2. RefDone
  BY PassSteps
<1>3. Tables
  BY <1>1, <1>2, TablesComplete DEF RefDone
<1>4. Tables'
  BY <1>2, <1>3, TablesRemain DEF RefDone
<1>5. Scoped'
  BY <1>1 DEF ResolveInv
<1>6. \A i \in Uses' : AsScoped(i)'
  BY <1>5 DEF Scoped, Seen
<1> QED
  BY <1>4, <1>6

LEMMA UsesOnlyStays ==
  ASSUME Beginning, UsesOnly, DeclPass \/ RefPass, UNCHANGED genvars
  PROVE  UsesOnly'
<1>1. ast' = ast /\ (pass = "decl" => UNCHANGED def_table)
  BY PassSteps
<1>2. def_table' = def_table \/ (pc \in Uses /\ \E t : def_table' = [def_table EXCEPT ![pc] = t])
  <2>1. CASE DeclPass
    BY <1>1, <2>1 DEF DeclPass, DeclFunction, DeclEndFunction, DeclArgument, DeclBlock, DeclEndBlock,
       DeclAssignName, DeclInAssign, DeclEndInAssign, DeclTypeAssign, DeclEndTypeAssign, DeclOther,
       DeclDone, At
  <2>2. CASE RefVariable
    BY <2>2 DEF RefVariable, Uses
  <2>3. CASE RefPass /\ ~ RefVariable
    BY <2>3 DEF RefPass, RefBlock, RefEndBlock, RefFunction, RefEndFunction, RefAssign,
       RefAssignNoVariable, RefInAssign, RefEndInAssign, RefTypeAssign, RefEndTypeAssign, RefOther,
       RefDone, At
  <2> QED
    BY <2>1, <2>2, <2>3
<1>3. Uses' = Uses
  BY <1>1 DEF Uses
<1>4. \A i \in DOMAIN ast \ Uses : def_table'[i] = def_table[i]
  <2>1. DOMAIN def_table = DOMAIN ast
    BY BeginningStays DEF PlaceInv, IInv, TypeOK
  <2> QED
    BY <1>2, <2>1
<1> QED
  BY <1>1, <1>3, <1>4 DEF UsesOnly

(* An argument or a name that is not declared is an error. *)
LEMMA AllDeclaredStays ==
  ASSUME Beginning, AllDeclared, DeclPass \/ RefPass, UNCHANGED genvars
  PROVE  AllDeclared'
<1>1. /\ PlaceInv /\ TablesMatch /\ ~ generated /\ generated' = generated /\ ast' = ast
      /\ diagnosed \subseteq diagnosed' /\ pass \in {"decl", "ref"}
  BY BeginningStays, PassSteps DEF Beginning, genvars
<1> SUFFICES ASSUME diagnosed' = {}, NEW d \in Visited', ast[d].op \in Declaring
             PROVE  Declares(ast, d, ScopeOf(ast, d), ast[d].path[1])
  BY <1>1 DEF AllDeclared
<1>2. \A e \in Visited : ast[e].op \in Declaring => Declares(ast, e, ScopeOf(ast, e), ast[e].path[1])
  BY <1>1 DEF AllDeclared
<1>3. CASE d \in Visited
  BY <1>2, <1>3
<1>4. CASE d \notin Visited
  <2>1. pc \in 1 .. Len(ast) + 1 /\ DOMAIN ast = 1 .. Len(ast) /\ Len(ast) \in Nat
    BY <1>1, PlaceFacts
  <2>2. pass = "decl" /\ pc \in DOMAIN ast /\ d = pc /\ ~ DeclDone
    <3>1. pass = "decl"
      BY <1>1, <1>4, PassSteps DEF Visited, RefDone
    <3>2. CASE DeclDone
      BY <1>1, <1>4, <2>1, <3>1, <3>2 DEF DeclDone, Visited
    <3>3. CASE ~ DeclDone
      <4>1. pass' = "decl" /\ pc' = pc + 1 /\ pc \in DOMAIN ast
        BY <3>1, <3>3, PassSteps
      <4> QED
        BY <1>4, <2>1, <3>1, <3>3, <4>1 DEF Visited
    <3> QED
      BY <3>2, <3>3
  <2>3. CASE ast[pc].op = "arg"
    <3>1. DeclArgument
      BY <2>2, <2>3 DEF DeclPass, RefPass, DeclFunction, DeclEndFunction, DeclBlock, DeclEndBlock,
         DeclAssignName, DeclInAssign, DeclEndInAssign, DeclTypeAssign, DeclEndTypeAssign, DeclOther,
         RefBlock, RefEndBlock, RefFunction, RefEndFunction, RefVariable, RefAssign,
         RefAssignNoVariable, RefInAssign, RefEndInAssign, RefTypeAssign, RefEndTypeAssign, RefOther,
         RefDone, At
    <3>2. ~ Exists(arena[current], ast[pc].path[1])
      BY <3>1 DEF DeclArgument, Report
    <3> QED
      BY <1>1, <2>2, <2>3, <3>2, NameBinds
  <2>4. CASE ast[pc].op \in {"declare", "name"}
    <3>1. DeclAssignName
      BY <2>2, <2>4 DEF DeclPass, RefPass, DeclFunction, DeclEndFunction, DeclBlock, DeclEndBlock,
         DeclArgument, DeclInAssign, DeclEndInAssign, DeclTypeAssign, DeclEndTypeAssign, DeclOther,
         RefBlock, RefEndBlock, RefFunction, RefEndFunction, RefVariable, RefAssign,
         RefAssignNoVariable, RefInAssign, RefEndInAssign, RefTypeAssign, RefEndTypeAssign, RefOther,
         RefDone, At
    <3>2. CanBind(arena[current], ast[pc].path[1], "ssa")
      BY <3>1 DEF DeclAssignName, Report
    <3> QED
      BY <1>1, <2>2, <2>4, <3>2, NameBinds
  <2> QED
    BY <2>2, <2>3, <2>4 DEF Declaring
<1> QED
  BY <1>3, <1>4

-----------------------------------------------------------------------------
(* What the analysis leaves holds while code is generated.                 *)

LEMMA AnalysisStands ==
  ASSUME Beginning, Known, UsesOnly, AllDeclared, GenPass
  PROVE  /\ Beginning' /\ Known' /\ UsesOnly' /\ AllDeclared' /\ Tables
         /\ \A i \in Uses : AsScoped(i)
<1>1. /\ UNCHANGED <<inputs, ast, arena, locals, def_table>> /\ pass' \notin {"decl", "ref"}
      /\ pass \notin {"decl", "ref"} /\ generated' /\ (pass' = "done" => pc' = Len(ast) + 1)
      /\ \/ pass = "done" /\ diagnosed = {}
         \/ pass = "gen" /\ generated
  <2>1. CASE GenStart
    BY <2>1, GenSteps DEF GenStart, GenDone, Failed
  <2>2. CASE pass = "gen" /\ UNCHANGED generated
    BY <2>2, GenSteps DEF GenDone, Beginning
  <2> QED
    BY <2>1, <2>2, GenSteps
<1>2. Tables /\ \A i \in Uses : AsScoped(i)
  BY <1>1 DEF Known
<1>3. Beginning'
  BY <1>1 DEF Beginning
<1>4. Known'
  <2>1. Tables'
    BY <1>1, <1>2, TablesRemain
  <2>2. Uses' = Uses
    BY <1>1 DEF Uses
  <2>3. \A i \in Uses' : AsScoped(i)'
    BY <1>1, <1>2, <2>2, ScopedStays
  <2> QED
    BY <2>1, <2>3 DEF Known
<1>5. UsesOnly'
  BY <1>1 DEF UsesOnly, Uses
<1>6. AllDeclared'
  <2>1. Visited' = Visited
    BY <1>1 DEF Visited
  <2>2. \A d \in Visited : ast[d].op \in Declaring => Declares(ast, d, ScopeOf(ast, d), ast[d].path[1])
    BY <1>1 DEF AllDeclared
  <2> QED
    BY <1>1, <2>1, <2>2 DEF AllDeclared
<1> QED
  BY <1>2, <1>3, <1>4, <1>5, <1>6

(* A function is open from its body on. *)
LEMMA FunctionOpens ==
  ASSUME GInv, GenFunction
  PROVE  Open(ast, Fns, pc') = Open(ast, Fns, pc) \cup {pc}
<1>1. GenAt("fn") /\ pass = "gen" /\ pc \in DOMAIN ast /\ ast[pc].op = "fn" /\ pc' = pc + ast[pc].link
  BY DEF GenFunction, GenAt, At
<1>2. PICK d \in Naming(pc) : TRUE
  BY DEF GenFunction
<1>3. /\ pc + ast[pc].link \in pc + 1 .. Len(ast) + 1 /\ ast[pc].link \in Nat
      /\ \A a \in pc + 1 .. pc + ast[pc].link - 1 : ast[a].op = "arg"
  BY <1>1, <1>2, NamedBehind
<1>4. Walkable(ast) /\ pc \in Nat
  BY <1>1, GenFacts
<1> DEFINE j == pc + ast[pc].link
<1>5. j \in pc + 1 .. Len(ast) + 1 /\ \A a \in pc + 1 .. j - 1 : ast[a].op \notin Openers \cup Closers
  <2>1. j - 1 = pc + ast[pc].link - 1
    BY <1>3, <1>4
  <2>2. "arg" \notin Openers \cup Closers
    BY DEF Openers, Closers
  <2> QED
    BY <1>3, <2>1, <2>2
<1> HIDE DEF j
<1>6. Open(ast, Fns, j) = Open(ast, Fns, pc + 1)
  BY <1>1, <1>4, <1>5, Kinds, OpenAfterLeaves
<1>7. ast[pc].op \in Openers /\ ast[pc].op \in Fns
  BY <1>1 DEF Openers, Fns
<1>8. Open(ast, Fns, pc + 1) = Open(ast, Fns, pc) \cup (IF ast[pc].op \in Fns THEN {pc} ELSE {})
  BY <1>1, <1>4, <1>7, Kinds, OpenAfterOpener
<1> QED
  BY <1>1, <1>6, <1>7, <1>8 DEF j

(* Where the walk goes on in a function, it has a name.                    *)
LEMMA ArgumentsAreSkipped ==
  ASSUME GInv, ArgsSkipped, GenPass
  PROVE  ArgsSkipped'
<1> SUFFICES ASSUME pass' = "gen"
             PROVE  ArgsSkipped'
  BY DEF ArgsSkipped
<1>1. CASE GenStart
  <2>1. Walkable(ast) /\ ast' = ast /\ pc' = 1
    BY <1>1 DEF GInv, Analysed, GenStart
  <2>2. Open(ast, Fns, 1) = {}
    BY <2>1, Kinds, NothingOpen
  <2>3. \A f \in DOMAIN ast : 1 \notin f + 1 .. f + ast[f].link - 1
    BY <2>1 DEF Walkable
  <2> QED
    BY <2>1, <2>2, <2>3 DEF ArgsSkipped
<1>2. CASE pass = "gen"
  <2>1. /\ Walkable(ast) /\ ast' = ast /\ ast \in Seq(Event) /\ WellLinked(ast)
        /\ DOMAIN ast = 1 .. Len(ast) /\ Len(ast) \in Nat
    BY <1>2, GenFacts, GenSteps
  <2>2. pc \in DOMAIN ast /\ pc \in Nat
    BY <1>2, GenFacts, GenMoves
  <2>3. /\ \A f \in DOMAIN ast : ast[f].op = "fn" => pc \notin f + 1 .. f + ast[f].link - 1
        /\ \A f \in Open(ast, Fns, pc) : Naming(f) # {}
    BY <1>2 DEF ArgsSkipped
  <2>4. \/ pc' = pc + 1 /\ ast[pc].op # "fn"
        \/ Skips
        \/ GenFunction /\ ast[pc].op = "fn" /\ pc' = pc + ast[pc].link
    BY <1>2, GenMoves
  <2>5. ASSUME NEW f \in DOMAIN ast, ast[f].op = "fn", pc' \in f + 1 .. f + ast[f].link - 1
        PROVE  FALSE
    <3>1. ast[pc'].op = "arg" /\ f \in Int /\ ast[f].link \in Int
      <4>1. ast[pc'].op = "arg"
        BY <2>1, <2>5 DEF WellLinked
      <4>2. ast[f].link \in Int
        BY <2>1, <2>5, EventFields
      <4> QED
        BY <2>1, <2>5, <4>1, <4>2
    <3>2. CASE pc' = pc + 1 /\ ast[pc].op # "fn"
      <4>1. pc # f
        BY <2>5, <3>2
      <4>2. pc \in f + 1 .. f + ast[f].link - 1
        BY <2>2, <2>5, <3>1, <3>2, <4>1
      <4> QED
        BY <2>3, <2>5, <4>2
    <3>3. CASE Skips
      <4>1. pc' = EndOf(ast, pc) + 1 /\ EndOf(ast, pc) \in Nat /\ ast[EndOf(ast, pc)].op \in Closers
        BY <2>1, <2>2, <3>3, Ends DEF Skips
      <4>2. ast[EndOf(ast, pc)].op # "fn" /\ ast[EndOf(ast, pc)].op # "arg"
        BY <4>1 DEF Closers
      <4>3. EndOf(ast, pc) # f
        BY <2>5, <4>2
      <4>4. EndOf(ast, pc) \in f + 1 .. f + ast[f].link - 1
        BY <2>5, <3>1, <4>1, <4>3
      <4>5. ast[EndOf(ast, pc)].op = "arg"
        BY <2>1, <2>5, <4>4 DEF WellLinked
      <4> QED
        BY <4>2, <4>5
    <3>4. CASE ast[pc].op = "fn" /\ pc' = pc + ast[pc].link
      <4>1. ast[pc'].op = "block"
        BY <2>1, <2>2, <3>4 DEF WellLinked
      <4> QED
        BY <3>1, <4>1
    <3> QED
      BY <2>4, <3>2, <3>3, <3>4
  <2>6. \A f \in Open(ast, Fns, pc') : Naming(f) # {}
    <3>1. CASE pc' = pc + 1 /\ ast[pc].op # "fn"
      <4>1. ast[pc].op \notin Fns
        BY <3>1 DEF Fns
      <4>2. Open(ast, Fns, pc + 1) \subseteq Open(ast, Fns, pc)
        BY <2>1, <2>2, <4>1, Kinds, OpenShrinks
      <4> QED
        BY <2>3, <3>1, <4>2
    <3>2. CASE Skips
      <4>1. Open(ast, Fns, EndOf(ast, pc) + 1) = Open(ast, Fns, pc)
        BY <2>1, <2>2, <3>2, Kinds, OpenBehind DEF Skips
      <4> QED
        BY <2>3, <3>2, <4>1 DEF Skips
    <3>3. CASE GenFunction /\ ast[pc].op = "fn" /\ pc' = pc + ast[pc].link
      <4>1. Naming(pc) # {} /\ GenAt("fn")
        BY <3>3 DEF GenFunction
      <4>2. Open(ast, Fns, pc') = Open(ast, Fns, pc) \cup {pc}
        BY <3>3, FunctionOpens
      <4> QED
        BY <2>3, <4>1, <4>2
    <3> QED
      BY <2>4, <3>1, <3>2, <3>3
  <2>7. \A f : Naming(f)' = Naming(f)
    BY <2>1 DEF Naming
  <2> QED
    BY <2>1, <2>5, <2>6, <2>7 DEF ArgsSkipped
<1> QED
  BY <1>1, <1>2, GenSteps

-----------------------------------------------------------------------------
(* Storage.                                                                *)

(* The arguments of a function stand in the scope around it. *)
LEMMA ArgumentPlace ==
  ASSUME GInv, GenAt("fn"), NEW n \in Naming(pc), NEW a \in pc + 1 .. pc + ast[pc].link - 1
  PROVE  FunctionOf(a) = pc /\ ScopeOf(ast, a) = ScopeOf(ast, pc)
<1>1. pass = "gen" /\ pc \in DOMAIN ast /\ ast[pc].op = "fn"
  BY DEF GenAt, At
<1>2. /\ pc + ast[pc].link \in pc + 1 .. Len(ast) + 1 /\ ast[pc].link \in Nat
      /\ \A e \in pc + 1 .. pc + ast[pc].link - 1 : ast[e].op = "arg"
  BY NamedBehind
<1>3. Walkable(ast) /\ pc \in Nat /\ Len(ast) \in Nat /\ ast[pc].op \in Openers
  BY <1>1, GenFacts DEF Openers
<1>4. a \in pc + 1 .. Len(ast) + 1 /\ \A e \in pc + 1 .. a - 1 : ast[e].op \notin Openers \cup Closers
  <2>1. a \in pc + 1 .. Len(ast) + 1 /\ \A e \in pc + 1 .. a - 1 : e \in pc + 1 .. pc + ast[pc].link - 1
    BY <1>2, <1>3
  <2>2. "arg" \notin Openers \cup Closers
    BY DEF Openers, Closers
  <2> QED
    BY <1>2, <2>1, <2>2
<1>5. Open(ast, Fns, a) = Open(ast, Fns, pc + 1) /\ Open(ast, Scopes, a) = Open(ast, Scopes, pc + 1)
  <2>1. Open(ast, Fns, a) = Open(ast, Fns, pc + 1)
    BY <1>1, <1>3, <1>4, Kinds, OpenAfterLeaves
  <2>2. Open(ast, Scopes, a) = Open(ast, Scopes, pc + 1)
    BY <1>1, <1>3, <1>4, Kinds, OpenAfterLeaves
  <2> QED
    BY <2>1, <2>2
<1>6. pc \in Open(ast, Fns, pc + 1) /\ \A o \in Open(ast, Fns, pc + 1) : o <= pc /\ o \in Nat
  <2>1. Open(ast, Fns, pc + 1) = Open(ast, Fns, pc) \cup (IF ast[pc].op \in Fns THEN {pc} ELSE {})
    BY <1>1, <1>3, Kinds, OpenAfterOpener
  <2>2. \A o \in Open(ast, Fns, pc) : o < pc /\ o \in Nat
    BY <1>1, <1>3 DEF Open
  <2>3. ast[pc].op \in Fns
    BY <1>1 DEF Fns
  <2> QED
    BY <1>3, <2>1, <2>2, <2>3
<1>7. Open(ast, Scopes, pc) = Open(ast, Scopes, pc + 1)
  <2>1. ast[pc].op \in Openers \ Scopes
    BY <1>1, <1>3 DEF Scopes
  <2> QED
    BY <1>1, <1>3, <2>1, Kinds, OpenAside
<1>8. FunctionOf(a) = pc
  <2> DEFINE open == Open(ast, Fns, a)
  <2>1. pc \in open /\ \A o \in open : o <= pc /\ o \in Nat
    BY <1>5, <1>6
  <2>2. FunctionOf(a) = CHOOSE o \in open : \A q \in open : q <= o
    BY <2>1 DEF FunctionOf, Innermost, Fns
  <2> HIDE DEF open
  <2>3. FunctionOf(a) \in open /\ \A q \in open : q <= FunctionOf(a)
    <3>1. \E o \in open : \A q \in open : q <= o
      BY <2>1
    <3> QED
      BY <2>2, <3>1, Zenon
  <2>4. pc <= FunctionOf(a) /\ FunctionOf(a) <= pc /\ FunctionOf(a) \in Nat
    BY <2>1, <2>3
  <2> QED
    BY <1>3, <2>4
<1>9. ScopeOf(ast, a) = ScopeOf(ast, pc)
  <2> DEFINE Greatest(open) == IF open = {} THEN 0 ELSE CHOOSE o \in open : \A q \in open : q <= o
  <2>1. ScopeOf(ast, a) = Greatest(Open(ast, Scopes, a)) /\ ScopeOf(ast, pc) = Greatest(Open(ast, Scopes, pc))
    BY DEF ScopeOf, Innermost, Scopes
  <2> HIDE DEF Greatest
  <2> QED
    BY <1>5, <1>7, <2>1
<1> QED
  BY <1>8, <1>9

(* Storage is set for what is declared at the events that a step visits. *)
Sets(d, k, s) ==
  /\ d \in DOMAIN ast /\ pc <= d /\ d < pc' /\ ast[d].op \in Declaring
  /\ k = Slot(TableOf(ScopeOf(ast, d)), ast[d].path[1], ast[d].loc)
  /\ OfFunction(d, s.of)

LEMMA StorageSet ==
  ASSUME GInv, ArgsSkipped, GenPass
  PROVE  /\ DOMAIN storage \subseteq DOMAIN storage'
         /\ \A k \in DOMAIN storage' :
              (k \in DOMAIN storage /\ storage'[k] = storage[k]) \/ \E d : Sets(d, k, storage'[k])
<1>1. CASE UNCHANGED storage
  BY <1>1
<1>2. CASE GenAssignName /\ ~ UNCHANGED storage
  <2> DEFINE key == Slot(current, ast[pc].path[1], ast[pc].loc)
             slot == [kind |-> "alloca", of |-> insert]
  <2>1. /\ pass = "gen" /\ pc \in DOMAIN ast /\ ast[pc].op \in {"declare", "name"} /\ pc' = pc + 1
        /\ insert # NoFunction /\ storage' = Stored(key, slot)
    BY <1>2 DEF GenAssignName, GenAt, At, Crash, Continue, genvars
  <2>2. pc \in Nat
    BY <2>1, GenFacts
  <2>3. key = Slot(TableOf(ScopeOf(ast, pc)), ast[pc].path[1], ast[pc].loc)
    BY <2>1, CurrentHere
  <2>4. OfFunction(pc, slot.of)
    BY <2>1, InsertHere DEF OfFunction
  <2> HIDE DEF key, slot
  <2>5. DOMAIN storage' = DOMAIN storage \cup {key}
        /\ \A k \in DOMAIN storage' : storage'[k] = IF k = key THEN slot ELSE storage[k]
    BY <2>1 DEF Stored
  <2>6. Sets(pc, key, slot)
    BY <2>1, <2>2, <2>3, <2>4 DEF Sets, Declaring
  <2> QED
    BY <2>5, <2>6
<1>3. CASE GenArgument /\ ~ UNCHANGED storage
  <2> DEFINE key == Slot(current, ast[pc].path[1], ast[pc].loc)
             slot == StorageAt(codegen.at)
  <2>1. /\ pass = "gen" /\ pc \in DOMAIN ast /\ ast[pc].op = "arg" /\ pc' = pc + 1
        /\ storage' = Stored(key, slot)
    BY <1>3 DEF GenArgument, GenAt, At, Continue
  <2>2. pc \in Nat
    BY <2>1, GenFacts
  <2>3. key = Slot(TableOf(ScopeOf(ast, pc)), ast[pc].path[1], ast[pc].loc)
    BY <2>1, CurrentHere
  <2>4. OfFunction(pc, slot.of)
    BY <2>1 DEF OfFunction, Constructed, ArgsSkipped
  <2> HIDE DEF key, slot
  <2>5. DOMAIN storage' = DOMAIN storage \cup {key}
        /\ \A k \in DOMAIN storage' : storage'[k] = IF k = key THEN slot ELSE storage[k]
    BY <2>1 DEF Stored
  <2>6. Sets(pc, key, slot)
    BY <2>1, <2>2, <2>3, <2>4 DEF Sets, Declaring
  <2> QED
    BY <2>5, <2>6
<1>4. CASE GenFunction
  <2> DEFINE args == {Slot(current, ast[a].path[1], ast[a].loc) : a \in pc + 1 .. pc + ast[pc].link - 1}
  <2>1. GenAt("fn") /\ pass = "gen" /\ pc \in DOMAIN ast /\ pc' = pc + ast[pc].link
    BY <1>4 DEF GenFunction, GenAt, At
  <2>2. PICK n \in Naming(pc) :
          storage' = [k \in DOMAIN storage \cup args |->
                        IF k \in args THEN [kind |-> "argument", of |-> ast[n].path[1]] ELSE storage[k]]
    BY <1>4 DEF GenFunction
  <2> DEFINE slot == [kind |-> "argument", of |-> ast[n].path[1]]
  <2>3. /\ ast[n].path[1] = NamesIn(ast)[pc] /\ ast[pc].link \in Nat
        /\ \A a \in pc + 1 .. pc + ast[pc].link - 1 : a \in DOMAIN ast /\ ast[a].op = "arg"
    BY <2>1, NamedBehind
  <2>4. pc \in Nat
    BY <2>1, GenFacts
  <2>5. ASSUME NEW k \in args
        PROVE  \E d : Sets(d, k, slot)
    <3>1. PICK a \in pc + 1 .. pc + ast[pc].link - 1 : k = Slot(current, ast[a].path[1], ast[a].loc)
      BY <2>5
    <3>2. FunctionOf(a) = pc /\ ScopeOf(ast, a) = ScopeOf(ast, pc)
      BY <2>1, ArgumentPlace
    <3>3. current = TableOf(ScopeOf(ast, a))
      BY <2>1, <3>2, CurrentHere
    <3>4. OfFunction(a, slot.of)
      BY <2>1, <2>3, <3>2 DEF OfFunction, NamesIn, NameOf
    <3>5. pc <= a /\ a < pc'
      BY <2>1, <2>3, <2>4
    <3>6. Sets(a, k, slot)
      BY <2>3, <3>1, <3>3, <3>4, <3>5 DEF Sets, Declaring
    <3> QED
      BY <3>6
  <2> HIDE DEF args
  <2>6. DOMAIN storage' = DOMAIN storage \cup args
        /\ \A k \in DOMAIN storage' : storage'[k] = IF k \in args THEN slot ELSE storage[k]
    BY <2>2
  <2> HIDE DEF slot
  <2> QED
    BY <2>5, <2>6
<1>5. CASE GenStart \/ GenLiteral \/ GenNode \/ GenEndNode \/ GenEnter \/ GenLeave \/ GenOther
  BY <1>1, <1>5 DEF GenStart, GenLiteral, GenNode, GenEndNode, GenEnter, GenLeave, GenOther, genvars
<1>6. CASE GenFunctionAgain \/ GenFunctionUnnamed \/ GenEndFunction \/ GenErased
  BY <1>1, <1>6 DEF GenFunctionAgain, GenFunctionUnnamed, GenEndFunction, GenErased, genvars, Crash
<1>7. CASE GenVariable \/ GenNameFunction \/ GenAssign \/ GenBinOp \/ GenUnOp \/ GenCall \/ GenEndCall
  BY <1>1, <1>7 DEF GenVariable, GenNameFunction, GenAssign, GenBinOp, GenUnOp, GenCall, GenEndCall,
     genvars, Crash
<1>8. CASE GenIf \/ GenThen \/ GenEndBranch \/ GenEndIf \/ GenDone
  BY <1>1, <1>8 DEF GenIf, GenThen, GenEndBranch, GenEndIf, GenDone, genvars, Crash
<1> QED
  BY <1>1, <1>2, <1>3, <1>4, <1>5, <1>6, <1>7, <1>8 DEF GenPass

(* What a step sets storage for is a declaration of its scope. *)
LEMMA SetsOwned ==
  ASSUME GInv, AllDeclared, Tables, pass = "gen", generated, NEW d, NEW k, NEW s, Sets(d, k, s)
  PROVE  /\ k[1] \in DOMAIN arena /\ d \in Nat
         /\ Sorted(Entries(k)) => Owns(k, d)
<1> DEFINE n == ast[d].path[1]
<1>1. /\ d \in DOMAIN ast /\ ast[d].op \in Declaring
      /\ k = Slot(TableOf(ScopeOf(ast, d)), n, ast[d].loc)
  BY DEF Sets
<1>2. Walkable(ast) /\ WellLinked(ast) /\ DOMAIN ast = 1 .. Len(ast) /\ arena \in Seq(Table)
  BY GenFacts DEF GInv, Analysed
<1>3. n \in Name
  BY <1>1, <1>2 DEF WellLinked, Declaring
<1>4. Declares(ast, d, ScopeOf(ast, d), n)
  BY <1>1 DEF AllDeclared, Visited
<1>5. k[1] = TableOf(ScopeOf(ast, d))
  BY <1>1 DEF Slot
<1>6. TableOf(ScopeOf(ast, d)) \in DOMAIN arena
  BY <1>1 DEF Tables
<1>7. Sorted(Entries(k)) => Owns(k, d)
  BY <1>1, <1>2, <1>3, <1>4, SlotOwned
<1> QED
  BY <1>1, <1>2, <1>5, <1>6, <1>7

LEMMA EntriesKept ==
  ASSUME GenPass
  PROVE  /\ \A k : Entries(k)' = Entries(k)
         /\ \A k, d : Owns(k, d)' <=> Owns(k, d)
         /\ \A d, name : OfFunction(d, name)' <=> OfFunction(d, name)
<1>1. UNCHANGED <<ast, arena, locals>>
  BY GenSteps
<1>2. \A k : Entries(k)' = Entries(k)
  BY <1>1 DEF Entries
<1>3. \A k, d : Owns(k, d)' <=> Owns(k, d)
  BY <1>1, <1>2 DEF Owns, TableOf
<1>4. \A d, name : OfFunction(d, name)' <=> OfFunction(d, name)
  BY <1>1 DEF OfFunction, Constructed, FunctionOf, NameOf
<1> QED
  BY <1>2, <1>3, <1>4

(* The walk goes on, or stays where it ends. *)
LEMMA Onwards ==
  ASSUME GInv, GenPass, pass = "gen"
  PROVE  pc \in Nat /\ pc' \in Nat /\ pc <= pc'
<1>1. Walkable(ast) /\ pc \in Nat /\ ast \in Seq(Event) /\ WellLinked(ast)
  BY GenFacts
<1>2. CASE pass' = "gen"
  <2>1. pc \in DOMAIN ast
    BY <1>2, GenMoves
  <2>2. CASE Skips
    <3>1. EndOf(ast, pc) \in Nat /\ pc < EndOf(ast, pc) /\ pc' = EndOf(ast, pc) + 1
      BY <1>1, <2>1, <2>2, Ends DEF Skips
    <3> QED
      BY <1>1, <3>1
  <2>3. CASE ast[pc].op = "fn" /\ pc' = pc + ast[pc].link
    <3>1. ast[pc].link > 0 /\ ast[pc].link \in Int
      BY <1>1, <2>1, <2>3, EventFields DEF WellLinked
    <3> QED
      BY <1>1, <2>3, <3>1
  <2> QED
    BY <1>1, <1>2, <2>2, <2>3, GenMoves
<1>3. CASE pass' # "gen"
  BY <1>1, <1>3, GenSteps DEF GenDone
<1> QED
  BY <1>2, <1>3

LEMMA StorageStays ==
  ASSUME GInv, TInv, GenPass
  PROVE  StorageRight'
<1>1. /\ Tables /\ \A k : Entries(k)' = Entries(k)
      /\ \A k, d : Owns(k, d)' <=> Owns(k, d)
      /\ \A d, name : OfFunction(d, name)' <=> OfFunction(d, name)
      /\ UNCHANGED <<ast, arena>>
  BY AnalysisStands, EntriesKept, GenSteps DEF TInv
<1>2. CASE GenStart
  BY <1>2 DEF GenStart, TInv, Beginning, StorageRight
<1>3. CASE pass = "gen"
  <2>1. generated /\ pc \in Nat /\ pc' \in Nat /\ pc <= pc'
    BY <1>3, Onwards DEF TInv, Beginning
  <2> SUFFICES ASSUME NEW k \in DOMAIN storage'
               PROVE  /\ k[1] \in DOMAIN arena
                      /\ Sorted(Entries(k)) =>
                           \E d \in DOMAIN ast : d < pc' /\ Owns(k, d) /\ OfFunction(d, storage'[k].of)
    BY <1>1 DEF StorageRight, Sorted
  <2>2. CASE k \in DOMAIN storage /\ storage'[k] = storage[k]
    <3>1. /\ k[1] \in DOMAIN arena
          /\ Sorted(Entries(k)) =>
               \E d \in DOMAIN ast : d < pc /\ Owns(k, d) /\ OfFunction(d, storage[k].of)
      BY <2>1, <2>2 DEF TInv, StorageRight
    <3>2. \A d \in DOMAIN ast : d < pc => d < pc'
      <4>1. DOMAIN ast = 1 .. Len(ast)
        BY <1>3, GenFacts
      <4> QED
        BY <2>1, <4>1
    <3> QED
      BY <2>2, <3>1, <3>2
  <2>3. CASE \E d : Sets(d, k, storage'[k])
    <3>1. PICK d : Sets(d, k, storage'[k])
      BY <2>3
    <3>2. k[1] \in DOMAIN arena /\ (Sorted(Entries(k)) => Owns(k, d))
      BY <1>1, <1>3, <2>1, <3>1, SetsOwned DEF TInv
    <3>3. d \in DOMAIN ast /\ d < pc' /\ OfFunction(d, storage'[k].of)
      BY <3>1 DEF Sets
    <3> QED
      BY <3>2, <3>3
  <2> QED
    BY <2>2, <2>3, StorageSet DEF TInv
<1> QED
  BY <1>2, <1>3, GenSteps

(* A declaration that a step comes to has an entry of its own. *)
LEMMA StorageOnce ==
  ASSUME GInv, TInv, GenPass
  PROVE  SetOnce
<1>1. CASE GenStart
  BY <1>1 DEF GenStart, SetOnce
<1>2. CASE pass = "gen"
  <2>1. generated /\ Tables /\ Walkable(ast)
    BY <1>2, AnalysisStands, GenFacts DEF TInv, Beginning
  <2> SUFFICES ASSUME NEW k \in DOMAIN storage, Sorted(Entries(k)), storage'[k] # storage[k]
               PROVE  FALSE
    BY StorageSet DEF SetOnce, TInv
  <2>2. PICK d : Sets(d, k, storage'[k])
    BY StorageSet DEF TInv
  <2>3. PICK c \in DOMAIN ast : c < pc /\ Owns(k, c)
    BY <2>1 DEF TInv, StorageRight
  <2>4. Owns(k, d)
    BY <1>2, <2>1, <2>2, SetsOwned DEF TInv
  <2>5. c = d
    BY <2>1, <2>3, <2>4, OwnEntry
  <2>6. d \in Nat /\ pc \in Nat /\ pc <= d
    BY <1>2, <2>1, <2>2, SetsOwned, Onwards DEF TInv, Sets
  <2> QED
    BY <2>3, <2>5, <2>6
<1> QED
  BY <1>1, <1>2, GenSteps

LEMMA SlotsExist == TInv => SymbolsExist
<1> SUFFICES ASSUME TInv, NEW k \in DOMAIN storage, Sorted(Entries(k))
             PROVE  k[3] \in DOMAIN Entries(k)
  BY DEF SymbolsExist
<1>1. generated
  BY DEF TInv, Beginning
<1> QED
  BY <1>1 DEF TInv, StorageRight, Owns

-----------------------------------------------------------------------------
(* Uses.                                                                   *)

(* The instructions that refer to something: what is loaded or taken at a  *)
(* variable, stored at a reassignment, called where a call ends.           *)
Makes(u) ==
  /\ u.event = pc /\ pc \in DOMAIN ast
  /\ \/ /\ u.kind \in {"load", "argument"}
        /\ StorageAt(pc).kind # "none" /\ u.of = StorageAt(pc).of
     \/ /\ u.kind = "store"
        /\ StorageAt(pc + ast[pc].link).kind # "none" /\ u.of = StorageAt(pc + ast[pc].link).of
     \/ u.kind = "call" /\ ast[pc].op = "endcall" /\ u.of = LastName(ast[pc - 1].path)

LEMMA EmitMakes ==
  ASSUME module \in [Name -> Fn], insert \in Name \cup {NoFunction}, NEW kind, NEW of, Emit(kind, of)
  PROVE  \A n \in Name : \A u \in module'[n].uses :
           u \in module[n].uses \/ u = [kind |-> kind, of |-> of, event |-> pc, input |-> inputs]
<1> DEFINE use == [kind |-> kind, of |-> of, event |-> pc, input |-> inputs]
<1>1. CASE insert = NoFunction
  BY <1>1 DEF Emit
<1>2. CASE insert # NoFunction
  <2>1. module' = [module EXCEPT ![insert].uses = @ \cup {use}] /\ insert \in Name
    BY <1>2 DEF Emit
  <2> HIDE DEF use
  <2>2. \A n \in Name : module'[n].uses = IF n = insert THEN module[n].uses \cup {use} ELSE module[n].uses
    BY <2>1 DEF Fn
  <2> QED
    BY <2>2 DEF use
<1> QED
  BY <1>1, <1>2

LEMMA UsesMade ==
  ASSUME GInv, GenPass
  PROVE  \A n \in Name : \A u \in module'[n].uses : u \in module[n].uses \/ Makes(u)
<1>1. CASE UNCHANGED module
  BY <1>1
<1>2. module \in [Name -> Fn] /\ insert \in Name \cup {NoFunction}
  BY DEF GInv, GenTypeOK, Fn
<1>3. CASE GenFunction
  <2>1. PICK d \in Naming(pc) :
          module' = [module EXCEPT ![ast[d].path[1]] =
                       [Absent EXCEPT !.state = "open", !.arity = ast[pc].link - 1,
                                      !.event = d, !.input = inputs]]
    BY <1>3 DEF GenFunction
  <2> DEFINE new == [Absent EXCEPT !.state = "open", !.arity = ast[pc].link - 1,
                                   !.event = d, !.input = inputs]
  <2>2. new.uses = {}
    BY DEF Absent
  <2> HIDE DEF new
  <2>3. \A n \in Name : module'[n] = module[n] \/ module'[n] = new
    BY <1>2, <2>1 DEF new
  <2> QED
    BY <2>2, <2>3
<1>4. CASE GenEndFunction
  <2>1. module' = [module EXCEPT ![insert].state = "complete", ![insert].value = codegen]
    BY <1>4 DEF GenEndFunction
  <2>2. \A n \in Name : module'[n].uses = module[n].uses
    BY <1>2, <2>1 DEF Fn
  <2> QED
    BY <2>2
<1>5. CASE GenErased /\ ~ UNCHANGED module
  <2>1. module' = [module EXCEPT ![insert] = Absent] /\ Absent.uses = {}
    BY <1>5 DEF GenErased, Crash, genvars, Absent
  <2>2. \A n \in Name : module'[n] = module[n] \/ module'[n] = Absent
    BY <1>2, <2>1
  <2> QED
    BY <2>1, <2>2
<1>6. CASE GenVariable /\ ~ UNCHANGED module
  <2>1. PICK kind \in {"load", "argument"} :
          pc \in DOMAIN ast /\ StorageAt(pc).kind # "none" /\ Emit(kind, StorageAt(pc).of)
    <3> DEFINE s == StorageAt(pc)
    <3>1. s.kind \in {"none", "alloca", "argument"}
      BY HasStorage
    <3>2. /\ pc \in DOMAIN ast
          /\ CASE s.kind = "none"     -> UNCHANGED <<codegen, module>>
               [] s.kind = "argument" -> codegen' = Made("argument") /\ Emit("argument", s.of)
               [] s.kind = "alloca"   -> codegen' = Made("i32") /\ Emit("load", s.of)
      BY <1>6 DEF GenVariable, GenAt, At
    <3> HIDE DEF s
    <3>3. pc \in DOMAIN ast /\ s.kind # "none" /\ (Emit("load", s.of) \/ Emit("argument", s.of))
      BY <1>6, <3>1, <3>2
    <3> QED
      BY <3>3 DEF s
  <2>2. Makes([kind |-> kind, of |-> StorageAt(pc).of, event |-> pc, input |-> inputs])
    BY <2>1 DEF Makes
  <2> QED
    BY <1>2, <2>1, <2>2, EmitMakes
<1>7. CASE GenAssign /\ ~ UNCHANGED module
  <2> DEFINE s == StorageAt(pc + ast[pc].link)
  <2>1. pc \in DOMAIN ast /\ s.kind # "none" /\ Emit("store", s.of)
    BY <1>7 DEF GenAssign, GenAt, At, Crash, genvars
  <2>2. Makes([kind |-> "store", of |-> s.of, event |-> pc, input |-> inputs])
    BY <2>1 DEF Makes
  <2> QED
    BY <1>2, <2>1, <2>2, EmitMakes
<1>8. CASE GenEndCall /\ ~ UNCHANGED module
  <2> DEFINE name == LastName(ast[pc - 1].path)
  <2>1. pc \in DOMAIN ast /\ ast[pc].op = "endcall" /\ Emit("call", name)
    BY <1>8 DEF GenEndCall, GenAt, At, Crash, genvars
  <2>2. Makes([kind |-> "call", of |-> name, event |-> pc, input |-> inputs])
    BY <2>1 DEF Makes
  <2> QED
    BY <1>2, <2>1, <2>2, EmitMakes
<1>9. CASE GenStart \/ GenLiteral \/ GenNode \/ GenEndNode \/ GenEnter \/ GenLeave \/ GenOther
  BY <1>1, <1>9 DEF GenStart, GenLiteral, GenNode, GenEndNode, GenEnter, GenLeave, GenOther, genvars
<1>10. CASE GenFunctionAgain \/ GenFunctionUnnamed \/ GenNameFunction \/ GenAssignName \/ GenArgument
  BY <1>1, <1>10 DEF GenFunctionAgain, GenFunctionUnnamed, GenNameFunction, GenAssignName, GenArgument,
     genvars, Crash
<1>11. CASE GenBinOp \/ GenUnOp \/ GenCall
  BY <1>1, <1>11 DEF GenBinOp, GenUnOp, GenCall, genvars, Crash
<1>12. CASE GenIf \/ GenThen \/ GenEndBranch \/ GenEndIf \/ GenDone
  BY <1>1, <1>12 DEF GenIf, GenThen, GenEndBranch, GenEndIf, GenDone, genvars, Crash
<1> QED
  BY <1>1, <1>3, <1>4, <1>5, <1>6, <1>7, <1>8, <1>9, <1>10, <1>11, <1>12 DEF GenPass

(* A name whose declarations are in source order has a vector in order.    *)
LEMMA OrderSorts ==
  ASSUME Tables, NEW d, NEW n \in Name, d \in DeclarationsOf(ast, ScopeOf(ast, d), n),
         InSourceOrder(ast, ScopeOf(ast, d), n)
  PROVE  Sorted(arena[TableOf(ScopeOf(ast, d))].symbols[n].decls)
<1> DEFINE s == ScopeOf(ast, d)
           D == DeclarationsOf(ast, s, n)
           decls == arena[TableOf(s)].symbols[n].decls
<1>1. HasTable(s) /\ s \in 0 .. Len(ast)
  BY DEF Tables, DeclarationsOf
<1>2. Lists(ast, decls, D)
  BY <1>1 DEF Tables
<1>3. \A c, e \in D : c < e => Before(ast[c].loc, ast[e].loc)
  BY DEF InSourceOrder
<1> HIDE DEF s, D, decls
<1>4. PICK order : ListedBy(ast, decls, D, order)
  BY <1>2 DEF Lists
<1>5. \A k \in DOMAIN decls : order[k] \in D /\ decls[k].src = ast[order[k]].loc
  BY <1>4 DEF ListedBy, Info
<1>6. \A k, l \in DOMAIN decls : k < l => order[k] < order[l]
  BY <1>4 DEF ListedBy
<1>7. Sorted(decls)
  BY <1>3, <1>5, <1>6 DEF Sorted
<1> QED
  BY <1>7 DEF decls, s

(* The entry that the generator finds for a variable is that of the        *)
(* declaration which the rules give.                                       *)
LEMMA UseOwned ==
  ASSUME Walkable(ast), WellLinked(ast), Tables, ReferencesHold, NEW i \in Uses, AsScoped(i),
         HomeInOrder(i), def_table[i] # None
  PROVE  LET d == Resolve(ast, i).decl IN
         d # 0 /\ Owns(UseKey(i), d) /\ Sorted(Entries(UseKey(i)))
<1> DEFINE r == Resolve(ast, i)
           d == r.decl
           key == LastName(ast[i].path)
           got == Get(arena[def_table[i]], key, ast[i].loc)
           s == ScopeOf(ast, d)
<1>1. i \in DOMAIN ast /\ ast[i].op \in {"use", "target", "callee"}
  BY DEF Uses
<1>2. r.kind = "declared" /\ ResolvedTo(i, d)
  BY DEF AsScoped
<1>3. /\ HomeOf(ast, i) # NoScope
      /\ d \in DeclarationsOf(ast, HomeOf(ast, i), key)
  BY <1>1, <1>2, ResolveDeclares DEF LastName
<1>4. key \in Name
  BY <1>1 DEF WellLinked, LastName
<1>5. /\ d \in DOMAIN ast /\ d # 0 /\ s = HomeOf(ast, i)
      /\ d \in DeclarationsOf(ast, s, key)
  <2>1. d \in DOMAIN ast /\ d # 0 /\ s = HomeOf(ast, i)
    <3> HIDE DEF d, key
    <3>1. d \in DOMAIN ast /\ ScopeOf(ast, d) = HomeOf(ast, i)
      BY <1>3, DeclarationFacts
    <3>2. DOMAIN ast = 1 .. Len(ast)
      BY DEF Walkable
    <3> QED
      BY <3>1, <3>2
  <2> QED
    BY <1>3, <2>1
<1>6. got.kind = "var" /\ got.at \in DOMAIN arena[def_table[i]].symbols[key].decls
  BY <1>1 DEF ReferencesHold, LastName
<1>7. def_table[i] = TableOf(s)
      /\ arena[def_table[i]].symbols[key].decls[got.at] = Info(ast, d)
  BY <1>2 DEF ResolvedTo, TableOf, Found, Info, LastName
<1>8. UseKey(i) = <<def_table[i], key, got.at>>
  BY <1>6 DEF UseKey, Slot
<1> HIDE DEF r, key, got
<1>9. UseKey(i)[1] = def_table[i] /\ UseKey(i)[2] = key /\ UseKey(i)[3] = got.at
  BY <1>8
<1>10. Entries(UseKey(i)) = arena[def_table[i]].symbols[key].decls
  BY <1>9 DEF Entries
<1>11. Owns(UseKey(i), d)
  BY <1>4, <1>5, <1>6, <1>7, <1>9, <1>10 DEF Owns
<1>12. InSourceOrder(ast, s, key)
  BY <1>3, <1>5 DEF HomeInOrder, key, LastName
<1>13. Sorted(Entries(UseKey(i)))
  BY <1>4, <1>5, <1>7, <1>10, <1>12, OrderSorts
<1> QED
  BY <1>5, <1>11, <1>13 DEF r

(* An instruction that is made for a variable is about the storage of the  *)
(* declaration which the rules give.                                       *)
LEMMA MadeRight ==
  ASSUME GInv, TInv, ReferencesHold, pass = "gen", NEW i \in DOMAIN ast,
         StorageAt(i).kind # "none", HomeInOrder(i)
  PROVE  LET d == Resolve(ast, i).decl IN d # 0 /\ OfFunction(d, StorageAt(i).of)
<1>1. /\ Walkable(ast) /\ WellLinked(ast) /\ generated /\ Tables /\ DOMAIN arena = 1 .. Len(arena)
      /\ \A j \in Uses : AsScoped(j)
  <2>1. arena \in Seq(Table) /\ generated
    BY DEF GInv, Analysed, TInv, Beginning
  <2> QED
    BY <2>1, GenFacts DEF TInv, Known
<1>2. UseKey(i) \in DOMAIN storage /\ StorageAt(i) = storage[UseKey(i)]
  BY HasStorage DEF StorageAt, StorageOf, UseKey
<1>3. UseKey(i)[1] = def_table[i]
  BY DEF UseKey, Slot
<1>4. /\ def_table[i] \in DOMAIN arena
      /\ Sorted(Entries(UseKey(i))) =>
           \E d \in DOMAIN ast : Owns(UseKey(i), d) /\ OfFunction(d, StorageAt(i).of)
  BY <1>1, <1>2, <1>3 DEF TInv, StorageRight
<1>5. def_table[i] # None
  BY <1>1, <1>4 DEF None
<1>6. i \in Uses
  BY <1>5 DEF TInv, UsesOnly
<1> DEFINE d == Resolve(ast, i).decl
<1>7. d # 0 /\ Owns(UseKey(i), d) /\ Sorted(Entries(UseKey(i)))
  BY <1>1, <1>5, <1>6, UseOwned
<1>8. PICK c \in DOMAIN ast : Owns(UseKey(i), c) /\ OfFunction(c, StorageAt(i).of)
  BY <1>4, <1>7
<1> HIDE DEF d
<1>9. c = d
  BY <1>1, <1>7, <1>8, OwnEntry
<1> QED
  BY <1>7, <1>8, <1>9 DEF d

LEMMA UsesStay ==
  ASSUME GInv, TInv, ReferencesHold, GenPass
  PROVE  UsesRight'
<1>1. ast' = ast
  BY GenSteps
<1>2. \A u : (UseRight(u)' <=> UseRight(u)) /\ (CallNamed(u)' <=> CallNamed(u))
  <2>1. \A d, name : OfFunction(d, name)' <=> OfFunction(d, name)
    BY EntriesKept
  <2> QED
    BY <1>1, <2>1 DEF UseRight, CallNamed, HomeInOrder, VariableOf
<1> SUFFICES ASSUME NEW n \in Name, NEW u \in module'[n].uses
             PROVE  UseRight(u) /\ CallNamed(u)
  BY <1>2 DEF UsesRight
<1>3. CASE u \in module[n].uses
  BY <1>3 DEF TInv, UsesRight
<1>4. CASE pass = "gen" /\ Makes(u)
  <2>1. /\ Walkable(ast) /\ WellLinked(ast) /\ ast \in Seq(Event) /\ pc \in DOMAIN ast /\ u.event = pc
        /\ pc \in Nat
    BY <1>4, GenFacts DEF Makes
  <2>2. CASE u.kind \in {"load", "argument"}
    <3>1. VariableOf(u) = pc /\ StorageAt(pc).kind # "none" /\ u.of = StorageAt(pc).of
      BY <1>4, <2>1, <2>2 DEF Makes, VariableOf
    <3> QED
      BY <1>4, <2>1, <2>2, <3>1, MadeRight DEF UseRight, CallNamed
  <2>3. CASE u.kind = "store"
    <3> DEFINE target == pc + ast[pc].link
    <3>1. target \in DOMAIN ast
      BY <2>1 DEF WellLinked
    <3>2. VariableOf(u) = target /\ StorageAt(target).kind # "none" /\ u.of = StorageAt(target).of
      BY <1>4, <2>1, <2>3 DEF Makes, VariableOf
    <3> HIDE DEF target
    <3> QED
      BY <1>4, <2>3, <3>1, <3>2, MadeRight DEF UseRight, CallNamed
  <2>4. CASE u.kind = "call"
    <3>1. ast[pc].op = "endcall" /\ u.of = LastName(ast[pc - 1].path)
      BY <1>4, <2>4 DEF Makes
    <3>2. PICK c \in DOMAIN ast : pc = EndOf(ast, c) /\ ast[c].op \in Calls
      BY <1>4, <2>1, <3>1, Ending
    <3>3. c \in Open(ast, Calls, EndOf(ast, c))
      BY <2>1, <3>2, Kinds, OpenAtEnd
    <3>4. ast[pc - 1].op = "callee"
      BY <1>4, <3>2, <3>3 DEF GInv, CallsPending
    <3>5. ast[c].op \in Openers
      BY <3>2, Kinds
    <3>6. c \in Nat /\ c >= 1 /\ c < pc
      BY <2>1, <3>2, <3>5, Ends
    <3>7. pc - 1 \in DOMAIN ast
      BY <2>1, <3>6 DEF Walkable
    <3> QED
      BY <2>1, <2>4, <3>1, <3>4, <3>7 DEF UseRight, CallNamed
  <2> QED
    BY <1>4, <2>2, <2>3, <2>4 DEF Makes
<1>5. CASE GenStart
  BY <1>3, <1>5 DEF GenStart
<1> QED
  BY <1>3, <1>4, <1>5, UsesMade, GenSteps

-----------------------------------------------------------------------------
(* The functions of the module.                                            *)

(* The declaration that names a function gives its name, and stands behind *)
(* it.                                                                     *)
LEMMA NamedFunction ==
  ASSUME WellLinked(ast), NEW f, NEW d \in Naming(f)
  PROVE  /\ d \in DOMAIN ast /\ ast[d].op = "declare" /\ ast[f].op = "fn" /\ d = EndOf(ast, f) + 1
         /\ f \in DOMAIN ast
         /\ NameOf(f) = ast[d].path[1] /\ NameOf(f) \in Name
<1>1. d \in DOMAIN ast /\ ast[d].op = "declare" /\ ast[d].link # 0 /\ d + ast[d].link = f
  BY DEF Naming
<1>2. ast[f].op = "fn" /\ d = EndOf(ast, f) + 1 /\ f \in DOMAIN ast /\ ast[d].path[1] \in Name
  BY <1>1 DEF WellLinked
<1> QED
  BY <1>1, <1>2 DEF NameOf

(* A function that is in the module stays what it is, unless it is opened  *)
(* or erased.                                                              *)
Remains(n) ==
  /\ module[n].state # "absent" => module'[n].state # "absent"
  /\ module'[n].event = module[n].event /\ module'[n].input = module[n].input

LEMMA ModuleKept ==
  ASSUME GInv, GenPass, ~ GenFunction, ~ (GenErased /\ pass' # "crashed")
  PROVE  \A n \in Name : Remains(n)
<1>1. CASE UNCHANGED module
  BY <1>1 DEF Remains
<1>2. module \in [Name -> Fn] /\ insert \in Name \cup {NoFunction}
  BY DEF GInv, GenTypeOK, Fn
<1>3. ASSUME NEW kind, NEW of, Emit(kind, of)
      PROVE  \A n \in Name : Remains(n)
  <2>1. CASE insert = NoFunction
    BY <1>1, <1>3, <2>1 DEF Emit
  <2>2. CASE insert # NoFunction
    <3> DEFINE use == [kind |-> kind, of |-> of, event |-> pc, input |-> inputs]
    <3>1. module' = [module EXCEPT ![insert].uses = @ \cup {use}] /\ insert \in Name
      BY <1>2, <1>3, <2>2 DEF Emit
    <3> HIDE DEF use
    <3> QED
      BY <1>2, <3>1 DEF Remains, Fn
  <2> QED
    BY <2>1, <2>2
<1>4. CASE GenEndFunction
  <2>1. module' = [module EXCEPT ![insert].state = "complete", ![insert].value = codegen]
    BY <1>4 DEF GenEndFunction
  <2> QED
    BY <1>2, <2>1 DEF Fn, Remains
<1>5. CASE GenErased
  BY <1>1, <1>5 DEF GenErased, Crash, genvars, Continue, GenAt, At
<1>6. CASE GenVariable
  <2> DEFINE s == StorageAt(pc)
  <2>1. s.kind \in {"none", "alloca", "argument"}
    BY HasStorage
  <2>2. /\ pc \in DOMAIN ast
        /\ CASE s.kind = "none"     -> UNCHANGED <<codegen, module>>
             [] s.kind = "argument" -> codegen' = Made("argument") /\ Emit("argument", s.of)
             [] s.kind = "alloca"   -> codegen' = Made("i32") /\ Emit("load", s.of)
    BY <1>6 DEF GenVariable, GenAt, At
  <2> HIDE DEF s
  <2>3. UNCHANGED module \/ Emit("load", s.of) \/ Emit("argument", s.of)
    BY <2>1, <2>2
  <2> QED
    BY <1>1, <1>3, <2>3
<1>7. CASE GenAssign
  <2>1. UNCHANGED module \/ Emit("store", StorageAt(pc + ast[pc].link).of)
    BY <1>7 DEF GenAssign, Crash, genvars
  <2> QED
    BY <1>1, <1>3, <2>1
<1>8. CASE GenEndCall
  <2>1. UNCHANGED module \/ Emit("call", LastName(ast[pc - 1].path))
    BY <1>8 DEF GenEndCall, Crash, genvars
  <2> QED
    BY <1>1, <1>3, <2>1
<1>9. CASE GenStart \/ GenLiteral \/ GenNode \/ GenEndNode \/ GenEnter \/ GenLeave \/ GenOther
  BY <1>1, <1>9 DEF GenStart, GenLiteral, GenNode, GenEndNode, GenEnter, GenLeave, GenOther, genvars
<1>10. CASE GenFunctionAgain \/ GenFunctionUnnamed \/ GenNameFunction \/ GenAssignName \/ GenArgument
  BY <1>1, <1>10 DEF GenFunctionAgain, GenFunctionUnnamed, GenNameFunction, GenAssignName, GenArgument,
     genvars, Crash
<1>11. CASE GenBinOp \/ GenUnOp \/ GenCall
  BY <1>1, <1>11 DEF GenBinOp, GenUnOp, GenCall, genvars, Crash
<1>12. CASE GenIf \/ GenThen \/ GenEndBranch \/ GenEndIf \/ GenDone
  BY <1>1, <1>12 DEF GenIf, GenThen, GenEndBranch, GenEndIf, GenDone, genvars, Crash
<1> QED
  BY <1>4, <1>5, <1>6, <1>7, <1>8, <1>9, <1>10, <1>11, <1>12 DEF GenPass

(* A function that is erased dooms the walk: the declaration behind it is  *)
(* the last event that it comes to.                                        *)
LEMMA ErasedDooms ==
  ASSUME GInv, ArgsSkipped, GenErased, pass' = "gen"
  PROVE  Doomed'
<1>1. /\ GenAt("endfn") /\ pass = "gen" /\ pc \in DOMAIN ast /\ pc' = pc + 1 /\ ast' = ast
      /\ codegen.type = "null" /\ codegen' = codegen
  BY DEF GenErased, GenAt, At, Crash, Continue
<1>2. PICK i \in DOMAIN ast : pc = EndOf(ast, i) /\ i \in Open(ast, Fns, pc)
  BY <1>1, FunctionEnds
<1>3. Naming(i) # {}
  BY <1>1, <1>2 DEF ArgsSkipped
<1>4. PICK d \in Naming(i) : TRUE
  BY <1>3
<1>5. WellLinked(ast)
  BY <1>1, GenFacts
<1>6. d \in DOMAIN ast /\ ast[d].op = "declare" /\ d = pc + 1
  BY <1>2, <1>4, <1>5, NamedFunction
<1> QED
  BY <1>1, <1>6 DEF Doomed

LEMMA DoomedEnds ==
  ASSUME GInv, Doomed, GenPass
  PROVE  pass' = "crashed"
<1>1. pass = "gen" /\ pc \in DOMAIN ast /\ ast[pc].op = "declare" /\ codegen.type = "null"
  BY DEF Doomed
<1>2. pc # Len(ast) + 1
  <2>1. DOMAIN ast = 1 .. Len(ast) /\ Len(ast) \in Nat
    BY <1>1, GenFacts
  <2> QED
    BY <1>1, <2>1
<1> USE DEF GenAt, At
<1>3. GenAssignName \/ GenNameFunction
  BY <1>1, <1>2 DEF GenPass, GenStart, GenLiteral, GenNode, GenEndNode, GenEnter, GenLeave, GenOther,
     GenFunctionAgain, GenFunction, GenFunctionUnnamed, GenEndFunction, GenErased, GenVariable,
     GenArgument, GenAssign, GenBinOp, GenUnOp, GenCall, GenEndCall, GenIf, GenThen, GenEndBranch,
     GenEndIf, GenDone
<1> QED
  BY <1>1, <1>3 DEF GenAssignName, GenNameFunction, Crash

LEMMA FunctionsStay ==
  ASSUME GInv, TInv, GenPass
  PROVE  FunctionsMade'
<1> SUFFICES ASSUME pass' \in {"gen", "done"}, diagnosed' = {}, ~ Doomed',
                    NEW f \in DOMAIN ast, ast[f].op = "fn", f < pc', Naming(f) # {}, ~ Unvisited(f)
             PROVE  InModule(f)'
  <2>1. ast' = ast
    BY GenSteps
  <2>2. \A g : Naming(g)' = Naming(g) /\ (Unvisited(g)' <=> Unvisited(g))
    BY <2>1 DEF Naming, Unvisited, HasElse, IfOf, Balanced
  <2> QED
    BY <2>1, <2>2 DEF FunctionsMade
<1>1. ast' = ast /\ inputs' = inputs /\ diagnosed = {} /\ (GenStart \/ pass = "gen")
  BY GenSteps
<1>2. WellLinked(ast) /\ Walkable(ast) /\ module \in [Name -> Fn]
  BY DEF GInv, Analysed, GenTypeOK, Fn
<1>3. NameOf(f) \in Name /\ f \in Nat /\ f >= 1
  <2>1. DOMAIN ast = 1 .. Len(ast)
    BY <1>2 DEF Walkable
  <2> QED
    BY <1>2, <2>1, NamedFunction
<1>4. pass = "gen"
  BY <1>1, <1>3 DEF GenStart
<1>5. ~ Doomed
  BY DoomedEnds
<1>6. f < pc => InModule(f)
  BY <1>1, <1>4, <1>5 DEF TInv, Beginning, FunctionsMade
<1>7. CASE f < pc /\ ~ GenFunction
  <2>1. ~ (GenErased /\ pass' # "crashed")
    <3>1. GenErased => pass' # "done"
      BY DEF GenErased, Crash, Continue, GenAt, At
    <3> QED
      BY <3>1, ErasedDooms DEF TInv
  <2>2. Remains(NameOf(f))
    BY <1>3, <1>7, <2>1, ModuleKept
  <2> QED
    BY <1>1, <1>6, <1>7, <2>2 DEF InModule, Remains, NameOf
<1>8. CASE GenFunction
  <2>1. PICK d \in Naming(pc) :
          /\ module[ast[d].path[1]].state = "absent"
          /\ module' = [module EXCEPT ![ast[d].path[1]] =
                          [Absent EXCEPT !.state = "open", !.arity = ast[pc].link - 1,
                                         !.event = d, !.input = inputs]]
    BY <1>8 DEF GenFunction
  <2> DEFINE new == [Absent EXCEPT !.state = "open", !.arity = ast[pc].link - 1,
                                   !.event = d, !.input = inputs]
  <2>2. new.state = "open" /\ new.event = d /\ new.input = inputs
    BY DEF Absent
  <2>3. d = EndOf(ast, pc) + 1 /\ ast[d].path[1] = NameOf(pc) /\ NameOf(pc) \in Name /\ pc \in DOMAIN ast
    BY <1>2, NamedFunction
  <2>4. module' = [module EXCEPT ![NameOf(pc)] = new] /\ module[NameOf(pc)].state = "absent"
    BY <2>1, <2>3
  <2> HIDE DEF new
  <2>5. module'[NameOf(pc)] = new /\ \A n \in Name : n # NameOf(pc) => module'[n] = module[n]
    BY <1>2, <2>3, <2>4
  <2>6. CASE f = pc
    BY <1>1, <2>2, <2>3, <2>5, <2>6 DEF InModule, NameOf
  <2>7. CASE f < pc
    <3>1. NameOf(f) # NameOf(pc)
      BY <1>6, <2>4, <2>7 DEF InModule
    <3>2. module'[NameOf(f)] = module[NameOf(f)]
      BY <1>3, <2>5, <3>1
    <3> QED
      BY <1>1, <1>6, <2>7, <3>2 DEF InModule, NameOf
  <2>8. CASE pc < f
    <3>1. pc' = pc + ast[pc].link /\ GenAt("fn")
      BY <1>8 DEF GenFunction
    <3>2. /\ ast[pc].link \in Nat
          /\ \A a \in pc + 1 .. pc + ast[pc].link - 1 : ast[a].op = "arg"
      BY <3>1, NamedBehind
    <3>3. f \in pc + 1 .. pc + ast[pc].link - 1
      BY <1>3, <1>4, <2>8, <3>1, <3>2, Onwards
    <3> QED
      BY <3>2, <3>3
  <2> QED
    BY <1>3, <1>4, <2>6, <2>7, <2>8, Onwards
<1>9. CASE ~ GenFunction /\ ~ (f < pc)
  <2>1. pass' = "gen"
    BY <1>9, GenSteps DEF GenDone
  <2>2. pc \in Nat /\ pc <= f
    BY <1>3, <1>4, <1>9, Onwards
  <2>3. pc \in DOMAIN ast /\ (Skips \/ (pc' = pc + 1 /\ ast[pc].op # "fn"))
    BY <1>4, <1>9, <2>1, GenMoves
  <2>4. CASE pc' = pc + 1 /\ ast[pc].op # "fn"
    <3>1. f = pc
      BY <1>3, <2>2, <2>4
    <3> QED
      BY <2>4, <3>1
  <2>5. CASE Skips
    <3>1. /\ ast[pc].op = "then" /\ ~ HasElse(IfOf(pc)) /\ pc' = EndOf(ast, pc) + 1
          /\ EndOf(ast, pc) \in Nat
      BY <1>2, <2>3, <2>5, Ends DEF Skips
    <3>2. pc \in Open(ast, {"then"}, f)
      <4>1. pc # f
        BY <3>1
      <4>2. pc \in 1 .. f - 1 /\ f <= EndOf(ast, pc)
        <5>1. pc >= 1
          BY <1>2, <2>3 DEF Walkable
        <5> QED
          BY <1>3, <2>2, <3>1, <4>1, <5>1
      <4> QED
        BY <3>1, <4>2 DEF Open
    <3> QED
      BY <3>1, <3>2 DEF Unvisited
  <2> QED
    BY <2>3, <2>4, <2>5
<1> QED
  BY <1>7, <1>8, <1>9

(* A call of a name that means a function calls that function: a name that *)
(* the module has of another function is an error, and then nothing is     *)
(* said.                                                                   *)
LEMMA CallsRight ==
  ASSUME GInv, TInv
  PROVE  CallsAsResolved
<1> SUFFICES ASSUME pass = "done", generated, diagnosed = {}, NEW n \in Name, NEW u \in module[n].uses,
                    u.kind = "call", NEW d, d = Resolve(ast, VariableOf(u)).decl,
                    d # 0, ast[d].op = "declare", ast[d].link # 0, ~ Unvisited(d)
             PROVE  module[u.of].event = d /\ module[u.of].input = inputs
  BY DEF CallsAsResolved, UsesOf, Failed
<1>1. Walkable(ast) /\ WellLinked(ast)
  BY DEF GInv, Analysed
<1>2. u.of = LastName(ast[u.event - 1].path) /\ VariableOf(u) = u.event - 1
  BY DEF TInv, UsesRight, CallNamed, VariableOf
<1>3. d \in DOMAIN ast /\ ast[d].path[1] = u.of
  <2> DEFINE i == VariableOf(u)
             key == ast[i].path[Len(ast[i].path)]
  <2>1. d \in DeclarationsOf(ast, HomeOf(ast, i), key)
    BY <1>1, ResolveDeclares
  <2>2. key = u.of
    BY <1>2 DEF LastName
  <2> HIDE DEF i, key
  <2> QED
    BY <1>1, <2>1, <2>2, DeclarationFacts
<1> DEFINE f == d + ast[d].link
<1>4. d \in Naming(f)
  BY <1>3 DEF Naming
<1> HIDE DEF f
<1>5. /\ f \in DOMAIN ast /\ ast[f].op = "fn" /\ d = EndOf(ast, f) + 1 /\ NameOf(f) = u.of
  BY <1>1, <1>3, <1>4, NamedFunction
<1>6. ~ Unvisited(f)
  <2>1. {"then"} \in SUBSET Openers /\ ast[f].op \in Openers
    BY <1>5 DEF Openers
  <2>2. Open(ast, {"then"}, EndOf(ast, f) + 1) = Open(ast, {"then"}, f)
    BY <1>1, <1>5, <2>1, OpenBehind
  <2> QED
    BY <1>5, <2>2 DEF Unvisited
<1>7. f < pc
  <2>1. pc = Len(ast) + 1
    BY DEF TInv, Beginning
  <2> QED
    BY <1>1, <1>5, <2>1 DEF Walkable
<1>8. InModule(f)
  BY <1>4, <1>5, <1>6, <1>7 DEF TInv, FunctionsMade, Doomed
<1> QED
  BY <1>5, <1>8 DEF InModule

LEMMA UsesAgree ==
  ASSUME TInv
  PROVE  StorageAsResolved
  BY DEF TInv, UsesRight, UseRight, OfFunction, StorageAsResolved, UsesOf

-----------------------------------------------------------------------------
(* The invariant is inductive.                                             *)

LEMMA TranslationBegins ==
  ASSUME GenInit
  PROVE  TInv
<1>1. Init /\ inputs = 1 /\ pass = "decl" /\ pc = 1 /\ ~ generated
      /\ storage = <<>> /\ module = [n \in Name |-> Absent]
  BY DEF GenInit, Init
<1>2. PlaceInv /\ ResolveInv
  BY <1>1, PlaceInit, ResolveInit
<1>3. Beginning
  BY <1>1, <1>2 DEF Beginning
<1>4. Known /\ ArgsSkipped /\ StorageRight /\ FunctionsMade
  BY <1>1 DEF Known, ArgsSkipped, StorageRight, FunctionsMade
<1>5. UsesOnly
  BY <1>1 DEF UsesOnly, Init
<1>6. AllDeclared
  BY <1>1 DEF AllDeclared, Visited
<1>7. UsesRight
  BY <1>1 DEF UsesRight, Absent
<1> QED
  BY <1>3, <1>4, <1>5, <1>6, <1>7 DEF TInv

LEMMA TranslationStutter ==
  ASSUME GInv, TInv, UNCHANGED allvars
  PROVE  TInv'
<1>1. /\ UNCHANGED <<inputs, ast, pass, pc, arena, locals, def_table, diagnosed>>
      /\ UNCHANGED <<generated, codegen, module, storage>> /\ UNCHANGED vars
  BY DEF allvars, vars, genvars
<1>2. Beginning'
  <2>1. pass \in {"decl", "ref"} => PlaceInv'
    <3> SUFFICES ASSUME pass \in {"decl", "ref"} PROVE PlaceInv'
      OBVIOUS
    <3>1. PlaceInv
      BY DEF TInv, Beginning
    <3>2. IInv'
      BY <1>1, <3>1, StutteringKeeps DEF PlaceInv
    <3>3. WellNested(ast)' /\ FramesPlaced' /\ TablesPlaced' /\ Rested'
      BY <1>1, <3>1, PlaceStutter
    <3> QED
      BY <3>2, <3>3 DEF PlaceInv
  <2>2. pass \in {"decl", "ref"} => ResolveInv'
    BY <1>1, ResolveStep DEF TInv, Beginning
  <2> QED
    BY <1>1, <2>1, <2>2 DEF TInv, Beginning
<1>3. Known'
  <2>1. Tables => Tables'
    BY <1>1, TablesRemain
  <2>2. Uses' = Uses
    BY <1>1 DEF Uses
  <2>3. \A i : AsScoped(i) => AsScoped(i)'
    BY <1>1, ScopedStays
  <2> QED
    BY <1>1, <2>1, <2>2, <2>3 DEF TInv, Known
<1>4. UsesOnly' /\ AllDeclared'
  <2>1. Visited' = Visited
    BY <1>1 DEF Visited
  <2> QED
    BY <1>1, <2>1 DEF TInv, UsesOnly, Uses, AllDeclared
<1>5. ArgsSkipped'
  BY <1>1 DEF TInv, ArgsSkipped, Naming
<1>6. \A d, name : OfFunction(d, name)' <=> OfFunction(d, name)
  BY <1>1 DEF OfFunction, Constructed, FunctionOf, NameOf
<1>7. StorageRight'
  <2>1. \A k : Entries(k)' = Entries(k)
    BY <1>1 DEF Entries
  <2>2. \A k, d : Owns(k, d)' <=> Owns(k, d)
    BY <1>1, <2>1 DEF Owns, TableOf
  <2> QED
    BY <1>1, <1>6, <2>1, <2>2 DEF TInv, StorageRight, Sorted
<1>8. UsesRight'
  <2>1. \A u : (UseRight(u)' <=> UseRight(u)) /\ (CallNamed(u)' <=> CallNamed(u))
    BY <1>1, <1>6 DEF UseRight, CallNamed, HomeInOrder, VariableOf
  <2> QED
    BY <1>1, <2>1 DEF TInv, UsesRight
<1>9. FunctionsMade'
  <2>1. \A f : /\ Naming(f)' = Naming(f) /\ (Unvisited(f)' <=> Unvisited(f))
               /\ (InModule(f)' <=> InModule(f))
    BY <1>1 DEF Naming, Unvisited, HasElse, IfOf, Balanced, InModule, NameOf
  <2> QED
    BY <1>1, <2>1 DEF TInv, FunctionsMade, Doomed
<1> QED
  BY <1>2, <1>3, <1>4, <1>5, <1>7, <1>8, <1>9 DEF TInv

LEMMA TranslationStep ==
  ASSUME GInv, TInv, ReferencesHold, [GenNext]_allvars
  PROVE  TInv'
<1>1. CASE (DeclPass \/ RefPass) /\ UNCHANGED genvars
  <2>1. Beginning' /\ Known' /\ UsesOnly' /\ AllDeclared'
    BY <1>1, BeginningStays, KnownStays, UsesOnlyStays, AllDeclaredStays DEF TInv
  <2>2. pass' # "gen" /\ ~ generated' /\ module' = [n \in Name |-> Absent]
    BY <1>1, PassSteps DEF TInv, Beginning, genvars, RefDone
  <2>3. ArgsSkipped' /\ StorageRight' /\ FunctionsMade'
    BY <2>2 DEF ArgsSkipped, StorageRight, FunctionsMade
  <2>4. UsesRight'
    BY <2>2 DEF UsesRight, Absent
  <2> QED
    BY <2>1, <2>3, <2>4 DEF TInv
<1>2. CASE GenPass
  <2>1. Beginning' /\ Known' /\ UsesOnly' /\ AllDeclared'
    BY <1>2, AnalysisStands DEF TInv
  <2>2. ArgsSkipped' /\ StorageRight' /\ UsesRight' /\ FunctionsMade'
    BY <1>2, ArgumentsAreSkipped, StorageStays, UsesStay, FunctionsStay DEF TInv
  <2> QED
    BY <2>1, <2>2 DEF TInv
<1>3. CASE UNCHANGED allvars
  BY <1>3, TranslationStutter
<1> QED
  BY <1>1, <1>2, <1>3 DEF GenNext, GenEnded

(* What the generator finds and makes, at every moment and for every set   *)
(* of programs: the storage of an entry is that of the function around the *)
(* declaration that made the entry, an instruction refers to the storage   *)
(* of the declaration that the scoping rules give its variable, and the    *)
(* module has each function that was visited under the name behind it      *)
(* (LlvmIrGenerator.cpp:77, :131, :193, :386).                             *)
THEOREM TranslationIsRight == GenSpec => []TInv
<1>1. GenInit => TInv
  BY TranslationBegins
<1>2. GInv /\ ReferencesHold /\ TInv /\ [GenNext]_allvars => TInv'
  BY TranslationStep
<1> QED
  BY <1>1, <1>2, GenInvariant, GeneratorReferencesHold, PTL DEF GenSpec

(* SymbolsExist holds: visitArgument and visitAssignName dereference what  *)
(* get finds without a test (LlvmIrGenerator.cpp:151, :193), and it does   *)
(* find an entry, in every vector that is in source order.                 *)
THEOREM SymbolsDoExist == GenSpec => []SymbolsExist
<1>1. TInv => SymbolsExist
  BY SlotsExist
<1> QED
  BY <1>1, TranslationIsRight, PTL

(* SlotsNotShared holds: no later declaration, argument or function takes  *)
(* the storage that a declaration was given (LlvmIrGenerator.cpp:166,      *)
(* :194), in whatever order the walk meets them, where the vector is in    *)
(* source order.                                                           *)
THEOREM SlotsAreNotShared == GenSpec => SlotsNotShared
<1>1. GInv /\ TInv /\ [GenNext]_allvars => [SetOnce]_storage
  <2> SUFFICES ASSUME GInv, TInv, [GenNext]_allvars PROVE [SetOnce]_storage
    OBVIOUS
  <2>1. CASE GenPass
    BY <2>1, StorageOnce
  <2>2. CASE UNCHANGED genvars
    BY <2>2 DEF genvars
  <2> QED
    BY <2>1, <2>2 DEF GenNext, GenEnded, allvars
<1> QED
  BY <1>1, GenInvariant, TranslationIsRight, PTL DEF GenSpec, SlotsNotShared

(* StorageAsResolved holds: what a body loads, stores or takes is of the   *)
(* function that declares the variable by the scoping rules, or of the     *)
(* constructor's value (LlvmIrGenerator.cpp:125, :187, :290).              *)
THEOREM StorageIsAsResolved == GenSpec => []StorageAsResolved
<1>1. TInv => StorageAsResolved
  BY UsesAgree
<1> QED
  BY <1>1, TranslationIsRight, PTL

(* CallsAsResolved holds: although the generator finds functions by the    *)
(* last part of a name alone (LlvmIrGenerator.cpp:386), a call calls the   *)
(* function that its name means by the scoping rules, in every program     *)
(* that is translated without an error.                                    *)
THEOREM CallsAreAsResolved == GenSpec => []CallsAsResolved
<1>1. GInv /\ TInv => CallsAsResolved
  BY CallsRight
<1> QED
  BY <1>1, GenInvariant, TranslationIsRight, PTL
=============================================================================
