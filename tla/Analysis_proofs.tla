-------------------------- MODULE Analysis_proofs --------------------------
(***************************************************************************)
(* Theorems about the analysis, for every set of programs.                 *)
(***************************************************************************)
EXTENDS Analysis, Structures_proofs

(* The inductive invariant: type correctness needs ScopesAnnotated, since  *)
(* VarRefPass enters the table it finds in locals.                         *)
IInv == TypeOK /\ ParentsPrecede /\ KeywordsIntact /\ ScopesAnnotated

-----------------------------------------------------------------------------
(* The table operations.                                                   *)

(* Binding one name of a table leaves its other names and fields alone. *)
LEMMA BindOne ==
  ASSUME NEW t \in Table, NEW n \in Name, NEW b \in Binding
  PROVE  LET u == [t EXCEPT !.symbols[n] = b] IN
         /\ u \in Table
         /\ u.self_index = t.self_index
         /\ u.parent = t.parent
         /\ u.symbols[n] = b
         /\ \A k \in Name \ {n} : u.symbols[k] = t.symbols[k]
<1> DEFINE bound == [t.symbols EXCEPT ![n] = b]
<1>1. t.symbols \in [Name -> Binding]
  BY DEF Table
<1>2. /\ bound \in [Name -> Binding] /\ bound[n] = b
      /\ \A k \in Name \ {n} : bound[k] = t.symbols[k]
  BY <1>1
<1>3. [t EXCEPT !.symbols[n] = b] = [t EXCEPT !.symbols = bound]
  OBVIOUS
<1> HIDE DEF bound
<1>4. /\ [t EXCEPT !.symbols = bound] \in Table
      /\ [t EXCEPT !.symbols = bound].self_index = t.self_index
      /\ [t EXCEPT !.symbols = bound].parent = t.parent
      /\ [t EXCEPT !.symbols = bound].symbols = bound
  BY <1>2 DEF Table
<1> QED
  BY <1>2, <1>3, <1>4

LEMMA Keywords == "self" \in Name /\ "super" \in Name /\ "self" # "super"
  BY NameAssumption

(* A new table is a table that binds self to itself, and nothing else. *)
LEMMA NewTableIsTable ==
  ASSUME NEW s \in Nat, NEW c \in ScopingContext
  PROVE  /\ NewTable(s, c) \in Table
         /\ NewTable(s, c).self_index = s
         /\ NewTable(s, c).parent = None
         /\ NewTable(s, c).symbols["self"] = IndexTo(s)
         /\ \A n \in Name \ {"self"} : NewTable(s, c).symbols[n] = Unbound
<1> DEFINE empty == [self_index |-> s, parent |-> None, symbols |-> [n \in Name |-> Unbound],
                     argument_set |-> {}, scope_context |-> c]
<1>1. Unbound \in Binding /\ IndexTo(s) \in Binding
  BY DEF Unbound, IndexTo, Binding, None
<1>2. /\ empty \in Table /\ empty.self_index = s /\ empty.parent = None
      /\ \A n \in Name : empty.symbols[n] = Unbound
  BY <1>1 DEF Table, None
<1>3. CanBind(empty, "self", "index")
  BY <1>2, Keywords DEF CanBind, Unbound
<1>4. NewTable(s, c) = [empty EXCEPT !.symbols["self"] = IndexTo(s)]
  BY <1>3 DEF NewTable, InsertIndex
<1> HIDE DEF empty
<1> QED
  BY <1>1, <1>2, <1>4, BindOne, Keywords

(* setParent binds super in a table that has not bound it. *)
LEMMA SetParentIsTable ==
  ASSUME NEW t \in Table, NEW p \in Nat, t.symbols["super"] = Unbound
  PROVE  /\ SetParent(t, p) \in Table
         /\ SetParent(t, p).self_index = t.self_index
         /\ SetParent(t, p).parent = p
         /\ SetParent(t, p).symbols["super"] = IndexTo(p)
         /\ \A n \in Name \ {"super"} : SetParent(t, p).symbols[n] = t.symbols[n]
<1> DEFINE u == [t EXCEPT !.symbols["super"] = IndexTo(p)]
<1>1. IndexTo(p) \in Binding
  BY DEF IndexTo, Binding
<1>2. SetParent(t, p) = [u EXCEPT !.parent = p]
  BY DEF SetParent, InsertIndex, CanBind, Unbound
<1>3. /\ u \in Table /\ u.self_index = t.self_index
      /\ u.symbols["super"] = IndexTo(p)
      /\ \A n \in Name \ {"super"} : u.symbols[n] = t.symbols[n]
  BY <1>1, BindOne, Keywords
<1> HIDE DEF u
<1> QED
  BY <1>2, <1>3 DEF Table

(* A declaration changes nothing but the vector of its name: what is bound
   to a table stays so. *)
LEMMA InsertKeeps ==
  ASSUME NEW t \in Table, NEW n \in Name, NEW info \in SymbolInfo
  PROVE  /\ Insert(t, n, info) \in Table
         /\ Insert(t, n, info).self_index = t.self_index
         /\ Insert(t, n, info).parent = t.parent
         /\ \A k \in Name : "index" \in {t.symbols[k].kind, Insert(t, n, info).symbols[k].kind}
                              => Insert(t, n, info).symbols[k] = t.symbols[k]
<1> DEFINE b == [kind |-> "ssa", index |-> None, decls |-> Append(t.symbols[n].decls, info)]
<1>1. t.symbols[n] \in Binding
  BY DEF Table
<1>2. b \in Binding /\ b.kind = "ssa"
  <2>1. t.symbols[n].decls \in Seq(SymbolInfo)
    BY <1>1 DEF Binding
  <2>2. ASSUME NEW d \in Seq(SymbolInfo)
        PROVE  Append(d, info) \in Seq(SymbolInfo) /\ Append(d, info) # <<>>
    <3>1. /\ Append(d, info) \in Seq(SymbolInfo) /\ Len(d) \in Nat
          /\ Len(Append(d, info)) = Len(d) + 1
      OBVIOUS
    <3>2. Len(Append(d, info)) # 0
      BY <3>1
    <3> QED
      BY <3>1, <3>2
  <2>3. b.decls \in Seq(SymbolInfo) /\ b.decls # <<>>
    BY <2>1, <2>2
  <2> QED
    BY <2>3 DEF Binding, None
<1>3. Insert(t, n, info) = IF CanBind(t, n, "ssa") THEN [t EXCEPT !.symbols[n] = b] ELSE t
  BY DEF Insert
<1> HIDE DEF b
<1>4. CASE CanBind(t, n, "ssa")
  <2>1. t.symbols[n].kind # "index"
    BY <1>4 DEF CanBind
  <2> QED
    BY <1>2, <1>3, <1>4, <2>1, BindOne
<1>5. CASE ~ CanBind(t, n, "ssa")
  BY <1>3, <1>5
<1> QED
  BY <1>4, <1>5

LEMMA InsertArgKeeps ==
  ASSUME NEW t \in Table, NEW n \in Name, NEW info \in SymbolInfo
  PROVE  /\ InsertArg(t, n, info) \in Table
         /\ InsertArg(t, n, info).self_index = t.self_index
         /\ InsertArg(t, n, info).parent = t.parent
         /\ \A k \in Name : "index" \in {t.symbols[k].kind, InsertArg(t, n, info).symbols[k].kind}
                              => InsertArg(t, n, info).symbols[k] = t.symbols[k]
<1> DEFINE u == [t EXCEPT !.argument_set = @ \cup {n}]
<1>1. /\ u \in Table /\ u.self_index = t.self_index /\ u.parent = t.parent
      /\ u.symbols = t.symbols
  BY DEF Table
<1>2. InsertArg(t, n, info) = IF Exists(t, n) THEN t ELSE Insert(u, n, info)
  BY DEF InsertArg
<1> HIDE DEF u
<1>3. CASE Exists(t, n)
  BY <1>2, <1>3
<1>4. CASE ~ Exists(t, n)
  <2>1. /\ Insert(u, n, info) \in Table
        /\ Insert(u, n, info).self_index = u.self_index
        /\ Insert(u, n, info).parent = u.parent
        /\ \A k \in Name : "index" \in {u.symbols[k].kind, Insert(u, n, info).symbols[k].kind}
                            => Insert(u, n, info).symbols[k] = u.symbols[k]
    BY <1>1, InsertKeeps
  <2> QED
    BY <1>1, <1>2, <1>4, <2>1
<1> QED
  BY <1>3, <1>4

(* A step that changes one table only by declarations keeps the arena what
   the invariant says it is. *)
LEMMA ArenaAfterDeclaration ==
  ASSUME arena \in Seq(Table), current \in DOMAIN arena, ParentsPrecede, KeywordsIntact,
         NEW u \in Table, arena' = [arena EXCEPT ![current] = u],
         u.self_index = arena[current].self_index, u.parent = arena[current].parent,
         \A k \in Name : "index" \in {arena[current].symbols[k].kind, u.symbols[k].kind}
                           => u.symbols[k] = arena[current].symbols[k]
  PROVE  arena' \in Seq(Table) /\ DOMAIN arena' = DOMAIN arena
         /\ ParentsPrecede' /\ KeywordsIntact'
<1>1. arena' \in Seq(Table) /\ DOMAIN arena' = DOMAIN arena /\ Len(arena') = Len(arena)
  OBVIOUS
<1>2. \A t \in DOMAIN arena : arena'[t] = IF t = current THEN u ELSE arena[t]
  OBVIOUS
<1>3. ParentsPrecede'
  BY <1>1, <1>2 DEF ParentsPrecede
<1>4. "self" \in Name /\ "super" \in Name
  BY NameAssumption
<1>5. KeywordsIntact'
  <2> SUFFICES ASSUME NEW t \in DOMAIN arena
               PROVE  /\ arena'[t].self_index = t
                      /\ arena'[t].symbols["self"] = IndexTo(t)
                      /\ t # GlobalSymIndex
                           => arena'[t].symbols["super"] = IndexTo(arena'[t].parent)
                      /\ \A n \in Name : arena'[t].symbols[n].kind = "index" =>
                           n = "self" \/ (n = "super" /\ t # GlobalSymIndex)
    BY <1>1 DEF KeywordsIntact
  <2>1. /\ arena[t].self_index = t
        /\ arena[t].symbols["self"] = IndexTo(t)
        /\ t # GlobalSymIndex => arena[t].symbols["super"] = IndexTo(arena[t].parent)
        /\ \A n \in Name : arena[t].symbols[n].kind = "index" =>
             n = "self" \/ (n = "super" /\ t # GlobalSymIndex)
    BY DEF KeywordsIntact
  <2>2. \A i : IndexTo(i).kind = "index"
    BY DEF IndexTo
  <2>3. CASE t # current
    BY <1>2, <2>1, <2>3
  <2>4. CASE t = current
    <3>1. arena'[t] = u
      BY <1>2, <2>4
    <3>2. u.symbols["self"] = IndexTo(t)
      BY <1>4, <2>1, <2>2, <2>4
    <3>3. t # GlobalSymIndex => u.symbols["super"] = IndexTo(u.parent)
      BY <1>4, <2>1, <2>2, <2>4
    <3>4. \A n \in Name : u.symbols[n].kind = "index" =>
            n = "self" \/ (n = "super" /\ t # GlobalSymIndex)
      BY <2>1, <2>4
    <3> QED
      BY <2>1, <2>4, <3>1, <3>2, <3>3, <3>4
  <2> QED
    BY <2>3, <2>4
<1> QED
  BY <1>1, <1>3, <1>5

(* A table allocated below the current one leaves the others alone. *)
LEMMA ArenaAfterAllocation ==
  ASSUME arena \in Seq(Table), current \in DOMAIN arena, ParentsPrecede, KeywordsIntact,
         NEW c \in ScopingContext, arena' = Allocated(c)
  PROVE  /\ arena' \in Seq(Table)
         /\ Len(arena') = Len(arena) + 1
         /\ DOMAIN arena \subseteq DOMAIN arena'
         /\ Len(arena) + 1 \in DOMAIN arena'
         /\ ParentsPrecede' /\ KeywordsIntact'
<1> DEFINE new == SetParent(NewTable(Len(arena) + 1, c), current)
<1>1. /\ Len(arena) \in Nat /\ Len(arena) + 1 \in Nat /\ current \in Nat
      /\ DOMAIN arena = 1 .. Len(arena)
  OBVIOUS
<1>2. /\ NewTable(Len(arena) + 1, c) \in Table
      /\ NewTable(Len(arena) + 1, c).self_index = Len(arena) + 1
      /\ NewTable(Len(arena) + 1, c).symbols["self"] = IndexTo(Len(arena) + 1)
      /\ \A n \in Name \ {"self"} : NewTable(Len(arena) + 1, c).symbols[n] = Unbound
  BY <1>1, NewTableIsTable
<1>3. /\ new \in Table
      /\ new.self_index = Len(arena) + 1
      /\ new.parent = current
      /\ new.symbols["super"] = IndexTo(current)
      /\ new.symbols["self"] = IndexTo(Len(arena) + 1)
      /\ \A n \in Name \ {"self", "super"} : new.symbols[n] = Unbound
  BY <1>1, <1>2, SetParentIsTable, Keywords
<1>4. arena' = Append(arena, new)
  BY DEF Allocated
<1> HIDE DEF new
<1>5. /\ arena' \in Seq(Table) /\ Len(arena') = Len(arena) + 1
      /\ DOMAIN arena' = 1 .. Len(arena) + 1
      /\ \A t \in DOMAIN arena : arena'[t] = arena[t]
      /\ arena'[Len(arena) + 1] = new
  BY <1>1, <1>3, <1>4
<1>6. ParentsPrecede'
  <2>1. Len(arena) > 0
    BY DEF ParentsPrecede
  <2>2. arena'[Len(arena) + 1].parent \in 1 .. (Len(arena) + 1) - 1
    BY <1>1, <1>3, <1>5
  <2> QED
    BY <1>1, <1>5, <2>1, <2>2 DEF ParentsPrecede, GlobalSymIndex
<1>7. KeywordsIntact'
  BY <1>1, <1>3, <1>5 DEF KeywordsIntact, Unbound, GlobalSymIndex
<1> QED
  BY <1>1, <1>5, <1>6, <1>7

-----------------------------------------------------------------------------
(* The walk.                                                               *)

Frame == [node : Nat, current : DOMAIN arena, context : ScopingContext]

(* Frames stay frames when the arena grows: it only gains indices. *)
LEMMA FramesKept ==
  ASSUME frames \in Seq(Frame), DOMAIN arena \subseteq DOMAIN arena'
  PROVE  frames \in Seq(Frame')
<1>1. Frame \subseteq Frame'
  BY DEF Frame
<1>2. \A i \in 1 .. Len(frames) : frames[i] \in Frame'
  BY <1>1
<1> QED
  BY <1>2

LEMMA Entered ==
  ASSUME TypeOK, DOMAIN arena \subseteq DOMAIN arena', Enter
  PROVE  frames' \in Seq(Frame')
<1> DEFINE saved == [node |-> pc, current |-> current, context |-> context]
<1>1. frames \in Seq(Frame) /\ saved \in Frame'
  BY DEF TypeOK, Frame
<1>2. frames \in Seq(Frame')
  BY <1>1, FramesKept
<1>3. frames' = <<saved>> \o frames
  BY DEF Enter
<1> HIDE DEF saved
<1> QED
  BY <1>1, <1>2, <1>3

LEMMA Left ==
  ASSUME TypeOK, DOMAIN arena \subseteq DOMAIN arena', Leave
  PROVE  /\ frames' \in Seq(Frame')
         /\ Head(frames).current \in DOMAIN arena
         /\ Head(frames).context \in ScopingContext
<1>1. frames \in Seq(Frame) /\ frames # <<>> /\ frames' = Tail(frames)
  BY DEF TypeOK, Leave, Frame
<1>2. frames \in Seq(Frame')
  BY <1>1, FramesKept
<1>3. frames' \in Seq(Frame')
  BY <1>1, <1>2
<1>4. Head(frames) \in Frame
  BY <1>1
<1> QED
  BY <1>3, <1>4 DEF Frame

(* What a step from one event to the next has to keep. *)
LEMMA Walked ==
  ASSUME IInv, Continue, pc \in DOMAIN ast, pass \in {"decl", "ref"},
         arena' \in Seq(Table), ParentsPrecede', KeywordsIntact',
         current' \in DOMAIN arena', context' \in ScopingContext,
         frames' \in Seq(Frame'),
         locals' \in [DOMAIN ast -> {None} \cup DOMAIN arena'],
         def_table' \in [DOMAIN ast -> {None} \cup DOMAIN arena'],
         diagnosed' \subseteq [event : DOMAIN ast, what : Diagnosis],
         \A i \in DOMAIN ast : locals[i] # None => locals'[i] # None,
         pass = "decl" /\ ast[pc].op \in {"block", "in"} => locals'[pc] # None
  PROVE  IInv'
<1>1. ast' = ast /\ pass' = pass /\ pc' = pc + 1 /\ inputs' = inputs
  BY DEF Continue
<1>2. ast \in Seq(Event) /\ pc \in 1 .. Len(ast) /\ DOMAIN ast = 1 .. Len(ast)
  BY DEF IInv, TypeOK
<1>3. TypeOK'
  <2>1. pc' \in 1 .. Len(ast') + 1
    BY <1>1, <1>2
  <2>2. WellLinked(ast')
    BY <1>1 DEF IInv, TypeOK
  <2> QED
    BY <1>1, <2>1, <2>2 DEF IInv, TypeOK, Frame
<1>4. ScopesAnnotated'
  <2>1. CASE pass = "decl"
    <3>1. \A i \in 1 .. pc - 1 : i \in DOMAIN ast
      BY <1>2
    <3>2. 1 .. pc' - 1 = (1 .. pc - 1) \cup {pc}
      BY <1>1, <1>2
    <3> QED
      BY <1>1, <2>1, <3>1, <3>2 DEF IInv, ScopesAnnotated
  <2>2. CASE pass = "ref"
    BY <1>1, <2>2 DEF IInv, ScopesAnnotated
  <2> QED
    BY <2>1, <2>2
<1> QED
  BY <1>3, <1>4 DEF IInv

(* A step that leaves the arena and the annotations of scopes alone. *)
LEMMA WalkedInPlace ==
  ASSUME IInv, Continue, pc \in DOMAIN ast, pass \in {"decl", "ref"},
         arena' = arena, locals' = locals,
         pass = "decl" => ast[pc].op \notin {"block", "in"},
         current' \in DOMAIN arena, context' \in ScopingContext,
         frames' \in Seq(Frame'),
         def_table' \in [DOMAIN ast -> {None} \cup DOMAIN arena],
         diagnosed' \subseteq [event : DOMAIN ast, what : Diagnosis]
  PROVE  IInv'
<1>1. ParentsPrecede' /\ KeywordsIntact'
  BY DEF IInv, ParentsPrecede, KeywordsIntact
<1>2. arena' \in Seq(Table) /\ locals' \in [DOMAIN ast -> {None} \cup DOMAIN arena']
  BY DEF IInv, TypeOK
<1> QED
  BY <1>1, <1>2, Walked

(* A step that allocates a table and enters it in the annotation of the
   scope at event s. *)
LEMMA WalkedIntoNew ==
  ASSUME IInv, Continue, pc \in DOMAIN ast, pass = "decl", Enter,
         NEW s \in DOMAIN ast, locals' = [locals EXCEPT ![s] = Len(arena) + 1],
         ast[pc].op \in {"block", "in"} => s = pc,
         NEW c \in ScopingContext, arena' = Allocated(c),
         current' \in {current, Len(arena) + 1}, context' \in ScopingContext,
         UNCHANGED <<def_table, diagnosed>>
  PROVE  IInv'
<1>1. arena \in Seq(Table) /\ current \in DOMAIN arena /\ ParentsPrecede /\ KeywordsIntact
  BY DEF IInv, TypeOK
<1>2. /\ arena' \in Seq(Table) /\ DOMAIN arena \subseteq DOMAIN arena'
      /\ Len(arena) + 1 \in DOMAIN arena' /\ ParentsPrecede' /\ KeywordsIntact'
  BY <1>1, ArenaAfterAllocation
<1>3. frames' \in Seq(Frame')
  BY <1>2, Entered DEF IInv
<1>4. Len(arena) + 1 # None
  BY <1>1 DEF None
<1>5. /\ locals' \in [DOMAIN ast -> {None} \cup DOMAIN arena']
      /\ locals'[s] # None
      /\ \A i \in DOMAIN ast : locals[i] # None => locals'[i] # None
  BY <1>2, <1>4 DEF IInv, TypeOK
<1>6. /\ def_table' \in [DOMAIN ast -> {None} \cup DOMAIN arena']
      /\ diagnosed' \subseteq [event : DOMAIN ast, what : Diagnosis]
  BY <1>2 DEF IInv, TypeOK
<1> QED
  BY <1>1, <1>2, <1>3, <1>5, <1>6, Walked

(* A step that declares a name in the current table. *)
LEMMA WalkedDeclaring ==
  ASSUME IInv, Continue, pc \in DOMAIN ast, pass = "decl",
         ast[pc].op \notin {"block", "in"},
         NEW u \in Table, arena' = [arena EXCEPT ![current] = u],
         u.self_index = arena[current].self_index, u.parent = arena[current].parent,
         \A k \in Name : "index" \in {arena[current].symbols[k].kind, u.symbols[k].kind}
                           => u.symbols[k] = arena[current].symbols[k],
         diagnosed' \subseteq [event : DOMAIN ast, what : Diagnosis],
         UNCHANGED <<current, context, frames, locals, def_table>>
  PROVE  IInv'
<1>1. arena \in Seq(Table) /\ current \in DOMAIN arena /\ ParentsPrecede /\ KeywordsIntact
  BY DEF IInv, TypeOK
<1>2. arena' \in Seq(Table) /\ DOMAIN arena' = DOMAIN arena /\ ParentsPrecede' /\ KeywordsIntact'
  BY <1>1, ArenaAfterDeclaration
<1>3. frames' \in Seq(Frame')
  BY <1>2, FramesKept DEF IInv, TypeOK, Frame
<1>4. /\ locals' \in [DOMAIN ast -> {None} \cup DOMAIN arena']
      /\ def_table' \in [DOMAIN ast -> {None} \cup DOMAIN arena']
      /\ current' \in DOMAIN arena' /\ context' \in ScopingContext
  BY <1>2 DEF IInv, TypeOK
<1> QED
  BY <1>1, <1>2, <1>3, <1>4, Walked

(* What the walk is when an action of an event is taken. *)
LEMMA AtEvent ==
  ASSUME IInv, NEW p \in {"decl", "ref"}, NEW op \in Op, At(p, op)
  PROVE  /\ pass = p /\ pass \in {"decl", "ref"} /\ pc \in DOMAIN ast /\ ast[pc].op = op
         /\ DOMAIN arena \subseteq DOMAIN arena
         /\ current \in DOMAIN arena /\ context \in ScopingContext
         /\ frames \in Seq(Frame)
         /\ def_table \in [DOMAIN ast -> {None} \cup DOMAIN arena]
         /\ locals \in [DOMAIN ast -> {None} \cup DOMAIN arena]
         /\ diagnosed \subseteq [event : DOMAIN ast, what : Diagnosis]
  BY DEF IInv, TypeOK, At, Frame

(* Errors are logged for the event visited. *)
LEMMA Reported ==
  ASSUME IInv, pc \in DOMAIN ast, NEW what \in Diagnosis, Report(pc, what)
  PROVE  diagnosed' \subseteq [event : DOMAIN ast, what : Diagnosis]
  BY DEF Report, IInv, TypeOK

(* Arguments and names have one part, which is an identifier. *)
LEMMA OneName ==
  ASSUME IInv, pc \in DOMAIN ast, ast[pc].op \in {"declare", "name", "arg"}
  PROVE  /\ ast[pc].path[1] \in Name
         /\ \A m \in BOOLEAN : [src |-> ast[pc].loc, is_mut |-> m] \in SymbolInfo
         /\ ast[pc].mut \in BOOLEAN
<1>1. ast[pc] \in Event
  BY DEF IInv, TypeOK
<1>2. ast[pc].path[1] \in Name
  BY DEF IInv, TypeOK, WellLinked
<1>3. ast[pc].loc \in Location /\ ast[pc].mut \in BOOLEAN
  BY <1>1 DEF Event
<1> QED
  BY <1>2, <1>3 DEF SymbolInfo

-----------------------------------------------------------------------------
(* VarDeclPass preserves the invariant.                                    *)

LEMMA DeclScopes ==
  ASSUME IInv, DeclFunction \/ DeclBlock \/ DeclInAssign
  PROVE  IInv'
<1>1. CASE DeclFunction
  <2>1. /\ At("decl", "fn") /\ Enter /\ Continue
        /\ locals' = [locals EXCEPT ![pc + ast[pc].link] = Len(arena) + 1]
        /\ context' = "SCOPE" /\ arena' = Allocated("SCOPE")
        /\ UNCHANGED <<current, def_table, diagnosed>>
    BY <1>1 DEF DeclFunction
  <2>2. pass = "decl" /\ pc \in DOMAIN ast /\ ast[pc].op = "fn"
    BY <2>1, AtEvent DEF Op
  <2>3. pc + ast[pc].link \in DOMAIN ast
    BY <2>2 DEF IInv, TypeOK, WellLinked
  <2> QED
    BY <2>1, <2>2, <2>3, WalkedIntoNew DEF ScopingContext
<1>2. CASE DeclInAssign
  <2>1. /\ At("decl", "in") /\ Enter /\ Continue
        /\ locals' = [locals EXCEPT ![pc] = Len(arena) + 1]
        /\ current' = Len(arena) + 1 /\ context' = "SCOPE" /\ arena' = Allocated("SCOPE")
        /\ UNCHANGED <<def_table, diagnosed>>
    BY <1>2 DEF DeclInAssign
  <2>2. pass = "decl" /\ pc \in DOMAIN ast
    BY <2>1, AtEvent DEF Op
  <2> QED
    BY <2>1, <2>2, WalkedIntoNew DEF ScopingContext
<1>3. CASE DeclBlock
  <2>1. At("decl", "block") /\ Enter /\ Continue /\ UNCHANGED <<context, def_table, diagnosed>>
    BY <1>3 DEF DeclBlock
  <2>2. pass = "decl" /\ pc \in DOMAIN ast /\ context \in ScopingContext
    BY <2>1, AtEvent DEF Op
  <2>3. CASE locals[pc] = None
    <3>1. /\ locals' = [locals EXCEPT ![pc] = Len(arena) + 1]
          /\ current' = Len(arena) + 1 /\ arena' = Allocated(context)
      BY <1>3, <2>3 DEF DeclBlock
    <3> QED
      BY <2>1, <2>2, <3>1, WalkedIntoNew
  <2>4. CASE locals[pc] # None
    <3>1. current' = locals[pc] /\ UNCHANGED <<arena, locals>>
      BY <1>3, <2>4 DEF DeclBlock
    <3>2. arena' \in Seq(Table) /\ ParentsPrecede' /\ KeywordsIntact'
      BY <3>1 DEF IInv, TypeOK, ParentsPrecede, KeywordsIntact
    <3>3. frames' \in Seq(Frame')
      BY <2>1, <3>1, Entered DEF IInv
    <3>4. /\ current' \in DOMAIN arena' /\ context' \in ScopingContext
          /\ locals' \in [DOMAIN ast -> {None} \cup DOMAIN arena']
          /\ def_table' \in [DOMAIN ast -> {None} \cup DOMAIN arena']
          /\ diagnosed' \subseteq [event : DOMAIN ast, what : Diagnosis]
      BY <2>1, <2>2, <2>4, <3>1 DEF IInv, TypeOK
    <3> QED
      BY <2>1, <2>2, <2>4, <3>1, <3>2, <3>3, <3>4, Walked
  <2> QED
    BY <2>3, <2>4
<1> QED
  BY <1>1, <1>2, <1>3

LEMMA DeclNames ==
  ASSUME IInv, DeclArgument \/ DeclAssignName
  PROVE  IInv'
<1>1. arena \in Seq(Table) /\ current \in DOMAIN arena /\ arena[current] \in Table
  BY DEF IInv, TypeOK
<1>2. CASE DeclArgument
  <2> DEFINE n == ast[pc].path[1]
             info == [src |-> ast[pc].loc, is_mut |-> FALSE]
             u == InsertArg(arena[current], n, info)
  <2>1. /\ At("decl", "arg") /\ Continue
        /\ arena' = [arena EXCEPT ![current] = u]
        /\ Report(pc, "argument") \/ UNCHANGED diagnosed
        /\ UNCHANGED <<current, context, frames, locals, def_table>>
    BY <1>2 DEF DeclArgument
  <2>2. /\ pass = "decl" /\ pc \in DOMAIN ast /\ ast[pc].op = "arg"
        /\ diagnosed \subseteq [event : DOMAIN ast, what : Diagnosis]
    BY <2>1, AtEvent DEF Op
  <2>3. n \in Name /\ info \in SymbolInfo
    BY <2>2, OneName
  <2>4. diagnosed' \subseteq [event : DOMAIN ast, what : Diagnosis]
    BY <2>1, <2>2, Reported DEF Diagnosis
  <2> HIDE DEF n, info
  <2>5. /\ u \in Table
        /\ u.self_index = arena[current].self_index /\ u.parent = arena[current].parent
        /\ \A k \in Name : "index" \in {arena[current].symbols[k].kind, u.symbols[k].kind}
                             => u.symbols[k] = arena[current].symbols[k]
    BY <1>1, <2>3, InsertArgKeeps
  <2> HIDE DEF u
  <2> QED
    BY <2>1, <2>2, <2>4, <2>5, WalkedDeclaring
<1>3. CASE DeclAssignName
  <2> DEFINE n == ast[pc].path[1]
             info == [src |-> ast[pc].loc, is_mut |-> ast[pc].mut]
             u == Insert(arena[current], n, info)
  <2>1. /\ At("decl", "declare") \/ At("decl", "name")
        /\ Continue
        /\ arena' = [arena EXCEPT ![current] = u]
        /\ Report(pc, "binding") \/ UNCHANGED diagnosed
        /\ UNCHANGED <<current, context, frames, locals, def_table>>
    BY <1>3 DEF DeclAssignName
  <2>2. /\ pass = "decl" /\ pc \in DOMAIN ast /\ ast[pc].op \in {"declare", "name"}
        /\ diagnosed \subseteq [event : DOMAIN ast, what : Diagnosis]
    BY <2>1, AtEvent DEF Op
  <2>3. n \in Name /\ info \in SymbolInfo
    BY <2>2, OneName
  <2>4. diagnosed' \subseteq [event : DOMAIN ast, what : Diagnosis]
    BY <2>1, <2>2, Reported DEF Diagnosis
  <2> HIDE DEF n, info
  <2>5. /\ u \in Table
        /\ u.self_index = arena[current].self_index /\ u.parent = arena[current].parent
        /\ \A k \in Name : "index" \in {arena[current].symbols[k].kind, u.symbols[k].kind}
                             => u.symbols[k] = arena[current].symbols[k]
    BY <1>1, <2>3, InsertKeeps
  <2> HIDE DEF u
  <2> QED
    BY <2>1, <2>2, <2>4, <2>5, WalkedDeclaring
<1> QED
  BY <1>2, <1>3

(* Steps that only move the members of the pass: into a node, out of it,
   or past it. *)
LEMMA Entering ==
  ASSUME IInv, Enter, Continue, NEW p \in {"decl", "ref"}, NEW op \in Op, At(p, op),
         p = "decl" => op \notin {"block", "in"},
         current' \in DOMAIN arena, context' \in ScopingContext,
         UNCHANGED <<arena, locals, def_table, diagnosed>>
  PROVE  IInv'
<1>1. frames' \in Seq(Frame')
  BY Entered DEF IInv
<1>2. /\ pass \in {"decl", "ref"} /\ pc \in DOMAIN ast
      /\ pass = "decl" => ast[pc].op \notin {"block", "in"}
      /\ def_table' \in [DOMAIN ast -> {None} \cup DOMAIN arena]
      /\ diagnosed' \subseteq [event : DOMAIN ast, what : Diagnosis]
  BY AtEvent
<1> QED
  BY <1>1, <1>2, WalkedInPlace

LEMMA Leaving ==
  ASSUME IInv, Leave, Continue, NEW p \in {"decl", "ref"}, NEW op \in Op, At(p, op),
         p = "decl" => op \notin {"block", "in"},
         current' \in {current, Head(frames).current},
         context' \in {context, Head(frames).context},
         UNCHANGED <<arena, locals, def_table, diagnosed>>
  PROVE  IInv'
<1>1. /\ frames' \in Seq(Frame')
      /\ Head(frames).current \in DOMAIN arena
      /\ Head(frames).context \in ScopingContext
  BY Left DEF IInv
<1>2. /\ pass \in {"decl", "ref"} /\ pc \in DOMAIN ast
      /\ current \in DOMAIN arena /\ context \in ScopingContext
      /\ pass = "decl" => ast[pc].op \notin {"block", "in"}
      /\ def_table' \in [DOMAIN ast -> {None} \cup DOMAIN arena]
      /\ diagnosed' \subseteq [event : DOMAIN ast, what : Diagnosis]
  BY AtEvent
<1>3. current' \in DOMAIN arena /\ context' \in ScopingContext
  BY <1>1, <1>2
<1> QED
  BY <1>1, <1>2, <1>3, WalkedInPlace

LEMMA Passing ==
  ASSUME IInv, Continue, pass \in {"decl", "ref"}, pc \in DOMAIN ast,
         pass = "decl" => ast[pc].op \notin {"block", "in"},
         def_table' \in [DOMAIN ast -> {None} \cup DOMAIN arena],
         diagnosed' \subseteq [event : DOMAIN ast, what : Diagnosis],
         UNCHANGED <<arena, current, context, frames, locals>>
  PROVE  IInv'
<1>1. frames' \in Seq(Frame')
  BY FramesKept DEF IInv, TypeOK, Frame
<1>2. current' \in DOMAIN arena /\ context' \in ScopingContext
  BY DEF IInv, TypeOK
<1> QED
  BY <1>1, <1>2, WalkedInPlace

LEMMA DeclPassKeeps ==
  ASSUME IInv, DeclPass
  PROVE  IInv'
<1>0. \A op \in {"fn", "endfn", "endin", "type", "endtype", "end"} : op \in Op
  BY DEF Op
<1>1. CASE DeclEndFunction
  BY <1>0, <1>1, Leaving DEF DeclEndFunction
<1>2. CASE DeclEndBlock
  BY <1>0, <1>2, Leaving DEF DeclEndBlock
<1>3. CASE DeclEndInAssign
  BY <1>0, <1>3, Leaving DEF DeclEndInAssign
<1>4. CASE DeclTypeAssign
  BY <1>0, <1>4, Entering DEF DeclTypeAssign, ScopingContext, IInv, TypeOK
<1>5. CASE DeclEndTypeAssign
  BY <1>0, <1>5, Leaving DEF DeclEndTypeAssign
<1>6. CASE DeclOther
  BY <1>6, Passing DEF DeclOther, IInv, TypeOK
<1>7. CASE DeclDone
  <2>1. TypeOK'
    BY <1>7 DEF DeclDone, IInv, TypeOK, ParentsPrecede, GlobalSymIndex, ScopingContext
  <2>2. ScopesAnnotated'
    <3>1. /\ pass = "decl" /\ pc = Len(ast) + 1 /\ pass' = "ref"
          /\ ast' = ast /\ locals' = locals
      BY <1>7 DEF DeclDone
    <3>2. DOMAIN ast = 1 .. Len(ast) /\ Len(ast) \in Nat
      BY DEF IInv, TypeOK
    <3>3. \A i \in 1 .. pc - 1 : ast[i].op \in {"block", "in"} => locals[i] # None
      BY <3>1 DEF IInv, ScopesAnnotated
    <3>4. 1 .. pc - 1 = DOMAIN ast
      BY <3>1, <3>2
    <3> QED
      BY <3>1, <3>3, <3>4 DEF ScopesAnnotated
  <2>3. ParentsPrecede' /\ KeywordsIntact'
    BY <1>7 DEF DeclDone, IInv, ParentsPrecede, KeywordsIntact
  <2> QED
    BY <2>1, <2>2, <2>3 DEF IInv
<1> QED
  BY <1>1, <1>2, <1>3, <1>4, <1>5, <1>6, <1>7, DeclScopes, DeclNames DEF DeclPass

-----------------------------------------------------------------------------
(* VarRefPass preserves the invariant; entering a scope it relies on the   *)
(* annotation that VarDeclPass left.                                       *)

LEMMA RefScopes ==
  ASSUME IInv, RefBlock \/ RefInAssign
  PROVE  IInv'
<1>1. "block" \in Op /\ "in" \in Op
  BY DEF Op
<1>2. current' = locals[pc] /\ pc \in DOMAIN ast /\ ast[pc].op \in {"block", "in"} /\ pass = "ref"
  BY DEF RefBlock, RefInAssign, At
<1>3. locals[pc] \in DOMAIN arena
  BY <1>2 DEF IInv, TypeOK, ScopesAnnotated
<1>4. CASE RefBlock
  BY <1>1, <1>2, <1>3, <1>4, Entering DEF RefBlock, IInv, TypeOK
<1>5. CASE RefInAssign
  BY <1>1, <1>2, <1>3, <1>5, Entering DEF RefInAssign, ScopingContext
<1> QED
  BY <1>4, <1>5

(* What visitVariable logs is one of the diagnoses. *)
LEMMA ReferenceErrors ==
  ASSUME NEW found, NEW path, NEW loc, Reference(found, path, loc).error # "none"
  PROVE  Reference(found, path, loc).error \in Diagnosis
<1> DEFINE got == Get(arena[found.table], path[Len(path)], loc)
<1>1. got.kind \in {"var", "index", "none"}
  BY DEF Get, NotFound
<1>2. Reference(found, path, loc).error \in
        {"undeclared", "none", "nonvarsymbol", "early"}
  <2> DEFINE stopped == Stopped(found, path)
             seen == Exists(arena[found.table], path[Len(path)])
  <2>1. Reference(found, path, loc) =
          CASE stopped -> [table |-> None, error |-> "undeclared"]
            [] ~ stopped /\ got.kind = "var" -> [table |-> found.table, error |-> "none"]
            [] ~ stopped /\ got.kind = "index" -> [table |-> None, error |-> "nonvarsymbol"]
            [] ~ stopped /\ got.kind = "none" ->
                 [table |-> None, error |-> IF seen THEN "early" ELSE "undeclared"]
    BY DEF Reference
  <2> HIDE DEF stopped, seen, got
  <2> QED
    BY <1>1, <2>1
<1> QED
  BY <1>2 DEF Diagnosis

(* What visitBinOpCall objects to is one of the errors. *)
LEMMA Objections ==
  ASSUME NEW target
  PROVE  Objection(target) = "none" \/ Objection(target) \in Diagnosis
<1> DEFINE keyword == ast[target].path[Len(ast[target].path)] \in {"self", "super"}
           unknown == def_table[target] = None
           got == Get(arena[def_table[target]], ast[target].path[Len(ast[target].path)],
                      ast[target].loc)
           fixed == /\ got.kind = "var"
                    /\ ~ arena[def_table[target]].symbols[ast[target].path[Len(ast[target].path)]]
                            .decls[got.at].is_mut
<1>1. Objection(target) = CASE keyword -> "keyword"
                            [] ~ keyword /\ unknown -> "unknown"
                            [] ~ keyword /\ ~ unknown -> IF fixed THEN "immutable" ELSE "none"
  BY DEF Objection
<1> HIDE DEF keyword, unknown, fixed
<1> QED
  BY <1>1 DEF Diagnosis

(* Lookup stays in the arena (ast.cpp:1046): the tables stand below earlier
   ones, and of the names only the keywords are bound to tables. *)
LEMMA ArenaRooted ==
  ASSUME arena \in Seq(Table), ParentsPrecede, KeywordsIntact
  PROVE  Rooted(arena)
<1>1. Len(arena) \in Nat /\ DOMAIN arena = 1 .. Len(arena) /\ GlobalSymIndex \in DOMAIN arena
  BY DEF ParentsPrecede, GlobalSymIndex
<1>2. \A t \in DOMAIN arena : arena[t].parent \in 0 .. t - 1
  BY <1>1 DEF ParentsPrecede, None
<1>3. ASSUME NEW t \in DOMAIN arena, NEW n \in Name, arena[t].symbols[n].kind = "index"
      PROVE  arena[t].symbols[n].index \in DOMAIN arena
  <2>1. n = "self" \/ (n = "super" /\ t # GlobalSymIndex)
    BY <1>3 DEF KeywordsIntact
  <2>0. \A i : IndexTo(i).index = i
    BY DEF IndexTo
  <2>2. CASE n = "self"
    <3>1. arena[t].symbols[n] = IndexTo(t)
      BY <2>2 DEF KeywordsIntact
    <3> QED
      BY <2>0, <3>1
  <2>3. CASE n = "super" /\ t # GlobalSymIndex
    <3>1. arena[t].symbols[n].index = arena[t].parent /\ arena[t].parent \in 1 .. t - 1
      <4>1. arena[t].symbols[n] = IndexTo(arena[t].parent)
        BY <2>3 DEF KeywordsIntact
      <4> QED
        BY <2>0, <2>3, <4>1 DEF ParentsPrecede
    <3> QED
      BY <1>1, <3>1
  <2> QED
    BY <2>1, <2>2, <2>3
<1> QED
  BY <1>1, <1>2, <1>3 DEF Rooted

LEMMA ReferencePath ==
  ASSUME IInv, NEW i \in DOMAIN ast, ast[i].op \in {"use", "target", "callee"}
  PROVE  Named(ast[i].path) /\ ast[i].path[Len(ast[i].path)] \in Name
<1>1. ast[i] \in Event
  BY DEF IInv, TypeOK
<1>2. ast[i].path \in Seq(Name \cup {""})
  BY <1>1 DEF Event
<1>3. /\ ast[i].path # <<>> /\ ast[i].path[Len(ast[i].path)] \in Name
      /\ \A j \in 2 .. Len(ast[i].path) : ast[i].path[j] \in Name
  BY DEF IInv, TypeOK, WellLinked
<1> QED
  BY <1>2, <1>3 DEF Named

LEMMA LookedUp ==
  ASSUME IInv, NEW i \in DOMAIN ast, ast[i].op \in {"use", "target", "callee"}
  PROVE  Lookup(arena, current, ast[i].path).table \in DOMAIN arena
<1>1. Rooted(arena) /\ current \in DOMAIN arena
  BY ArenaRooted DEF IInv, TypeOK
<1> QED
  BY <1>1, ReferencePath, LookupStaysInArena

LEMMA RefNames ==
  ASSUME IInv, RefVariable \/ RefAssign
  PROVE  IInv'
<1>1. CASE RefVariable
  <2> DEFINE found == Lookup(arena, current, ast[pc].path)
             ref == Reference(found, ast[pc].path, ast[pc].loc)
  <2>1. /\ pass = "ref" /\ pc \in DOMAIN ast /\ Continue
        /\ UNCHANGED <<arena, current, context, frames, locals>>
        /\ IF ref.error = "none"
           THEN def_table' = [def_table EXCEPT ![pc] = found.table] /\ UNCHANGED diagnosed
           ELSE UNCHANGED def_table /\ Report(pc, ref.error)
    BY <1>1 DEF RefVariable
  <2>2. ref.error # "none" => ref.error \in Diagnosis
    BY ReferenceErrors
  <2>0. found.table \in DOMAIN arena
    BY <1>1, LookedUp DEF RefVariable
  <2> HIDE DEF found, ref
  <2>3. /\ def_table \in [DOMAIN ast -> {None} \cup DOMAIN arena]
        /\ diagnosed \subseteq [event : DOMAIN ast, what : Diagnosis]
    BY DEF IInv, TypeOK
  <2>4. def_table' \in [DOMAIN ast -> {None} \cup DOMAIN arena]
    BY <2>0, <2>1, <2>3
  <2>5. diagnosed' \subseteq [event : DOMAIN ast, what : Diagnosis]
    BY <2>1, <2>2, <2>3, Reported
  <2> QED
    BY <2>1, <2>4, <2>5, Passing
<1>2. CASE RefAssign
  <2> DEFINE error == Objection(pc + ast[pc].link)
  <2>1. /\ At("ref", "assign") /\ Continue
        /\ UNCHANGED <<arena, current, context, frames, locals, def_table>>
        /\ UNCHANGED diagnosed \/ (error \in Diagnosis /\ Report(pc, error))
    BY <1>2, Objections DEF RefAssign
  <2> HIDE DEF error
  <2>2. pass = "ref" /\ pc \in DOMAIN ast
    BY <2>1 DEF At
  <2>3. /\ def_table' \in [DOMAIN ast -> {None} \cup DOMAIN arena]
        /\ diagnosed' \subseteq [event : DOMAIN ast, what : Diagnosis]
    BY <2>1, <2>2, Reported DEF IInv, TypeOK
  <2> QED
    BY <2>1, <2>2, <2>3, Passing
<1> QED
  BY <1>1, <1>2

LEMMA RefPassKeeps ==
  ASSUME IInv, RefPass
  PROVE  IInv'
<1>0. /\ \A op \in {"fn", "endfn", "endin", "type", "endtype", "end"} : op \in Op
      /\ current \in DOMAIN arena /\ context \in ScopingContext
  BY DEF Op, IInv, TypeOK
<1>1. CASE RefEndBlock
  BY <1>0, <1>1, Leaving DEF RefEndBlock
<1>2. CASE RefFunction
  BY <1>0, <1>2, Entering DEF RefFunction, ScopingContext
<1>3. CASE RefEndFunction
  BY <1>0, <1>3, Leaving DEF RefEndFunction
<1>4. CASE RefEndInAssign
  BY <1>0, <1>4, Leaving DEF RefEndInAssign
<1>5. CASE RefTypeAssign
  BY <1>0, <1>5, Entering DEF RefTypeAssign, ScopingContext
<1>6. CASE RefEndTypeAssign
  BY <1>0, <1>6, Leaving DEF RefEndTypeAssign
<1>7. CASE RefOther
  BY <1>7, Passing DEF RefOther, IInv, TypeOK
<1>8. CASE RefAssignNoVariable
  <2>1. pc \in DOMAIN ast /\ Report(pc, "nonvariable")
    BY <1>8 DEF RefAssignNoVariable, At
  <2>2. diagnosed' \subseteq [event : DOMAIN ast, what : Diagnosis]
    BY <2>1, Reported DEF Diagnosis
  <2>3. TypeOK'
    BY <1>8, <2>2 DEF RefAssignNoVariable, IInv, TypeOK
  <2>4. ParentsPrecede' /\ KeywordsIntact' /\ ScopesAnnotated'
    BY <1>8 DEF RefAssignNoVariable, IInv, ParentsPrecede, KeywordsIntact, ScopesAnnotated
  <2> QED
    BY <2>3, <2>4 DEF IInv
<1>9. CASE RefDone
  <2>1. TypeOK'
    BY <1>9 DEF RefDone, IInv, TypeOK
  <2>2. ParentsPrecede' /\ KeywordsIntact' /\ ScopesAnnotated'
    BY <1>9 DEF RefDone, IInv, ParentsPrecede, KeywordsIntact, ScopesAnnotated
  <2> QED
    BY <2>1, <2>2 DEF IInv
<1> QED
  BY <1>1, <1>2, <1>3, <1>4, <1>5, <1>6, <1>7, <1>8, <1>9, RefScopes, RefNames DEF RefPass

-----------------------------------------------------------------------------
(* Inputs, and the theorems.                                               *)

LEMMA InitEstablishes == Init => IInv
<1> SUFFICES ASSUME Init PROVE IInv
  OBVIOUS
<1> DEFINE global == NewTable(GlobalSymIndex, "GLOBAL")
<1>1. /\ global \in Table /\ global.self_index = GlobalSymIndex /\ global.parent = None
      /\ global.symbols["self"] = IndexTo(GlobalSymIndex)
      /\ \A n \in Name \ {"self"} : global.symbols[n] = Unbound
  BY NewTableIsTable DEF GlobalSymIndex, ScopingContext
<1>2. arena = <<global>>
  BY DEF Init
<1> HIDE DEF global
<1>3. arena \in Seq(Table) /\ DOMAIN arena = {GlobalSymIndex} /\ Len(arena) = 1
  BY <1>1, <1>2 DEF GlobalSymIndex
<1>4. TypeOK
  <2>1. ast \in Seq(Event) /\ WellLinked(ast)
    BY ProgramsAssumption DEF Init
  <2>2. inputs \in 1 .. MaxInputs
    BY InputsAssumption DEF Init
  <2> QED
    BY <1>3, <2>1, <2>2 DEF Init, TypeOK, ScopingContext
<1>5. ParentsPrecede /\ KeywordsIntact
  BY <1>1, <1>2, <1>3 DEF ParentsPrecede, KeywordsIntact, GlobalSymIndex, Unbound
<1>6. ScopesAnnotated
  BY DEF Init, ScopesAnnotated
<1> QED
  BY <1>4, <1>5, <1>6 DEF IInv

LEMMA NextInputKeeps ==
  ASSUME IInv, NextInput
  PROVE  IInv'
<1>1. ast' \in Seq(Event) /\ WellLinked(ast')
  BY ProgramsAssumption DEF NextInput
<1>2. inputs' \in 1 .. MaxInputs
  BY InputsAssumption DEF NextInput, IInv, TypeOK
<1>3. TypeOK'
  BY <1>1, <1>2 DEF NextInput, IInv, TypeOK, ParentsPrecede, GlobalSymIndex, ScopingContext
<1>4. ParentsPrecede' /\ KeywordsIntact'
  BY DEF NextInput, IInv, ParentsPrecede, KeywordsIntact
<1>5. ScopesAnnotated'
  BY DEF NextInput, ScopesAnnotated
<1> QED
  BY <1>3, <1>4, <1>5 DEF IInv

LEMMA StutteringKeeps ==
  ASSUME IInv, UNCHANGED vars
  PROVE  IInv'
<1>1. TypeOK'
  BY DEF vars, IInv, TypeOK
<1> QED
  BY <1>1 DEF vars, IInv, ParentsPrecede, KeywordsIntact, ScopesAnnotated

LEMMA StepInductive ==
  ASSUME IInv, [Next]_vars
  PROVE  IInv'
<1>1. CASE DeclPass
  BY <1>1, DeclPassKeeps
<1>2. CASE RefPass
  BY <1>2, RefPassKeeps
<1>3. CASE NextInput
  BY <1>3, NextInputKeeps
<1>4. CASE Ended
  BY <1>4, StutteringKeeps DEF Ended
<1>5. CASE UNCHANGED vars
  BY <1>5, StutteringKeeps
<1> QED
  BY <1>1, <1>2, <1>3, <1>4, <1>5 DEF Next

(* The invariant holds in every session, whatever its programs are. *)
THEOREM Inductive == Spec => []IInv
<1>1. Init => IInv
  BY InitEstablishes
<1>2. IInv /\ [Next]_vars => IInv'
  BY StepInductive
<1> QED
  BY <1>1, <1>2, PTL DEF Spec

(* TypeOK holds of every reachable state: in particular the passes are     *)
(* always in a table of the arena (VarDeclPass.cpp, VarRefPass.cpp).       *)
THEOREM Typed == Spec => []TypeOK
<1>1. IInv => TypeOK
  BY DEF IInv
<1> QED
  BY <1>1, Inductive, PTL

(* ParentsPrecede holds: mostRecentDef's climb (SymTable.cpp:171) reaches  *)
(* the global table from every table.                                      *)
THEOREM ParentsArePreceding == Spec => []ParentsPrecede
<1>1. IInv => ParentsPrecede
  BY DEF IInv
<1> QED
  BY <1>1, Inductive, PTL

(* KeywordsIntact holds: no declaration touches self and super, the        *)
(* bindings of SymTable's constructor and setParent (SymTable.cpp:65, 184). *)
THEOREM KeywordsStayIntact == Spec => []KeywordsIntact
<1>1. IInv => KeywordsIntact
  BY DEF IInv
<1> QED
  BY <1>1, Inductive, PTL

(* ScopesAnnotated holds: the optional indices that VarRefPass dereferences *)
(* without a test (VarRefPass.cpp:13, :93) always hold one.                 *)
THEOREM ScopesAreAnnotated == Spec => []ScopesAnnotated
<1>1. IInv => ScopesAnnotated
  BY DEF IInv
<1> QED
  BY <1>1, Inductive, PTL

-----------------------------------------------------------------------------
(* Declarations stay.                                                      *)

(* Table u has whatever table t had, and perhaps more declarations. *)
Grown(t, u) ==
  /\ u.parent = t.parent /\ u.scope_context = t.scope_context
  /\ \A n \in Name : \A i \in DOMAIN t.symbols[n].decls :
       /\ i \in DOMAIN u.symbols[n].decls
       /\ u.symbols[n].decls[i] = t.symbols[n].decls[i]

LEMMA InsertGrows ==
  ASSUME NEW t \in Table, NEW n \in Name, NEW info \in SymbolInfo
  PROVE  Grown(t, Insert(t, n, info))
<1> DEFINE b == [kind |-> "ssa", index |-> None, decls |-> Append(t.symbols[n].decls, info)]
           bound == [t.symbols EXCEPT ![n] = b]
           u == [t EXCEPT !.symbols = bound]
<1>1. t.symbols \in [Name -> Binding] /\ t.symbols[n].decls \in Seq(SymbolInfo)
  BY DEF Table, Binding
<1>2. b.decls = Append(t.symbols[n].decls, info)
  OBVIOUS
<1>3. Insert(t, n, info) = IF CanBind(t, n, "ssa") THEN u ELSE t
  BY DEF Insert
<1>4. Grown(t, u)
  <2>1. u.parent = t.parent /\ u.scope_context = t.scope_context /\ u.symbols = bound
    BY DEF Table
  <2> HIDE DEF b
  <2>2. /\ bound[n] = b
        /\ \A k \in Name \ {n} : bound[k] = t.symbols[k]
    BY <1>1
  <2> HIDE DEF bound, u
  <2>3. \A i \in DOMAIN t.symbols[n].decls :
          i \in DOMAIN b.decls /\ b.decls[i] = t.symbols[n].decls[i]
    BY <1>1, <1>2
  <2> QED
    BY <2>1, <2>2, <2>3 DEF Grown
<1>5. Grown(t, t)
  BY DEF Grown
<1> HIDE DEF u
<1> QED
  BY <1>3, <1>4, <1>5

LEMMA InsertArgGrows ==
  ASSUME NEW t \in Table, NEW n \in Name, NEW info \in SymbolInfo
  PROVE  Grown(t, InsertArg(t, n, info))
<1> DEFINE u == [t EXCEPT !.argument_set = @ \cup {n}]
<1>1. /\ u \in Table /\ u.parent = t.parent /\ u.symbols = t.symbols
      /\ u.scope_context = t.scope_context
  BY DEF Table
<1>2. InsertArg(t, n, info) = IF Exists(t, n) THEN t ELSE Insert(u, n, info)
  BY DEF InsertArg
<1> HIDE DEF u
<1>3. Grown(u, Insert(u, n, info))
  BY <1>1, InsertGrows
<1> QED
  BY <1>1, <1>2, <1>3 DEF Grown

LEMMA DeclaringKeeps ==
  ASSUME IInv, NEW u, Grown(arena[current], u), arena' = [arena EXCEPT ![current] = u]
  PROVE  Kept
<1>1. arena \in Seq(Table) /\ current \in DOMAIN arena
  BY DEF IInv, TypeOK
<1>2. \A t \in DOMAIN arena : t \in DOMAIN arena' /\ (arena'[t] = arena[t] \/ Grown(arena[t], arena'[t]))
  BY <1>1
<1> QED
  BY <1>2 DEF Kept, Grown

LEMMA AllocatingKeeps ==
  ASSUME IInv, NEW c, arena' = Allocated(c)
  PROVE  Kept
<1> DEFINE new == SetParent(NewTable(Len(arena) + 1, c), current)
<1>1. arena \in Seq(Table) /\ arena' = Append(arena, new)
  BY DEF IInv, TypeOK, Allocated
<1> HIDE DEF new
<1>2. \A t \in DOMAIN arena : t \in DOMAIN arena' /\ arena'[t] = arena[t]
  BY <1>1
<1> QED
  BY <1>2 DEF Kept

LEMMA StepKeeps ==
  ASSUME IInv, [Next]_vars, arena' # arena
  PROVE  Kept
<1>1. CASE DeclFunction
  BY <1>1, AllocatingKeeps DEF DeclFunction
<1>2. CASE DeclBlock
  BY <1>2, AllocatingKeeps DEF DeclBlock
<1>3. CASE DeclInAssign
  BY <1>3, AllocatingKeeps DEF DeclInAssign
<1>4. CASE DeclArgument
  <2> DEFINE info == [src |-> ast[pc].loc, is_mut |-> FALSE]
             u == InsertArg(arena[current], ast[pc].path[1], info)
  <2>1. arena' = [arena EXCEPT ![current] = u]
    BY <1>4 DEF DeclArgument
  <2>2. pc \in DOMAIN ast /\ ast[pc].op \in {"arg"} /\ arena[current] \in Table
    BY <1>4 DEF DeclArgument, At, IInv, TypeOK
  <2>3. ast[pc].path[1] \in Name /\ info \in SymbolInfo
    BY <2>2, OneName
  <2> HIDE DEF info
  <2>4. Grown(arena[current], u)
    BY <2>2, <2>3, InsertArgGrows
  <2> HIDE DEF u
  <2> QED
    BY <2>1, <2>4, DeclaringKeeps
<1>5. CASE DeclAssignName
  <2> DEFINE info == [src |-> ast[pc].loc, is_mut |-> ast[pc].mut]
             u == Insert(arena[current], ast[pc].path[1], info)
  <2>1. arena' = [arena EXCEPT ![current] = u]
    BY <1>5 DEF DeclAssignName
  <2>2. pc \in DOMAIN ast /\ ast[pc].op \in {"declare", "name"} /\ arena[current] \in Table
    BY <1>5 DEF DeclAssignName, At, IInv, TypeOK
  <2>3. ast[pc].path[1] \in Name /\ info \in SymbolInfo
    BY <2>2, OneName
  <2> HIDE DEF info
  <2>4. Grown(arena[current], u)
    BY <2>2, <2>3, InsertGrows
  <2> HIDE DEF u
  <2> QED
    BY <2>1, <2>4, DeclaringKeeps
<1>6. CASE RefPass
  BY <1>6 DEF RefPass, RefBlock, RefEndBlock, RefFunction, RefEndFunction, RefVariable,
     RefAssign, RefAssignNoVariable, RefInAssign, RefEndInAssign, RefTypeAssign,
     RefEndTypeAssign, RefOther, RefDone
<1>7. CASE DeclEndFunction \/ DeclEndBlock \/ DeclEndInAssign \/ DeclTypeAssign
           \/ DeclEndTypeAssign \/ DeclOther \/ DeclDone
  BY <1>7 DEF DeclEndFunction, DeclEndBlock, DeclEndInAssign, DeclTypeAssign,
     DeclEndTypeAssign, DeclOther, DeclDone
<1>8. CASE NextInput \/ Ended \/ UNCHANGED vars
  BY <1>8 DEF NextInput, Ended, vars
<1> QED
  BY <1>1, <1>2, <1>3, <1>4, <1>5, <1>6, <1>7, <1>8 DEF Next, DeclPass

(* DeclarationsStay holds: no handler takes a table or a declaration away  *)
(* or moves it (GenericResolver::set, SymTable.cpp:39).                    *)
THEOREM DeclarationsAreKept == Spec => DeclarationsStay
<1>1. IInv /\ [Next]_vars => [Kept]_arena
  BY StepKeeps
<1> QED
  BY <1>1, Inductive, PTL DEF Spec, DeclarationsStay


-----------------------------------------------------------------------------
(* References hold.                                                        *)

(* Variables are given tables by VarRefPass alone, which finds every        *)
(* declaration there already: no def_table stands while declarations come.  *)
References == ReferencesHold /\ (pass = "decl" => \A i \in DOMAIN ast : def_table[i] = None)

(* get finds a declaration for the variable at event i in its def_table. *)
Holds(i) ==
  LET key == ast[i].path[Len(ast[i].path)]
      got == Get(arena[def_table[i]], key, ast[i].loc)
  IN  got.kind = "var" /\ got.at \in DOMAIN arena[def_table[i]].symbols[key].decls

LEMMA HoldsEach == ReferencesHold <=> \A i \in DOMAIN ast : def_table[i] # None => Holds(i)
  BY DEF ReferencesHold, Holds

LEMMA NoReferences ==
  ASSUME \A i \in DOMAIN ast' : def_table'[i] = None
  PROVE  References'
  BY DEF References, ReferencesHold

LEMMA ReferencesStay ==
  ASSUME References, UNCHANGED <<ast, arena, def_table>>, pass' = "decl" => pass = "decl"
  PROVE  References'
<1>1. (\A i \in DOMAIN ast : def_table[i] # None => Holds(i))'
  BY HoldsEach DEF References, Holds
<1>2. ReferencesHold'
  BY <1>1 DEF ReferencesHold, Holds
<1> QED
  BY <1>2 DEF References

LEMMA RefVariableHolds ==
  ASSUME IInv, References, RefVariable
  PROVE  References'
<1> DEFINE path == ast[pc].path
           key == path[Len(path)]
           found == Lookup(arena, current, path)
           got == Get(arena[found.table], key, ast[pc].loc)
           ref == Reference(found, path, ast[pc].loc)
<1>1. /\ pass = "ref" /\ pc \in DOMAIN ast /\ ast[pc].op \in {"use", "target", "callee"}
      /\ ast' = ast /\ pass' = pass /\ arena' = arena
      /\ IF ref.error = "none"
         THEN def_table' = [def_table EXCEPT ![pc] = found.table]
         ELSE def_table' = def_table
  BY DEF RefVariable, Continue
<1>2. arena \in Seq(Table) /\ def_table \in [DOMAIN ast -> {None} \cup DOMAIN arena]
  BY DEF IInv, TypeOK
<1>3. found.table \in DOMAIN arena /\ key \in Name
  BY <1>1, LookedUp, ReferencePath
<1>4. ASSUME ref.error = "none"
      PROVE  got.kind = "var" /\ got.at \in DOMAIN arena[found.table].symbols[key].decls
  <2>1. got.kind = "var"
    <3> DEFINE stopped == Stopped(found, path)
               seen == Exists(arena[found.table], key)
    <3>1. ref = CASE stopped -> [table |-> None, error |-> "undeclared"]
                  [] ~ stopped /\ got.kind = "var" -> [table |-> found.table, error |-> "none"]
                  [] ~ stopped /\ got.kind = "index" -> [table |-> None, error |-> "nonvarsymbol"]
                  [] ~ stopped /\ got.kind = "none" ->
                       [table |-> None, error |-> IF seen THEN "early" ELSE "undeclared"]
      BY DEF Reference
    <3>2. got.kind \in {"var", "index", "none"}
      BY DEF Get, NotFound
    <3> HIDE DEF stopped, seen, got, ref, found
    <3> QED
      BY <1>4, <3>1, <3>2
  <2>2. arena[found.table] \in Table
    BY <1>2, <1>3
  <2> HIDE DEF found, key, ref
  <2> QED
    BY <1>3, <2>1, <2>2, GetStaysInVector
<1>5. ASSUME NEW i \in DOMAIN ast, def_table'[i] # None PROVE Holds(i)'
  <2>1. CASE i = pc /\ ref.error = "none"
    <3>1. def_table'[i] = found.table
      BY <1>1, <1>2, <2>1
    <3> QED
      BY <1>1, <1>4, <2>1, <3>1 DEF Holds
  <2>2. CASE ~ (i = pc /\ ref.error = "none")
    <3>1. def_table'[i] = def_table[i]
      BY <1>1, <1>2, <2>2
    <3>2. Holds(i)
      BY <1>5, <3>1, HoldsEach DEF References
    <3> QED
      BY <1>1, <3>1, <3>2 DEF Holds
  <2> QED
    BY <2>1, <2>2
<1>6. ReferencesHold'
  BY <1>1, <1>5 DEF ReferencesHold, Holds
<1> QED
  BY <1>1, <1>6 DEF References

(* The other visit methods give no variable a table, and after VarDeclPass
   none changes an arena. *)
LEMMA PassesHold ==
  ASSUME IInv, References, DeclPass \/ RefPass
  PROVE  References'
<1>1. CASE DeclPass
  <2>1. pass = "decl" /\ ast' = ast /\ def_table' = def_table
    BY <1>1 DEF DeclPass, DeclFunction, DeclEndFunction, DeclArgument, DeclBlock, DeclEndBlock,
       DeclAssignName, DeclInAssign, DeclEndInAssign, DeclTypeAssign, DeclEndTypeAssign,
       DeclOther, DeclDone, At, Continue
  <2> QED
    BY <2>1, NoReferences DEF References
<1>2. CASE RefVariable
  BY <1>2, RefVariableHolds
<1>3. CASE RefPass /\ ~ RefVariable
  <2>1. pass = "ref" /\ ast' = ast /\ arena' = arena /\ def_table' = def_table /\ pass' # "decl"
    BY <1>3 DEF RefPass, RefBlock, RefEndBlock, RefFunction, RefEndFunction, RefAssign,
       RefAssignNoVariable, RefInAssign, RefEndInAssign, RefTypeAssign, RefEndTypeAssign,
       RefOther, RefDone, At, Continue
  <2> QED
    BY <2>1, ReferencesStay
<1> QED
  BY <1>1, <1>2, <1>3

LEMMA ReferencesInductive == Spec => []References
<1>1. Init => References
  <2> SUFFICES ASSUME Init PROVE References
    OBVIOUS
  <2>1. \A i \in DOMAIN ast : def_table[i] = None
    BY DEF Init
  <2> QED
    BY <2>1 DEF References, ReferencesHold
<1>2. IInv /\ References /\ [Next]_vars => References'
  <2> SUFFICES ASSUME IInv, References, [Next]_vars PROVE References'
    OBVIOUS
  <2>1. CASE DeclPass \/ RefPass
    BY <2>1, PassesHold
  <2>2. CASE NextInput
    BY <2>2, NoReferences DEF NextInput
  <2>3. CASE Ended \/ UNCHANGED vars
    BY <2>3, ReferencesStay DEF Ended, vars
  <2> QED
    BY <2>1, <2>2, <2>3 DEF Next
<1> QED
  BY <1>1, <1>2, Inductive, PTL DEF Spec

(* ReferencesHold holds: a variable that VarRefPass gave a table            *)
(* (VarRefPass.cpp:47) has a declaration there, for whatever programs were  *)
(* analysed before, with whatever errors.                                   *)
THEOREM ReferencesDoHold == Spec => []ReferencesHold
<1>1. References => ReferencesHold
  BY DEF References
<1> QED
  BY <1>1, ReferencesInductive, PTL
=============================================================================
