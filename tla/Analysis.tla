------------------------------ MODULE Analysis ------------------------------
(***************************************************************************)
(* The analysis of a program: AnalysisDriver::analyzeAst runs VarDeclPass, *)
(* which builds the symbol tables, and VarRefPass, which looks up every    *)
(* variable and checks every reassignment, over the same tree and the same *)
(* arena.  One action per visit method, or two where the method does       *)
(* something before and after the children: the C++ locals that carry the  *)
(* saved members across the children are the stack `frames`.               *)
(*                                                                         *)
(* The arena outlives a program: the interpreter analyses one input after  *)
(* the other against it, and so does this module, up to MaxInputs of them. *)
(***************************************************************************)
EXTENDS Ast

CONSTANTS
  Programs,    \* the syntax trees that may be analysed
  MaxInputs    \* how many of them are analysed against one arena

(* Links point into the tree: a function points to a block behind its
   arguments, and the declaration that names it stands behind it.  Only the
   first name of a path may be empty.  An argument's event is never mut:
   visitArgument binds every argument immutable. *)
WellLinked(p) ==
  \A i \in DOMAIN p :
    /\ i + p[i].link \in DOMAIN p
    /\ p[i].op \in {"declare", "name", "arg"} => Len(p[i].path) = 1 /\ p[i].path[1] \in Name
    /\ p[i].op = "arg" => ~ p[i].mut
    /\ p[i].op = "declare" /\ p[i].link # 0 =>
         p[i + p[i].link].op = "fn" /\ i = EndOf(p, i + p[i].link) + 1
    /\ p[i].op \in {"use", "target", "callee"} =>
         /\ p[i].path # <<>> /\ p[i].path[Len(p[i].path)] \in Name
         /\ \A j \in 2 .. Len(p[i].path) : p[i].path[j] \in Name
    /\ p[i].op = "fn" => /\ p[i].link > 0 /\ p[i + p[i].link].op = "block"
                        /\ \A a \in i + 1 .. i + p[i].link - 1 : p[a].op = "arg"
    /\ p[i].op = "assign" /\ p[i].link # 0 => p[i].link < 0 /\ p[i + p[i].link].op = "target"

ASSUME ProgramsAssumption == \A p \in Programs : p \in Seq(Event) /\ WellLinked(p) /\ WellNested(p)
ASSUME InputsAssumption == MaxInputs \in Nat \ {0}

VARIABLES
  inputs,      \* how many inputs there were, this one included
  ast,         \* the events of the input's syntax tree
  pass,        \* the pass that runs, or how the analysis ended
  pc,          \* the event it visits
  arena,       \* AnalysisState::arena
  current,     \* VarDeclPass::current, VarRefPass::current
  context,     \* VarDeclPass::context, VarRefPass::context
  frames,      \* the active visit methods: their node and what they saved
  locals,      \* Block::locals and InAssign::binding
  def_table,   \* Variable::def_table
  diagnosed    \* the errors logged for this input

vars == <<inputs, ast, pass, pc, arena, current, context, frames, locals, def_table, diagnosed>>

Diagnosis == {"argument", "binding", "undeclared", "early", "nonvariable",
              "nonvarsymbol", "keyword", "unknown", "immutable"}

(* CompilationState::failed. *)
Failed == diagnosed # {}

(* The passes are constructed anew for every input, with the global table
   as their current one. *)
Init ==
  /\ inputs = 1
  /\ ast \in Programs
  /\ pass = "decl" /\ pc = 1
  /\ arena = <<NewTable(GlobalSymIndex, "GLOBAL")>>
  /\ current = GlobalSymIndex /\ context = "GLOBAL" /\ frames = <<>>
  /\ locals = [i \in DOMAIN ast |-> None]
  /\ def_table = [i \in DOMAIN ast |-> None]
  /\ diagnosed = {}

-----------------------------------------------------------------------------

At(p, op) == pass = p /\ pc \in DOMAIN ast /\ ast[pc].op = op

Continue == pc' = pc + 1 /\ UNCHANGED <<inputs, ast, pass>>

Report(event, what) == diagnosed' = diagnosed \cup {[event |-> event, what |-> what]}

Enter == frames' = <<[node |-> pc, current |-> current, context |-> context]>> \o frames

Leave == frames # <<>> /\ frames' = Tail(frames)

(* Seeded: setParent after current has moved to the new table. *)
AllocatedUnderItself(ctx) ==
  Append(arena, SetParent(NewTable(Len(arena) + 1, ctx), Len(arena) + 1))

(* A table for the next free index, below the current one. *)
Allocated(ctx) ==
  Append(arena, SetParent(NewTable(Len(arena) + 1, ctx), current))

-----------------------------------------------------------------------------
(* VarDeclPass.                                                            *)

(* Seeded: visitFunction enters the table it makes. *)
DeclFunctionEnters ==
  /\ At("decl", "fn")
  /\ Enter
  /\ locals' = [locals EXCEPT ![pc + ast[pc].link] = Len(arena) + 1]
  /\ current' = Len(arena) + 1 /\ context' = "SCOPE"
  /\ arena' = Allocated("SCOPE")
  /\ Continue /\ UNCHANGED <<def_table, diagnosed>>

(* visitFunction makes the table of the body but does not enter it: the
   arguments go to the table around the function. *)
DeclFunction ==
  /\ At("decl", "fn")
  /\ Enter
  /\ locals' = [locals EXCEPT ![pc + ast[pc].link] = Len(arena) + 1]
  /\ context' = "SCOPE"
  /\ arena' = Allocated("SCOPE")
  /\ Continue /\ UNCHANGED <<current, def_table, diagnosed>>

DeclEndFunction ==
  /\ At("decl", "endfn")
  /\ Leave
  /\ context' = Head(frames).context /\ current' = Head(frames).current
  /\ Continue /\ UNCHANGED <<arena, locals, def_table, diagnosed>>

DeclArgument ==
  /\ At("decl", "arg")
  /\ LET n == ast[pc].path[1] IN
       /\ arena' = [arena EXCEPT ![current] =
                      InsertArg(@, n, [src |-> ast[pc].loc, is_mut |-> FALSE])]
       /\ IF Exists(arena[current], n) THEN Report(pc, "argument") ELSE UNCHANGED diagnosed
  /\ Continue /\ UNCHANGED <<current, context, frames, locals, def_table>>

(* Seeded: a block that does not keep the index of its table. *)
DeclBlockForgets ==
  /\ At("decl", "block")
  /\ Enter
  /\ IF locals[pc] = None
     THEN current' = Len(arena) + 1 /\ arena' = Allocated(context)
     ELSE current' = locals[pc] /\ UNCHANGED arena
  /\ Continue /\ UNCHANGED <<context, locals, def_table, diagnosed>>

(* A block makes its table unless its function already has. *)
DeclBlock ==
  /\ At("decl", "block")
  /\ Enter
  /\ IF locals[pc] = None
     THEN /\ locals' = [locals EXCEPT ![pc] = Len(arena) + 1]
          /\ current' = Len(arena) + 1
          /\ arena' = Allocated(context)
     ELSE current' = locals[pc] /\ UNCHANGED <<arena, locals>>
  /\ Continue /\ UNCHANGED <<context, def_table, diagnosed>>

DeclEndBlock ==
  /\ At("decl", "end")
  /\ Leave /\ current' = Head(frames).current
  /\ Continue /\ UNCHANGED <<arena, context, locals, def_table, diagnosed>>

DeclAssignName ==
  /\ At("decl", "declare") \/ At("decl", "name")
  /\ LET n == ast[pc].path[1] IN
       /\ arena' = [arena EXCEPT ![current] =
                      Insert(@, n, [src |-> ast[pc].loc, is_mut |-> ast[pc].mut])]
       /\ IF CanBind(arena[current], n, "ssa") THEN UNCHANGED diagnosed ELSE Report(pc, "binding")
  /\ Continue /\ UNCHANGED <<current, context, frames, locals, def_table>>

(* Seeded: arena.size() taken after the table was pushed. *)
DeclInAssignLate ==
  /\ At("decl", "in")
  /\ Enter
  /\ locals' = [locals EXCEPT ![pc] = Len(arena) + 2]
  /\ current' = Len(arena) + 1 /\ context' = "SCOPE"
  /\ arena' = Allocated("SCOPE")
  /\ Continue /\ UNCHANGED <<def_table, diagnosed>>

DeclInAssign ==
  /\ At("decl", "in")
  /\ Enter
  /\ locals' = [locals EXCEPT ![pc] = Len(arena) + 1]
  /\ current' = Len(arena) + 1 /\ context' = "SCOPE"
  /\ arena' = Allocated("SCOPE")
  /\ Continue /\ UNCHANGED <<def_table, diagnosed>>

DeclEndInAssign ==
  /\ At("decl", "endin")
  /\ Leave
  /\ context' = Head(frames).context /\ current' = Head(frames).current
  /\ Continue /\ UNCHANGED <<arena, locals, def_table, diagnosed>>

DeclTypeAssign ==
  /\ At("decl", "type")
  /\ Enter /\ context' = "TYPE"
  /\ Continue /\ UNCHANGED <<arena, current, locals, def_table, diagnosed>>

(* Seeded: the context of the type stays on. *)
DeclEndTypeAssignKeeps ==
  /\ At("decl", "endtype")
  /\ Leave
  /\ Continue /\ UNCHANGED <<arena, current, context, locals, def_table, diagnosed>>

DeclEndTypeAssign ==
  /\ At("decl", "endtype")
  /\ Leave /\ context' = Head(frames).context
  /\ Continue /\ UNCHANGED <<arena, current, locals, def_table, diagnosed>>

(* Nodes VarDeclPass does not override. *)
DeclOther ==
  /\ pass = "decl" /\ pc \in DOMAIN ast
  /\ ast[pc].op \notin {"fn", "endfn", "arg", "block", "end", "in", "endin",
                        "type", "endtype", "declare", "name"}
  /\ Continue
  /\ UNCHANGED <<arena, current, context, frames, locals, def_table, diagnosed>>

(* RUN_PASS(VarRefPass): errors of the first pass do not stop the second. *)
DeclDone ==
  /\ pass = "decl" /\ pc = Len(ast) + 1
  /\ pass' = "ref" /\ pc' = 1
  /\ current' = GlobalSymIndex /\ context' = "GLOBAL" /\ frames' = <<>>
  /\ UNCHANGED <<inputs, ast, arena, locals, def_table, diagnosed>>

-----------------------------------------------------------------------------
(* VarRefPass.                                                             *)

RefBlock ==
  /\ At("ref", "block")
  /\ Enter /\ current' = locals[pc]
  /\ Continue /\ UNCHANGED <<arena, context, locals, def_table, diagnosed>>

RefEndBlock ==
  /\ At("ref", "end")
  /\ Leave /\ current' = Head(frames).current
  /\ Continue /\ UNCHANGED <<arena, context, locals, def_table, diagnosed>>

RefFunction ==
  /\ At("ref", "fn")
  /\ Enter /\ context' = "SCOPE"
  /\ Continue /\ UNCHANGED <<arena, current, locals, def_table, diagnosed>>

RefEndFunction ==
  /\ At("ref", "endfn")
  /\ Leave /\ context' = Head(frames).context
  /\ Continue /\ UNCHANGED <<arena, current, locals, def_table, diagnosed>>

(* What visitVariable makes of the result of lookup: the table that
   declares the variable, or the error it logs. *)
Stopped(found, path) == found.part # Len(path)

Reference(found, path, loc) ==
  LET key == path[Len(path)]
      got == Get(arena[found.table], key, loc)
  IN  CASE Stopped(found, path) -> [table |-> None, error |-> "undeclared"]
        [] ~ Stopped(found, path) /\ got.kind = "var"
                                -> [table |-> found.table, error |-> "none"]
        [] ~ Stopped(found, path) /\ got.kind = "index"
                                -> [table |-> None, error |-> "nonvarsymbol"]
        [] ~ Stopped(found, path) /\ got.kind = "none"
                                -> [table |-> None,
                                    error |-> IF Exists(arena[found.table], key)
                                              THEN "early" ELSE "undeclared"]

(* Seeded: the table the pass is in, in place of the one lookup came to. *)
RefVariableHere ==
  /\ pass = "ref" /\ pc \in DOMAIN ast /\ ast[pc].op \in {"use", "target", "callee"}
  /\ LET found == Lookup(arena, current, ast[pc].path)
         ref   == Reference(found, ast[pc].path, ast[pc].loc)
     IN  IF ref.error = "none"
         THEN def_table' = [def_table EXCEPT ![pc] = current] /\ UNCHANGED diagnosed
         ELSE UNCHANGED def_table /\ Report(pc, ref.error)
  /\ Continue /\ UNCHANGED <<arena, current, context, frames, locals>>

RefVariable ==
  /\ pass = "ref" /\ pc \in DOMAIN ast /\ ast[pc].op \in {"use", "target", "callee"}
  /\ LET found == Lookup(arena, current, ast[pc].path)
         ref   == Reference(found, ast[pc].path, ast[pc].loc)
     IN  IF ref.error = "none"
         THEN def_table' = [def_table EXCEPT ![pc] = found.table] /\ UNCHANGED diagnosed
         ELSE UNCHANGED def_table /\ Report(pc, ref.error)
  /\ Continue /\ UNCHANGED <<arena, current, context, frames, locals>>

(* Seeded: no test for the keywords. *)
ObjectionToUnknown(target) ==
  LET key == ast[target].path[Len(ast[target].path)]
      t   == def_table[target]
      got == Get(arena[t], key, ast[target].loc)
  IN  IF t = None THEN "unknown"
      ELSE IF got.kind = "var" /\ ~ arena[t].symbols[key].decls[got.at].is_mut
           THEN "immutable" ELSE "none"

(* visitBinOpCall, after both operands: what it objects to. *)
Objection(target) ==
  LET key == ast[target].path[Len(ast[target].path)]
      t   == def_table[target]
      got == Get(arena[t], key, ast[target].loc)
  IN  CASE key \in {"self", "super"}                  -> "keyword"
        [] key \notin {"self", "super"} /\ t = None   -> "unknown"
        [] key \notin {"self", "super"} /\ t # None   ->
             IF got.kind = "var" /\ ~ arena[t].symbols[key].decls[got.at].is_mut
             THEN "immutable" ELSE "none"

RefAssign ==
  /\ At("ref", "assign") /\ ast[pc].link # 0
  /\ LET error == Objection(pc + ast[pc].link) IN
       IF error = "none" THEN UNCHANGED diagnosed ELSE Report(pc, error)
  /\ Continue /\ UNCHANGED <<arena, current, context, frames, locals, def_table>>

(* On the left of "=" stands no variable: the error counts, and its message
   is formatted from the location behind the null pointer that the failed
   cast left, which the process does not survive. *)
RefAssignNoVariable ==
  /\ At("ref", "assign") /\ ast[pc].link = 0
  /\ Report(pc, "nonvariable")
  /\ pass' = "crashed"
  /\ UNCHANGED <<inputs, ast, pc, arena, current, context, frames, locals, def_table>>

RefInAssign ==
  /\ At("ref", "in")
  /\ Enter /\ current' = locals[pc] /\ context' = "SCOPE"
  /\ Continue /\ UNCHANGED <<arena, locals, def_table, diagnosed>>

RefEndInAssign ==
  /\ At("ref", "endin")
  /\ Leave
  /\ context' = Head(frames).context /\ current' = Head(frames).current
  /\ Continue /\ UNCHANGED <<arena, locals, def_table, diagnosed>>

RefTypeAssign ==
  /\ At("ref", "type")
  /\ Enter /\ context' = "TYPE"
  /\ Continue /\ UNCHANGED <<arena, current, locals, def_table, diagnosed>>

RefEndTypeAssign ==
  /\ At("ref", "endtype")
  /\ Leave /\ context' = Head(frames).context
  /\ Continue /\ UNCHANGED <<arena, current, locals, def_table, diagnosed>>

(* Nodes VarRefPass does not override. *)
RefOther ==
  /\ pass = "ref" /\ pc \in DOMAIN ast
  /\ ast[pc].op \notin {"fn", "endfn", "block", "end", "in", "endin", "type", "endtype",
                        "use", "target", "callee", "assign"}
  /\ Continue
  /\ UNCHANGED <<arena, current, context, frames, locals, def_table, diagnosed>>

RefDone ==
  /\ pass = "ref" /\ pc = Len(ast) + 1
  /\ pass' = "done"
  /\ UNCHANGED <<inputs, ast, pc, arena, current, context, frames, locals, def_table, diagnosed>>

-----------------------------------------------------------------------------

(* CompilationState::reset and a new tree; the arena stays as it is, after
   a failed analysis too. *)
NextInput ==
  /\ pass = "done" /\ inputs < MaxInputs
  /\ inputs' = inputs + 1
  /\ ast' \in Programs
  /\ pass' = "decl" /\ pc' = 1
  /\ current' = GlobalSymIndex /\ context' = "GLOBAL" /\ frames' = <<>>
  /\ locals' = [i \in DOMAIN ast' |-> None]
  /\ def_table' = [i \in DOMAIN ast' |-> None]
  /\ diagnosed' = {}
  /\ UNCHANGED arena

(* Nothing follows the last input, nor a crash. *)
Ended ==
  /\ pass = "crashed" \/ (pass = "done" /\ inputs >= MaxInputs)
  /\ UNCHANGED vars

DeclPass ==
  \/ DeclFunction \/ DeclEndFunction \/ DeclArgument \/ DeclBlock \/ DeclEndBlock
  \/ DeclAssignName \/ DeclInAssign \/ DeclEndInAssign \/ DeclTypeAssign
  \/ DeclEndTypeAssign \/ DeclOther \/ DeclDone

RefPass ==
  \/ RefBlock \/ RefEndBlock \/ RefFunction \/ RefEndFunction \/ RefVariable
  \/ RefAssign \/ RefAssignNoVariable \/ RefInAssign \/ RefEndInAssign
  \/ RefTypeAssign \/ RefEndTypeAssign \/ RefOther \/ RefDone

Next == DeclPass \/ RefPass \/ NextInput \/ Ended

Spec == Init /\ [][Next]_vars
-----------------------------------------------------------------------------
(* Type correctness.                                                       *)
TypeOK ==
  /\ inputs \in 1 .. MaxInputs
  /\ ast \in Seq(Event) /\ WellLinked(ast)
  /\ pass \in {"decl", "ref", "done", "crashed"}
  /\ pc \in 1 .. Len(ast) + 1
  /\ arena \in Seq(Table)
  /\ current \in DOMAIN arena
  /\ context \in ScopingContext
  /\ frames \in Seq([node : Nat, current : DOMAIN arena, context : ScopingContext])
  /\ locals \in [DOMAIN ast -> {None} \cup DOMAIN arena]
  /\ def_table \in [DOMAIN ast -> {None} \cup DOMAIN arena]
  /\ diagnosed \subseteq [event : DOMAIN ast, what : Diagnosis]

(* mostRecentDef climbs from a table to its parent until there is none     *)
(* (SymTable.cpp:174): it comes to an end, because the global table alone  *)
(* has no parent and every other parent was allocated before its child.    *)
ParentsPrecede ==
  /\ Len(arena) > 0
  /\ \A t \in DOMAIN arena :
       /\ t = GlobalSymIndex => arena[t].parent = None
       /\ t # GlobalSymIndex => arena[t].parent \in 1 .. t - 1

(* Whatever a program declares, self names the table itself and super the  *)
(* table around it, as the constructor and setParent bound them: no        *)
(* declaration, argument or type replaces them or joins them, and no other *)
(* name is ever bound to a table, so that lookup stays in the arena.       *)
KeywordsIntact ==
  \A t \in DOMAIN arena :
    /\ arena[t].self_index = t
    /\ arena[t].symbols["self"] = IndexTo(t)
    /\ t # GlobalSymIndex => arena[t].symbols["super"] = IndexTo(arena[t].parent)
    /\ \A n \in Name : arena[t].symbols[n].kind = "index" =>
         n = "self" \/ (n = "super" /\ t # GlobalSymIndex)

(* VarRefPass dereferences Block::locals and InAssign::binding without a   *)
(* test (VarRefPass.cpp:13 and :93): every scope it comes to was annotated *)
(* by the pass before it.                                                  *)
ScopesAnnotated ==
  /\ pass = "decl" => \A i \in 1 .. pc - 1 : ast[i].op \in {"block", "in"} => locals[i] # None
  /\ pass = "ref"  => \A i \in DOMAIN ast  : ast[i].op \in {"block", "in"} => locals[i] # None

(* A variable that was given a table is bound to declarations there, and   *)
(* get finds one of them again: visitVariable and visitBinOpCall of the    *)
(* generator (LlvmIrGenerator.cpp:131, :297) take what it returns for a    *)
(* SymbolInfo without a test, whichever input declared it, and wherever    *)
(* the table stands that lookup came to.                                   *)
ReferencesHold ==
  \A i \in DOMAIN ast : def_table[i] # None =>
    LET key == ast[i].path[Len(ast[i].path)]
        got == Get(arena[def_table[i]], key, ast[i].loc)
    IN  got.kind = "var" /\ got.at \in DOMAIN arena[def_table[i]].symbols[key].decls

(* Tables and declarations stay where they are once they exist.            *)
Kept ==
  \A t \in DOMAIN arena :
    /\ t \in DOMAIN arena'
    /\ arena'[t].parent = arena[t].parent
    /\ arena'[t].scope_context = arena[t].scope_context
    /\ \A n \in Name : \A i \in DOMAIN arena[t].symbols[n].decls :
         /\ i \in DOMAIN arena'[t].symbols[n].decls
         /\ arena'[t].symbols[n].decls[i] = arena[t].symbols[n].decls[i]

(* They do across passes, inputs and failures: def_table and the references *)
(* that the code generator keeps into an SsaVector (SymTable.cpp:88) go on  *)
(* naming the same declaration.                                             *)
DeclarationsStay == [][Kept]_arena
=============================================================================
