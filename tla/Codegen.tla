------------------------------ MODULE Codegen ------------------------------
(***************************************************************************)
(* The code generator, src/LlvmIrGenerator.cpp: AnalysisDriver::           *)
(* translateAstToLlvm walks the analysed tree once more and emits LLVM IR  *)
(* into the translation unit, which outlives the input as the arena does.  *)
(* This module extends the two passes of module Analysis by that walk.     *)
(*                                                                         *)
(* Of the IR it keeps what can go wrong with it: which functions the       *)
(* module holds, whether they are complete, which functions a body calls   *)
(* and whose stack slots and arguments it touches, and the types of        *)
(* values.  The generator tests few of its pointers and values: where it   *)
(* dereferences a null one, or hands LLVM operands that fail an assertion  *)
(* of LLVM, the process does not survive and the pass is "crashed".        *)
(***************************************************************************)
EXTENDS Analysis, FiniteSets

VARIABLES
  generated,   \* whether the input has been handed to the generator
  codegen,     \* LlvmIrGenerator::codegen
  operands,    \* what visitNode returned to the methods that are active
  saved,       \* the active methods: their node and what they saved
  insert,      \* the function whose block the builder is at the end of
  module,      \* translation_unit, its functions by name
  storage      \* SymbolInfo::storage, by table, name and position

genvars == <<generated, codegen, operands, saved, insert, module, storage>>
allvars == <<vars, genvars>>

NoFunction == ""

(* llvm::Value*: its type and the event it was made at. *)
Value == [type : {"null", "i32", "i1", "void", "argument", "fn"}, at : Nat]
Null == [type |-> "null", at |-> 0]
Made(type) == [type |-> type, at |-> pc]

Int32 == {"i32", "argument"}

(* What an instruction refers to outside itself. *)
Use == [kind : {"call", "load", "store", "argument"}, of : Name, event : Nat, input : Nat]

Absent == [state |-> "absent", arity |-> 0, uses |-> {}, value |-> Null, event |-> 0, input |-> 0]

NoStorage == [kind |-> "none", of |-> NoFunction]

(* The errors the generator logs, beside those of the passes. *)
Refusal == {"redefined", "unknown function", "argument count", "callee", "argument value"}

GenInit ==
  /\ Init
  /\ generated = FALSE
  /\ codegen = Null /\ operands = <<>> /\ saved = <<>> /\ insert = NoFunction
  /\ module = [n \in Name |-> Absent]
  /\ storage = <<>>

-----------------------------------------------------------------------------

GenAt(op) == At("gen", op)

UnchangedAnalysis == UNCHANGED <<arena, context, frames, locals, def_table>>

Crash ==
  /\ pass' = "crashed"
  /\ UNCHANGED <<inputs, ast, pc, arena, current, context, frames, locals, def_table, diagnosed>>
  /\ UNCHANGED genvars

Save ==
  saved' = <<[node |-> pc, current |-> current, codegen |-> codegen, insert |-> insert]>> \o saved

LastName(path) == path[Len(path)]

(* Operands are taken from the end. *)
Operands(n) == SubSeq(operands, Len(operands) - n + 1, Len(operands))
Drop(n) == operands' = SubSeq(operands, 1, Len(operands) - n)

(* An instruction goes to the block of the builder; without a block it is
   made and belongs to nothing. *)
Emit(kind, of) ==
  module' = IF insert = NoFunction THEN module
            ELSE [module EXCEPT ![insert].uses =
                    @ \cup {[kind |-> kind, of |-> of, event |-> pc, input |-> inputs]}]

StorageOf(key) == IF key \in DOMAIN storage THEN storage[key] ELSE NoStorage

Stored(key, s) == [k \in DOMAIN storage \cup {key} |-> IF k = key THEN s ELSE storage[k]]

(* Seeded: the first declaration of a name, whatever the location. *)
SlotOfName(t, n, loc) == <<t, n, 1>>

(* The entry of a name that the passes have resolved or declared.  It is
   dereferenced without a test; 0 is what the test would have found. *)
Slot(t, n, loc) ==
  LET got == Get(arena[t], n, loc) IN <<t, n, IF got.kind = "var" THEN got.at ELSE 0>>

(* What the entry of the variable at event i has for storage. *)
StorageAt(i) == StorageOf(Slot(def_table[i], LastName(ast[i].path), ast[i].loc))

(* Between i and j every node that opens closes. *)
Balanced(i, j) ==
  Cardinality({k \in i .. j : ast[k].op \in Openers}) =
  Cardinality({k \in i .. j : ast[k].op \in Closers})

(* FnCall::arguments of the call at event i. *)
ArgCount(i) ==
  Cardinality({j \in i + 1 .. i + ast[i].link - 2 : ast[j].op = "node" /\ Balanced(i + 1, j - 1)})

(* The declaration that gave the function at event i its name. *)
Naming(i) == {d \in DOMAIN ast : ast[d].op = "declare" /\ ast[d].link # 0 /\ d + ast[d].link = i}
-----------------------------------------------------------------------------
(* Literals, operands, scopes.                                             *)

GenStart ==
  /\ pass = "done" /\ ~ Failed /\ ~ generated
  /\ generated' = TRUE
  /\ pass' = "gen" /\ pc' = 1 /\ current' = GlobalSymIndex
  /\ codegen' = Null /\ operands' = <<>> /\ saved' = <<>> /\ insert' = NoFunction
  /\ UnchangedAnalysis /\ UNCHANGED <<inputs, ast, diagnosed, module, storage>>

GenLiteral ==
  /\ GenAt("lit")
  /\ codegen' = Made("i32")
  /\ Continue /\ UnchangedAnalysis
  /\ UNCHANGED <<current, diagnosed, generated, operands, saved, insert, module, storage>>

(* visitNode, and what it does after the child. *)
GenNode ==
  /\ GenAt("node") \/ GenAt("else")
  /\ Save /\ codegen' = Null
  /\ Continue /\ UnchangedAnalysis
  /\ UNCHANGED <<current, diagnosed, generated, operands, insert, module, storage>>

GenEndNode ==
  /\ GenAt("endnode")
  /\ operands' = Append(operands, codegen)
  /\ codegen' = saved[1].codegen /\ saved' = Tail(saved)
  /\ Continue /\ UnchangedAnalysis
  /\ UNCHANGED <<current, diagnosed, generated, insert, module, storage>>

(* visitBlock and visitInAssign enter the scope that VarDeclPass made, and
   leave it with the value of the last child. *)
GenEnter ==
  /\ GenAt("block") \/ GenAt("in")
  /\ Save /\ current' = locals[pc]
  /\ Continue /\ UnchangedAnalysis
  /\ UNCHANGED <<diagnosed, generated, codegen, operands, insert, module, storage>>

GenLeave ==
  /\ GenAt("end") \/ GenAt("endin")
  /\ current' = saved[1].current /\ saved' = Tail(saved)
  /\ Continue /\ UnchangedAnalysis
  /\ UNCHANGED <<diagnosed, generated, codegen, operands, insert, module, storage>>

(* Nodes the generator does not override, and the left of "=", which is
   looked up after the right has been visited. *)
GenOther ==
  /\ pass = "gen" /\ pc \in DOMAIN ast
  /\ ast[pc].op \in {"type", "endtype", "target", "callee"}
  /\ Continue /\ UnchangedAnalysis
  /\ UNCHANGED <<current, diagnosed, genvars>>

(* finalize: the translation unit goes back to the driver. *)
GenDone ==
  /\ pass = "gen" /\ pc = Len(ast) + 1
  /\ pass' = "done"
  /\ UnchangedAnalysis /\ UNCHANGED <<inputs, ast, pc, current, diagnosed, genvars>>

-----------------------------------------------------------------------------
(* Functions.                                                              *)

(* Seeded: the second definition is dropped without an error. *)
GenFunctionAgainSilent ==
  /\ GenAt("fn") /\ Naming(pc) # {}
  /\ \E d \in Naming(pc) : module[ast[d].path[1]].state # "absent"
  /\ LET body == pc + ast[pc].link IN pc' = body + ast[body].link + 2
  /\ UnchangedAnalysis /\ UNCHANGED <<inputs, ast, pass, current, diagnosed, genvars>>

(* visitFunction of a name the module already defines: the error, and
   nothing else; the body is not visited. *)
GenFunctionAgain ==
  /\ GenAt("fn") /\ Naming(pc) # {}
  /\ \E d \in Naming(pc) : module[ast[d].path[1]].state # "absent"
  /\ Report(pc, "redefined")
  /\ LET body == pc + ast[pc].link IN pc' = body + ast[body].link + 2
  /\ UnchangedAnalysis /\ UNCHANGED <<inputs, ast, pass, current, genvars>>

(* Seeded: a second definition takes the place of the first. *)
GenFunctionReplaces ==
  /\ GenAt("fn") /\ Naming(pc) # {}
  /\ \E d \in Naming(pc) :
       LET name == ast[d].path[1]
           args == {Slot(current, ast[a].path[1], ast[a].loc) : a \in pc + 1 .. pc + ast[pc].link - 1}
       IN  /\ module' = [module EXCEPT ![name] =
                [Absent EXCEPT !.state = "open", !.arity = ast[pc].link - 1,
                               !.event = d, !.input = inputs]]
           /\ storage' = [k \in DOMAIN storage \cup args |->
                            IF k \in args THEN [kind |-> "argument", of |-> name] ELSE storage[k]]
           /\ insert' = name
  /\ Save /\ codegen' = Null
  /\ pc' = pc + ast[pc].link
  /\ UnchangedAnalysis /\ UNCHANGED <<inputs, ast, pass, current, diagnosed, generated, operands>>

(* visitFunction up to its body: the LLVM function, the arguments, the
   entry block.  An argument is found in the table around the function,
   where VarDeclPass put it. *)
GenFunction ==
  /\ GenAt("fn") /\ Naming(pc) # {}
  /\ \E d \in Naming(pc) :
       LET name == ast[d].path[1]
           args == {Slot(current, ast[a].path[1], ast[a].loc) : a \in pc + 1 .. pc + ast[pc].link - 1}
       IN  /\ module[name].state = "absent"
           /\ module' = [module EXCEPT ![name] =
                [Absent EXCEPT !.state = "open", !.arity = ast[pc].link - 1,
                               !.event = d, !.input = inputs]]
           /\ storage' = [k \in DOMAIN storage \cup args |->
                            IF k \in args THEN [kind |-> "argument", of |-> name] ELSE storage[k]]
           /\ insert' = name
  /\ Save /\ codegen' = Null
  /\ pc' = pc + ast[pc].link
  /\ UnchangedAnalysis /\ UNCHANGED <<inputs, ast, pass, current, diagnosed, generated, operands>>

(* A function that no variable names has no name to dereference. *)
GenFunctionUnnamed == GenAt("fn") /\ Naming(pc) = {} /\ Crash

(* visitFunction after its body: a value is returned, a body without one
   takes the function out of the module, which LLVM does not survive when
   another function calls it.  Nor does visitAssignName survive it, which
   comes next: it asks of a null pointer whether it is a function. *)
Callers(name) == {n \in Name \ {name} : \E u \in module[n].uses : u.kind = "call" /\ u.of = name}

(* Seeded: the builder stays in the function. *)
GenEndFunctionStays ==
  /\ GenAt("endfn") /\ codegen.type # "null"
  /\ module' = [module EXCEPT ![insert].state = "complete", ![insert].value = codegen]
  /\ codegen' = Made("fn")
  /\ saved' = Tail(saved) /\ UNCHANGED insert
  /\ Continue /\ UnchangedAnalysis
  /\ UNCHANGED <<current, diagnosed, generated, operands, storage>>

GenEndFunction ==
  /\ GenAt("endfn") /\ codegen.type # "null"
  /\ module' = [module EXCEPT ![insert].state = "complete", ![insert].value = codegen]
  /\ codegen' = Made("fn")
  /\ insert' = saved[1].insert /\ saved' = Tail(saved)
  /\ Continue /\ UnchangedAnalysis
  /\ UNCHANGED <<current, diagnosed, generated, operands, storage>>

GenErased ==
  /\ GenAt("endfn") /\ codegen.type = "null"
  /\ IF Callers(insert) # {}
     THEN Crash
     ELSE /\ module' = [module EXCEPT ![insert] = Absent]
          /\ insert' = saved[1].insert /\ saved' = Tail(saved)
          /\ Continue /\ UnchangedAnalysis
          /\ UNCHANGED <<current, diagnosed, generated, codegen, operands, storage>>

-----------------------------------------------------------------------------
(* Names.                                                                  *)

(* visitVariable: an argument is its own value, a slot is loaded; a symbol
   without storage, such as a function, leaves codegen as it is. *)
GenVariable ==
  /\ GenAt("use")
  /\ LET s == StorageAt(pc) IN
       CASE s.kind = "none"     -> UNCHANGED <<codegen, module>>
         [] s.kind = "argument" -> codegen' = Made("argument") /\ Emit("argument", s.of)
         [] s.kind = "alloca"   -> codegen' = Made("i32") /\ Emit("load", s.of)
  /\ Continue /\ UnchangedAnalysis
  /\ UNCHANGED <<current, diagnosed, generated, operands, saved, insert, storage>>

(* visitAssignName of a function does nothing: the function has its name.
   visitVarAssign, whose last child the name is, forgets the value. *)
GenNameFunction ==
  /\ GenAt("declare") \/ GenAt("name")
  /\ codegen.type = "fn"
  /\ codegen' = IF ast[pc].op = "declare" THEN Null ELSE codegen
  /\ Continue /\ UnchangedAnalysis
  /\ UNCHANGED <<current, diagnosed, generated, operands, saved, insert, module, storage>>

(* Seeded: visitVarAssign keeps the value. *)
GenAssignNameKeeps ==
  /\ GenAt("declare") \/ GenAt("name")
  /\ codegen.type # "fn"
  /\ LET in_type == arena[current].scope_context = "TYPE" IN
     IF codegen.type = "null" \/ (~ in_type /\ (insert = NoFunction \/ codegen.type \notin Int32))
     THEN Crash
     ELSE /\ storage' = IF in_type THEN storage
                        ELSE Stored(Slot(current, ast[pc].path[1], ast[pc].loc),
                                    [kind |-> "alloca", of |-> insert])
          /\ UNCHANGED codegen
          /\ Continue /\ UnchangedAnalysis
          /\ UNCHANGED <<current, diagnosed, generated, operands, saved, insert, module>>

(* visitAssignName of a variable: a slot and the store of the value, also
   at the global table, where the case of a global variable falls through.
   In a type nothing happens. *)
GenAssignName ==
  /\ GenAt("declare") \/ GenAt("name")
  /\ codegen.type # "fn"
  /\ LET in_type == arena[current].scope_context = "TYPE" IN
     IF codegen.type = "null" \/ (~ in_type /\ (insert = NoFunction \/ codegen.type \notin Int32))
     THEN Crash
     ELSE /\ storage' = IF in_type THEN storage
                        ELSE Stored(Slot(current, ast[pc].path[1], ast[pc].loc),
                                    [kind |-> "alloca", of |-> insert])
          /\ codegen' = CASE ast[pc].op = "declare"              -> Null
                          [] ast[pc].op = "name" /\ in_type      -> codegen
                          [] ast[pc].op = "name" /\ ~ in_type    -> Made("void")
          /\ Continue /\ UnchangedAnalysis
          /\ UNCHANGED <<current, diagnosed, generated, operands, saved, insert, module>>

(* visitArgument outside visitFunction: a constructor of a type.  It takes
   whatever argument the value before it happens to be. *)
GenArgument ==
  /\ GenAt("arg")
  /\ IF codegen.type = "argument"
     THEN /\ storage' = Stored(Slot(current, ast[pc].path[1], ast[pc].loc),
                               StorageAt(codegen.at))
          /\ UNCHANGED diagnosed
     ELSE Report(pc, "argument value") /\ UNCHANGED storage
  /\ Continue /\ UnchangedAnalysis
  /\ UNCHANGED <<current, generated, codegen, operands, saved, insert, module>>

-----------------------------------------------------------------------------
(* Expressions.                                                            *)

(* visitBinOpCall of "=", after its right side. *)
GenAssign ==
  /\ GenAt("assign")
  /\ LET s == StorageAt(pc + ast[pc].link) IN
     IF s.kind # "none" /\ (s.kind # "alloca" \/ Operands(1)[1].type \notin Int32)
     THEN Crash
     ELSE /\ IF s.kind = "alloca"
             THEN codegen' = Made("void") /\ Emit("store", s.of)
             ELSE UNCHANGED <<codegen, module>>
          /\ Drop(1) /\ Continue /\ UnchangedAnalysis
          /\ UNCHANGED <<current, diagnosed, generated, saved, insert, storage>>

(* visitBinOpCall of another operator casts both operands to i32; an
   operator it has no instruction for leaves codegen as it is. *)
GenBinOp ==
  /\ GenAt("binop") \/ GenAt("compare") \/ GenAt("otherop")
  /\ IF \E v \in {Operands(2)[1], Operands(2)[2]} : v.type \notin Int32 \cup {"i1"}
     THEN Crash
     ELSE /\ codegen' = CASE ast[pc].op = "binop"   -> Made("i32")
                          [] ast[pc].op = "compare" -> Made("i1")
                          [] ast[pc].op = "otherop" -> codegen
          /\ Drop(2) /\ Continue /\ UnchangedAnalysis
          /\ UNCHANGED <<current, diagnosed, generated, saved, insert, module, storage>>

(* visitUnOpCall does not cast, and touches neither the operand nor codegen
   when the operator is `~`. *)
GenUnOp ==
  /\ GenAt("unop") \/ GenAt("otherunop")
  /\ LET v == Operands(1)[1] IN
     IF ast[pc].op = "unop" /\ v.type \notin Int32 \cup {"i1"}
     THEN Crash
     ELSE /\ codegen' = CASE ast[pc].op = "unop"      -> Made(IF v.type = "i1" THEN "i1" ELSE "i32")
                          [] ast[pc].op = "otherunop" -> codegen
          /\ Drop(1) /\ Continue /\ UnchangedAnalysis
          /\ UNCHANGED <<current, diagnosed, generated, saved, insert, module, storage>>

(* Seeded: a function is known when it is complete. *)
CallObjectionIncomplete(i) ==
  LET callee == i + ast[i].link - 1
      f      == module[LastName(ast[callee].path)]
  IN  CASE ast[callee].op # "callee"                              -> "callee"
        [] ast[callee].op = "callee" /\ f.state # "complete"      -> "unknown function"
        [] ast[callee].op = "callee" /\ f.state = "complete"      ->
             IF f.arity # ArgCount(i) THEN "argument count" ELSE "none"

(* visitFnCall finds its function by the last part of the name, before the
   arguments; if it objects they are not visited. *)
CallObjection(i) ==
  LET callee == i + ast[i].link - 1
      f      == module[LastName(ast[callee].path)]
  IN  CASE ast[callee].op # "callee"                            -> "callee"
        [] ast[callee].op = "callee" /\ f.state = "absent"      -> "unknown function"
        [] ast[callee].op = "callee" /\ f.state # "absent"      ->
             IF f.arity # ArgCount(i) THEN "argument count" ELSE "none"

GenCall ==
  /\ GenAt("call")
  /\ IF CallObjection(pc) = "none"
     THEN pc' = pc + 1 /\ UNCHANGED diagnosed
     ELSE pc' = pc + ast[pc].link + 1 /\ Report(pc, CallObjection(pc))
  /\ UnchangedAnalysis /\ UNCHANGED <<inputs, ast, pass, current, genvars>>

GenEndCall ==
  /\ GenAt("endcall")
  /\ LET name == LastName(ast[pc - 1].path)
         n    == module[name].arity
     IN  IF \E i \in 1 .. n : Operands(n)[i].type \notin Int32
         THEN Crash
         ELSE /\ codegen' = Made("i32") /\ Emit("call", name)
              /\ Drop(n) /\ Continue /\ UnchangedAnalysis
              /\ UNCHANGED <<current, diagnosed, generated, saved, insert, storage>>

-----------------------------------------------------------------------------
(* visitIfElse.  With an else every branch stores its value and the whole  *)
(* has one; without, the bodies are not visited.                           *)

HasElse(i) == ast[i + ast[i].link - 1].op = "endelse"

(* The if that the branch at event i belongs to. *)
IfOf(i) == CHOOSE j \in 1 .. i - 1 : ast[j].op = "if" /\ Balanced(j + 1, i - 1)

GenIf ==
  /\ GenAt("if")
  /\ IF insert = NoFunction
     THEN Crash
     ELSE /\ Continue /\ UnchangedAnalysis
          /\ UNCHANGED <<current, diagnosed, genvars>>

GenThen ==
  /\ GenAt("then")
  /\ IF Operands(1)[1].type # "i1"
     THEN Crash
     ELSE /\ Drop(1)
          /\ IF HasElse(IfOf(pc))
             THEN Save /\ codegen' = Null /\ pc' = pc + 1
             ELSE pc' = pc + ast[pc].link + 1 /\ UNCHANGED <<saved, codegen>>
          /\ UnchangedAnalysis
          /\ UNCHANGED <<inputs, ast, pass, current, diagnosed, generated, insert, module, storage>>

GenEndBranch ==
  /\ GenAt("endthen") \/ GenAt("endelse")
  /\ IF codegen.type \notin Int32
     THEN Crash
     ELSE /\ codegen' = saved[1].codegen /\ saved' = Tail(saved)
          /\ Continue /\ UnchangedAnalysis
          /\ UNCHANGED <<current, diagnosed, generated, operands, insert, module, storage>>

GenEndIf ==
  /\ GenAt("endif")
  /\ codegen' = IF ast[pc - 1].op = "endelse" THEN Made("i32") ELSE codegen
  /\ Continue /\ UnchangedAnalysis
  /\ UNCHANGED <<current, diagnosed, generated, operands, saved, insert, module, storage>>

-----------------------------------------------------------------------------

GenPass ==
  \/ GenStart \/ GenLiteral \/ GenNode \/ GenEndNode \/ GenEnter \/ GenLeave \/ GenOther
  \/ GenFunctionAgain \/ GenFunction \/ GenFunctionUnnamed \/ GenEndFunction \/ GenErased
  \/ GenVariable \/ GenNameFunction \/ GenAssignName \/ GenArgument
  \/ GenAssign \/ GenBinOp \/ GenUnOp \/ GenCall \/ GenEndCall
  \/ GenIf \/ GenThen \/ GenEndBranch \/ GenEndIf \/ GenDone

(* An analysis that succeeded has been translated: nothing is left to do
   for the input, and nothing can be done after a crash. *)
Translated == generated \/ Failed

GenEnded ==
  /\ pass = "crashed" \/ (pass = "done" /\ Translated)
  /\ UNCHANGED allvars

GenNext ==
  \/ (DeclPass \/ RefPass) /\ UNCHANGED genvars
  \/ GenPass \/ GenEnded

GenSpec == GenInit /\ [][GenNext]_allvars
-----------------------------------------------------------------------------
(* Type correctness.                                                       *)
GenTypeOK ==
  /\ pass \in {"decl", "ref", "gen", "done", "crashed"}
  /\ pc \in 1 .. Len(ast) + 1
  /\ current \in DOMAIN arena
  /\ diagnosed \subseteq [event : DOMAIN ast, what : Diagnosis \cup Refusal]
  /\ generated \in BOOLEAN
  /\ codegen \in Value
  /\ operands \in Seq(Value)
  /\ saved \in Seq([node : Nat, current : DOMAIN arena, codegen : Value,
                    insert : Name \cup {NoFunction}])
  /\ insert \in Name \cup {NoFunction}
  /\ module \in [Name -> [state : {"absent", "open", "complete"}, arity : Nat,
                          uses : SUBSET Use, value : Value, event : Nat, input : Nat]]
  /\ \A k \in DOMAIN storage :
       storage[k] \in [kind : {"alloca", "argument"}, of : Name]

(* The vector of the entry that a key of storage is for. *)
Entries(k) == arena[k[1]].symbols[k[2]].decls

(* In source order, which the halving search of get needs. *)
Sorted(decls) == \A i, j \in DOMAIN decls : i < j => Before(decls[i].src, decls[j].src)

(* visitArgument and visitAssignName assume that the symbol exists when    *)
(* they get there (LlvmIrGenerator.cpp:151, :193), and dereference what    *)
(* get finds: it does find an entry, the vector being sorted.              *)
SymbolsExist == \A k \in DOMAIN storage : Sorted(Entries(k)) => k[3] \in DOMAIN Entries(k)

(* Whatever way the methods return, early ones included, the walk ends     *)
(* with every method left, and the builder and the table as it found them. *)
BuilderRestored ==
  pass = "gen" /\ pc = Len(ast) + 1 => saved = <<>> /\ insert = NoFunction /\ current = GlobalSymIndex

(* Between inputs the translation unit holds whole functions only, and     *)
(* they call functions it holds: the next input, the interpreter and the   *)
(* optimiser work on it, and an input that failed leaves its functions     *)
(* there as well.                                                          *)
ModuleWhole ==
  pass = "done" =>
    \A n \in Name :
      /\ module[n].state # "open"
      /\ \A u \in module[n].uses : u.kind = "call" => module[u.of].state = "complete"

(* Two declarations never share a slot or an argument: storage is set once, *)
(* for the entry of its own declaration (LlvmIrGenerator.cpp:166, :194), in *)
(* a vector that is sorted.                                                 *)
SetOnce ==
  \A k \in DOMAIN storage :
    k \in DOMAIN storage' /\ (Sorted(Entries(k)) => storage'[k] = storage[k])
SlotsNotShared == [][SetOnce]_storage
=============================================================================
