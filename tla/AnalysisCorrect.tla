-------------------------- MODULE AnalysisCorrect --------------------------
(***************************************************************************)
(* The analysis of module Analysis against the scoping rules of module     *)
(* Scoping: what two passes, an arena and binary searches come to, against *)
(* what the tree says.                                                     *)
(***************************************************************************)
EXTENDS Analysis, Scoping

Uses == {i \in DOMAIN ast : ast[i].op \in {"use", "target", "callee"}}

(* The entry of an SsaVector that a use comes to, as the code generator
   finds it again from def_table. *)
Found(i) ==
  LET key == ast[i].path[Len(ast[i].path)]
      t   == arena[def_table[i]]
  IN  t.symbols[key].decls[Get(t, key, ast[i].loc).at]

(* The use was resolved to declaration d. *)
ResolvedTo(i, d) ==
  LET s == ScopeOf(ast, d) IN
  /\ def_table[i] = IF s = GlobalScope THEN GlobalSymIndex ELSE locals[s]
  /\ Found(i) = [src |-> ast[d].loc, is_mut |-> ast[d].mut]

HomeInOrder(i) ==
  LET s == HomeOf(ast, i) IN
  s # NoScope => InSourceOrder(ast, s, ast[i].path[Len(ast[i].path)])

(* A variable is resolved to the declaration that the scoping rules give   *)
(* it, and to none when they give it none: both passes agree on the scopes *)
(* of the tree, lookup climbs and follows self and super through the right *)
(* tables, and get picks the right entry (VarRefPass.cpp:30, ast.cpp:1046, *)
(* SymTable.cpp:88).  It is stated where the declarations of the name were *)
(* inserted in source order, which is what the binary search needs.        *)
ResolvedAsScoped ==
  pass = "done" =>
    \A i \in Uses : HomeInOrder(i) =>
      LET r == Resolve(ast, i) IN
      IF r.kind = "declared"
      THEN def_table[i] # None /\ ResolvedTo(i, r.decl)
      ELSE def_table[i] = None

(* The errors of an input are those its events deserve, no more and no     *)
(* fewer, and visitVariable never meets a symbol that is not a variable:   *)
(* its third diagnostic (VarRefPass.cpp:43) is dead code.  After a crash   *)
(* the same holds of what was visited.                                     *)
ErrorsDeserved ==
  pass \in {"done", "crashed"} /\ (\A i \in Uses : HomeInOrder(i)) =>
    diagnosed = UNION {{[event |-> i, what |-> w] : w \in Deserved(ast, i)} :
                         i \in {j \in DOMAIN ast : \/ pass = "done" \/ j <= pc
                                                   \/ ast[j].op \in {"declare", "name", "arg"}}}

(* A pass ends in the global table with every method it entered left: each *)
(* visit method restores what it set, in whatever order nodes nest.        *)
PassesRestore ==
  pc = Len(ast) + 1 => frames = <<>> /\ current = GlobalSymIndex /\ context = "GLOBAL"

(* The pass is in the table of the scope its event stands in, and the      *)
(* context of a new table is that of the nodes around it.                  *)
InScope ==
  pass \in {"decl", "ref"} /\ pc \in DOMAIN ast =>
    LET s == ScopeOf(ast, pc)
        t == IF s = GlobalScope THEN GlobalSymIndex ELSE locals[s]
    IN  /\ current = t
        /\ arena[t].scope_context = ContextOf(ast, s)

-----------------------------------------------------------------------------
(* What documents say of the program, and the code does not do.            *)

(* README.md:8 has functions declared and called with arguments: whether a *)
(* function may have a parameter does not depend on the other functions.   *)
ParametersAreLocal == \A d \in diagnosed : d.what # "argument"
=============================================================================
