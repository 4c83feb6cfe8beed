------------------------------ MODULE Scoping ------------------------------
(***************************************************************************)
(* What the analysis of a program should come to, read off its syntax tree *)
(* alone: no arena, no tables, no passes.  A scope is the event that opens *)
(* it (a block or a scoped binding), 0 for the global one.  The rules are  *)
(* those of the diagnostics of src/VarDeclPass.cpp and src/VarRefPass.cpp  *)
(* and of the comments in incl/analysis/SymTable.h; the state machine of   *)
(* module Analysis is checked against them.                                *)
(***************************************************************************)
EXTENDS Ast

GlobalScope == 0
NoScope == -1

(* The innermost of the nodes of the given kinds that are open when the
   walk comes to event i, or 0. *)
Innermost(p, i, kinds) ==
  LET open == Open(p, kinds, i) IN
  IF open = {} THEN 0 ELSE CHOOSE o \in open : \A q \in open : q <= o

ScopeOf(p, i) == Innermost(p, i, {"block", "in"})

(* The scoping context of a scope is set by the function, the scoped
   binding or the type around it. *)
ContextOf(p, s) ==
  LET o == Innermost(p, s, {"fn", "in", "type"}) IN
  CASE s = GlobalScope                        -> "GLOBAL"
    [] s # GlobalScope /\ p[s].op = "in"      -> "SCOPE"
    [] s # GlobalScope /\ p[s].op = "block"   ->
         IF o = 0 THEN "GLOBAL" ELSE IF p[o].op = "type" THEN "TYPE" ELSE "SCOPE"

-----------------------------------------------------------------------------
(* Declarations.                                                           *)

(* self names every scope, super every scope but the global one. *)
IsKeyword(s, n) == n = "self" \/ (n = "super" /\ s # GlobalScope)

Names(p, d, n) == p[d].op \in {"declare", "name", "arg"} /\ p[d].path[1] = n

(* A name may be declared again in its scope, an argument may not take a
   name its scope already has. *)
Declares(p, d, s, n) ==
  /\ Names(p, d, n)
  /\ ScopeOf(p, d) = s
  /\ ~ IsKeyword(s, n)
  /\ p[d].op = "arg" =>
       \A e \in 1 .. d - 1 : ~ (Names(p, e, n) /\ ScopeOf(p, e) = s)

DeclarationsOf(p, s, n) == {d \in DOMAIN p : Declares(p, d, s, n)}

(* The declarations of the name are visited in the order of the source. *)
InSourceOrder(p, s, n) ==
  \A d, e \in DeclarationsOf(p, s, n) : d < e => Before(p[d].loc, p[e].loc)

-----------------------------------------------------------------------------
(* Uses.                                                                   *)

(* The nearest scope from s outwards that knows the name. *)
Nearest(p, s, n) ==
  LET climb[t \in 0 .. Len(p)] ==
        IF IsKeyword(t, n) \/ DeclarationsOf(p, t, n) # {} THEN t
        ELSE IF t = GlobalScope THEN NoScope
        ELSE climb[ScopeOf(p, t)]
  IN  climb[s]

(* The scope a path names before its last part: self stays, super leaves. *)
Qualified(p, s, parts) ==
  LET walk[n \in 0 .. Len(parts)] ==
        IF n = 0 THEN s
        ELSE CASE walk[n - 1] = NoScope                                 -> NoScope
               [] walk[n - 1] # NoScope /\ parts[n] = "self"            -> walk[n - 1]
               [] walk[n - 1] \notin {NoScope, GlobalScope}
                  /\ parts[n] = "super"                                 -> ScopeOf(p, walk[n - 1])
               [] OTHER                                                 -> NoScope
  IN  walk[Len(parts)]

(* The scope the path of event i looks for its last part in. *)
HomeOf(p, i) ==
  LET path   == p[i].path
      within == SubSeq(path, 1, Len(path) - 1)
  IN  CASE Len(path) = 1                      -> Nearest(p, ScopeOf(p, i), path[1])
        [] Len(path) > 1 /\ path[1] = ""      -> Qualified(p, GlobalScope, Tail(within))
        [] Len(path) > 1 /\ path[1] # ""      -> Qualified(p, ScopeOf(p, i), within)

(* The declaration a use means: the last one that does not come after it;
   outside functions, if there is none, the first one. *)
Resolve(p, i) ==
  LET n     == p[i].path[Len(p[i].path)]
      home  == HomeOf(p, i)
      decls == DeclarationsOf(p, home, n)
      prior == {d \in decls : ~ Before(p[i].loc, p[d].loc)}
      last  == CHOOSE d \in prior : \A e \in prior : ~ Before(p[d].loc, p[e].loc)
      first == CHOOSE d \in decls : \A e \in decls : ~ Before(p[e].loc, p[d].loc)
  IN  CASE home = NoScope \/ decls = {}        -> [kind |-> "undeclared", decl |-> 0]
        [] prior # {}                          -> [kind |-> "declared", decl |-> last]
        [] decls # {} /\ prior = {}            ->
             IF ContextOf(p, home) = "SCOPE"
             THEN [kind |-> "early", decl |-> 0]
             ELSE [kind |-> "declared", decl |-> first]

-----------------------------------------------------------------------------
(* Diagnostics: the errors that each event deserves.                       *)

Reassignment(p, i) ==
  LET target == i + p[i].link
      found  == Resolve(p, target)
  IN  CASE p[i].link = 0                                     -> {"nonvariable"}
        [] p[i].link # 0 /\ p[target].path[Len(p[target].path)] \in {"self", "super"}
                                                             -> {"keyword"}
        [] OTHER -> IF found.kind # "declared" THEN {"unknown"}
                    ELSE IF p[found.decl].mut THEN {} ELSE {"immutable"}

Deserved(p, i) ==
  CASE p[i].op \in {"declare", "name", "arg"} ->
         IF Declares(p, i, ScopeOf(p, i), p[i].path[1]) THEN {}
         ELSE IF p[i].op = "arg" THEN {"argument"} ELSE {"binding"}
    [] p[i].op \in {"use", "target", "callee"} -> {Resolve(p, i).kind} \ {"declared"}
    [] p[i].op = "assign"                      -> Reassignment(p, i)
    [] OTHER                                   -> {}
=============================================================================
