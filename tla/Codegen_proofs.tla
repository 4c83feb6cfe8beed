--------------------------- MODULE Codegen_proofs ---------------------------
(***************************************************************************)
(* Theorems about the code generator, for every set of programs: the       *)
(* builder and the module behind it, whatever path the methods take.       *)
(***************************************************************************)
EXTENDS Codegen, Analysis_proofs

(* The methods with a frame, and the scopes among them. *)
Methods == {"fn", "block", "in", "node", "then", "else"}
Scopes == {"block", "in"}
Fns == {"fn"}
Calls == {"call"}

(* The name that the declaration behind a function gives it. *)
NamesIn(p) == [f \in DOMAIN p |-> p[EndOf(p, f) + 1].path[1]]

(* The name by which the call at event c finds its function. *)
Callee(p, c) == LastName(p[EndOf(p, c) - 1].path)

(* The table and the insertion point that belong to event i. *)
TableFor(i, t) == InnermostHas(ast, Scopes, i, GlobalSymIndex, locals, t)
BuilderFor(i, n) == InnermostHas(ast, Fns, i, NoFunction, NamesIn(ast), n)

-----------------------------------------------------------------------------
(* The inductive invariant.                                                *)

(* What the analysis leaves to the generator. *)
Analysed ==
  /\ Walkable(ast) /\ WellLinked(ast)
  /\ inputs \in Nat
  /\ arena \in Seq(Table) /\ GlobalSymIndex \in DOMAIN arena
  /\ ParentsPrecede /\ KeywordsIntact
  /\ locals \in [DOMAIN ast -> {None} \cup DOMAIN arena]
  /\ def_table \in [DOMAIN ast -> {None} \cup DOMAIN arena]
  /\ pass \in {"decl", "ref"} => IInv
  /\ pass \in {"ref", "gen", "done"} =>
       \A i \in DOMAIN ast : ast[i].op \in Scopes => locals[i] # None

(* The frames are those of the methods around the event, and the table and *)
(* the insertion point are the ones the tree says, also those saved.       *)
Walking ==
  /\ pass \in {"decl", "ref", "done"} => saved = <<>>
  /\ pass = "gen" =>
       /\ StackOf(saved, ast, Methods, pc)
       /\ TableFor(pc, current) /\ BuilderFor(pc, insert)
       /\ \A k \in DOMAIN saved : /\ TableFor(saved[k].node, saved[k].current)
                                  /\ BuilderFor(saved[k].node, saved[k].insert)

(* Open are the functions around the event, each under its own name. *)
FunctionsOpen ==
  /\ pass = "gen" => \A f, g \in Open(ast, Fns, pc) :
       NamesIn(ast)[f] \in Name /\ (NamesIn(ast)[f] = NamesIn(ast)[g] => f = g)
  /\ pass # "crashed" => \A n \in Name :
       module[n].state = "open" <=> pass = "gen" /\ \E f \in Open(ast, Fns, pc) : NamesIn(ast)[f] = n

(* A call whose arguments are visited has passed the test for its function, *)
(* which is complete or around the call, and cannot go away before.         *)
CallsPending ==
  pass = "gen" => \A c \in Open(ast, Calls, pc) :
    /\ ast[EndOf(ast, c) - 1].op = "callee"
    /\ \/ module[Callee(ast, c)].state = "complete"
       \/ \E f \in Open(ast, Fns, pc) : f < c /\ NamesIn(ast)[f] = Callee(ast, c)

(* Calls in the module call what is there. *)
CallsMade ==
  pass # "crashed" => \A n \in Name :
    \A u \in module[n].uses : u.kind = "call" => module[u.of].state # "absent"

(* An argument as a value comes from a variable that has storage. *)
UseKey(i) == Slot(def_table[i], LastName(ast[i].path), ast[i].loc)
Backed(v) == v.type = "argument" => v.at \in DOMAIN ast /\ UseKey(v.at) \in DOMAIN storage

ValuesBacked ==
  pass = "gen" => Backed(codegen) /\ \A k \in DOMAIN saved : Backed(saved[k].codegen)

(* Functions come from this input or an earlier one. *)
InputsPast == \A n \in Name : module[n].input \in 0 .. inputs

GInv ==
  /\ Analysed /\ GenTypeOK /\ Walking /\ FunctionsOpen
  /\ CallsPending /\ CallsMade /\ ValuesBacked /\ InputsPast

-----------------------------------------------------------------------------
(* One step of the walk.                                                   *)

SavedFrame == [node : Nat, current : DOMAIN arena, codegen : Value, insert : Name \cup {NoFunction}]

Fn == [state : {"absent", "open", "complete"}, arity : Nat, uses : SUBSET Use, value : Value,
       event : Nat, input : Nat]

LEMMA Kinds ==
  /\ Methods \in SUBSET Openers /\ Scopes \in SUBSET Openers
  /\ Fns \in SUBSET Openers /\ Calls \in SUBSET Openers
  BY DEF Methods, Scopes, Fns, Calls, Openers

LEMMA EventFields ==
  ASSUME NEW p \in Seq(Event), NEW i \in DOMAIN p
  PROVE  p[i].link \in Int /\ p[i].path \in Seq(Name \cup {""}) /\ i \in Nat /\ i >= 1
<1>1. p[i] \in Event /\ i \in Nat /\ i >= 1
  OBVIOUS
<1>2. p[i].link \in Int /\ p[i].path \in Seq(Name \cup {""})
  BY <1>1 DEF Event
<1> QED
  BY <1>1, <1>2

(* What is known wherever an event is visited. *)
LEMMA GenFacts ==
  ASSUME GInv, pass = "gen"
  PROVE  /\ Walkable(ast) /\ ast \in Seq(Event) /\ WellLinked(ast)
         /\ DOMAIN ast = 1 .. Len(ast) /\ Len(ast) \in Nat /\ pc \in 1 .. Len(ast) + 1
         /\ pc \in Nat /\ inputs \in Nat
         /\ saved \in Seq(SavedFrame) /\ insert \in Name \cup {NoFunction}
         /\ codegen \in Value /\ operands \in Seq(Value) /\ module \in [Name -> Fn]
         /\ current \in DOMAIN arena /\ locals \in [DOMAIN ast -> {None} \cup DOMAIN arena]
         /\ GlobalSymIndex \in DOMAIN arena
         /\ \A i \in DOMAIN ast : ast[i].op \in Scopes => locals[i] \in DOMAIN arena
         /\ diagnosed \subseteq [event : DOMAIN ast, what : Diagnosis \cup Refusal]
<1>1. Walkable(ast) /\ ast \in Seq(Event) /\ WellLinked(ast)
  BY DEF GInv, Analysed, Walkable
<1>2. DOMAIN ast = 1 .. Len(ast) /\ Len(ast) \in Nat /\ pc \in 1 .. Len(ast) + 1 /\ pc \in Nat
  BY <1>1 DEF GInv, GenTypeOK
<1>3. /\ saved \in Seq(SavedFrame) /\ insert \in Name \cup {NoFunction}
      /\ codegen \in Value /\ operands \in Seq(Value) /\ module \in [Name -> Fn]
      /\ current \in DOMAIN arena
      /\ diagnosed \subseteq [event : DOMAIN ast, what : Diagnosis \cup Refusal]
  BY DEF GInv, GenTypeOK, SavedFrame, Fn
<1>4. /\ locals \in [DOMAIN ast -> {None} \cup DOMAIN arena] /\ inputs \in Nat
      /\ GlobalSymIndex \in DOMAIN arena
      /\ \A i \in DOMAIN ast : ast[i].op \in Scopes => locals[i] # None
  BY DEF GInv, Analysed
<1>5. \A i \in DOMAIN ast : ast[i].op \in Scopes => locals[i] \in DOMAIN arena
  BY <1>4
<1> QED
  BY <1>1, <1>2, <1>3, <1>4, <1>5

(* What every step of the generator leaves alone. *)
Aside ==
  /\ pass = "gen" /\ pass' = "gen"
  /\ UNCHANGED <<inputs, ast, generated>> /\ UnchangedAnalysis

LEMMA AnalysedKept ==
  ASSUME GInv, pass \in {"gen", "done"}, pass' \in {"gen", "done", "crashed"},
         UNCHANGED <<inputs, ast>>, UnchangedAnalysis
  PROVE  Analysed'
  BY DEF GInv, Analysed, UnchangedAnalysis, ParentsPrecede, KeywordsIntact

(* The keys of storage depend on the analysis only. *)
LEMMA UseKeyKept ==
  ASSUME UNCHANGED ast, UnchangedAnalysis
  PROVE  \A i : UseKey(i)' = UseKey(i)
  BY DEF UseKey, Slot, Get, UnchangedAnalysis

LEMMA BackedKept ==
  ASSUME UNCHANGED ast, UnchangedAnalysis, DOMAIN storage \subseteq DOMAIN storage',
         NEW v, Backed(v), NEW w, w = v
  PROVE  Backed(w)'
  BY UseKeyKept DEF Backed

(* The walk goes on where the same methods, scopes and functions are open. *)
LEMMA WalkingOn ==
  ASSUME GInv, Aside, UNCHANGED <<current, saved, insert>>,
         \A kinds \in {Methods, Scopes, Fns} : Open(ast, kinds, pc') = Open(ast, kinds, pc)
  PROVE  Walking'
<1>1. ast' = ast /\ locals' = locals /\ pass = "gen" /\ pass' = "gen"
  BY DEF Aside, UnchangedAnalysis
<1>2. StackOf(saved, ast, Methods, pc')
  BY <1>1, StackKept DEF GInv, Walking
<1>3. /\ InnermostHas(ast, Scopes, pc', GlobalSymIndex, locals, current)
      /\ InnermostHas(ast, Fns, pc', NoFunction, NamesIn(ast), insert)
  BY <1>1, AroundKept DEF GInv, Walking, TableFor, BuilderFor
<1>4. \A k \in DOMAIN saved :
        /\ InnermostHas(ast, Scopes, saved[k].node, GlobalSymIndex, locals, saved[k].current)
        /\ InnermostHas(ast, Fns, saved[k].node, NoFunction, NamesIn(ast), saved[k].insert)
  BY <1>1 DEF GInv, Walking, TableFor, BuilderFor
<1> QED
  BY <1>1, <1>2, <1>3, <1>4 DEF Walking, TableFor, BuilderFor

-----------------------------------------------------------------------------
(* What a step may do to the module while functions stay open and closed.  *)

(* A function gains uses, and calls among them only of what is there. *)
OnlyUses ==
  /\ module' \in [Name -> Fn]
  /\ \A n \in Name :
       /\ module'[n].state = module[n].state /\ module'[n].input = module[n].input
       /\ module[n].state # "open" => module'[n] = module[n]
       /\ \A u \in module'[n].uses :
            u.kind = "call" => u \in module[n].uses \/ module[u.of].state # "absent"

LEMMA NothingUsed ==
  ASSUME GInv, UNCHANGED module
  PROVE  OnlyUses
  BY DEF OnlyUses, GInv, GenTypeOK, Fn

(* The builder is in the innermost open function. *)
LEMMA InsertOpen ==
  ASSUME GInv, pass = "gen", insert # NoFunction
  PROVE  insert \in Name /\ module[insert].state = "open"
<1>1. BuilderFor(pc, insert)
  BY DEF GInv, Walking
<1>2. PICK o \in Open(ast, Fns, pc) : insert = NamesIn(ast)[o]
  BY <1>1 DEF BuilderFor, InnermostHas
<1>3. insert \in Name
  BY <1>2 DEF GInv, FunctionsOpen
<1> QED
  BY <1>2, <1>3 DEF GInv, FunctionsOpen

LEMMA Emitted ==
  ASSUME GInv, pass = "gen", NEW kind \in {"call", "load", "store", "argument"}, NEW of \in Name,
         Emit(kind, of), kind = "call" => module[of].state # "absent"
  PROVE  OnlyUses
<1> DEFINE use == [kind |-> kind, of |-> of, event |-> pc, input |-> inputs]
<1>1. module \in [Name -> Fn] /\ use \in Use
  BY GenFacts DEF Use
<1>2. use.kind = kind /\ use.of = of
  OBVIOUS
<1>3. module' = IF insert = NoFunction THEN module ELSE [module EXCEPT ![insert].uses = @ \cup {use}]
  BY DEF Emit
<1> HIDE DEF use
<1>4. CASE insert = NoFunction
  BY <1>3, <1>4, NothingUsed
<1>5. CASE insert # NoFunction
  <2>1. insert \in Name /\ module[insert].state = "open"
    BY <1>5, InsertOpen
  <2> DEFINE f == [module[insert] EXCEPT !.uses = @ \cup {use}]
  <2>2. module' = [module EXCEPT ![insert] = f]
    BY <1>3, <1>5
  <2>3. /\ f \in Fn /\ f.state = module[insert].state /\ f.input = module[insert].input
        /\ f.uses = module[insert].uses \cup {use}
    BY <1>1, <2>1 DEF Fn
  <2> HIDE DEF f
  <2>4. /\ module' \in [Name -> Fn] /\ module'[insert] = f
        /\ \A n \in Name : n # insert => module'[n] = module[n]
    BY <1>1, <2>1, <2>2, <2>3
  <2> QED
    BY <1>2, <2>1, <2>3, <2>4 DEF OnlyUses
<1> QED
  BY <1>4, <1>5

(* What a call calls has a name. *)
LEMMA CalleeNamed ==
  ASSUME GInv, pass = "gen", NEW c \in Open(ast, Calls, pc)
  PROVE  Callee(ast, c) \in Name
<1>1. /\ Walkable(ast) /\ WellLinked(ast) /\ DOMAIN ast = 1 .. Len(ast) /\ Len(ast) \in Nat
      /\ pc \in 1 .. Len(ast) + 1
  BY GenFacts
<1>2. c \in DOMAIN ast /\ ast[c].op \in Openers /\ c \in Nat /\ c >= 1
  BY <1>1, Kinds, OpenIsOpener
<1>3. EndOf(ast, c) \in DOMAIN ast /\ c < EndOf(ast, c) /\ EndOf(ast, c) \in Nat
  BY <1>1, <1>2, Ends
<1>4. EndOf(ast, c) - 1 \in DOMAIN ast
  BY <1>1, <1>2, <1>3
<1>5. ast[EndOf(ast, c) - 1].op = "callee"
  BY DEF GInv, CallsPending
<1> QED
  BY <1>1, <1>4, <1>5 DEF WellLinked, Callee, LastName

(* Where the same functions are open, and no other calls. *)
LEMMA FunctionsKept ==
  ASSUME GInv, Aside, OnlyUses,
         Open(ast, Fns, pc') = Open(ast, Fns, pc), Open(ast, Calls, pc') \subseteq Open(ast, Calls, pc)
  PROVE  FunctionsOpen' /\ CallsPending' /\ CallsMade' /\ InputsPast'
<1>1. /\ pass = "gen" /\ pass' = "gen" /\ ast' = ast /\ inputs' = inputs
      /\ \A n \in Name : module'[n].state = module[n].state /\ module'[n].input = module[n].input
  BY DEF Aside, OnlyUses
<1>2. FunctionsOpen'
  BY <1>1 DEF GInv, FunctionsOpen
<1>3. CallsPending'
  <2> SUFFICES ASSUME NEW c \in Open(ast, Calls, pc')
               PROVE  /\ ast[EndOf(ast, c) - 1].op = "callee"
                      /\ \/ module'[Callee(ast, c)].state = "complete"
                         \/ \E f \in Open(ast, Fns, pc) : f < c /\ NamesIn(ast)[f] = Callee(ast, c)
    BY <1>1 DEF CallsPending
  <2>1. /\ ast[EndOf(ast, c) - 1].op = "callee"
        /\ \/ module[Callee(ast, c)].state = "complete"
           \/ \E f \in Open(ast, Fns, pc) : f < c /\ NamesIn(ast)[f] = Callee(ast, c)
    BY <1>1 DEF GInv, CallsPending
  <2>2. Callee(ast, c) \in Name
    BY <1>1, CalleeNamed
  <2> QED
    BY <1>1, <2>1, <2>2
<1>4. CallsMade'
  <2> SUFFICES ASSUME NEW n \in Name, NEW u \in module'[n].uses, u.kind = "call"
               PROVE  module'[u.of].state # "absent"
    BY DEF CallsMade
  <2>1. module'[n] \in Fn
    BY DEF OnlyUses
  <2>2. u.of \in Name
    BY <2>1 DEF Fn, Use
  <2>3. module[u.of].state # "absent"
    BY <1>1 DEF OnlyUses, GInv, CallsMade
  <2> QED
    BY <1>1, <2>2, <2>3
<1>5. InputsPast'
  BY <1>1 DEF GInv, InputsPast
<1> QED
  BY <1>2, <1>3, <1>4, <1>5

-----------------------------------------------------------------------------
(* What a step does to values, storage and errors, and all of the invariant. *)

Data ==
  /\ diagnosed' \subseteq [event : DOMAIN ast, what : Diagnosis \cup Refusal]
  /\ codegen' \in Value /\ operands' \in Seq(Value)
  /\ DOMAIN storage \subseteq DOMAIN storage'
  /\ \A k \in DOMAIN storage' : storage'[k] \in [kind : {"alloca", "argument"}, of : Name]

LEMMA SameData ==
  ASSUME GInv, pass = "gen",
         UNCHANGED storage, codegen' \in Value, operands' \in Seq(Value),
         UNCHANGED diagnosed
           \/ \E what \in Refusal : diagnosed' = diagnosed \cup {[event |-> pc, what |-> what]},
         pc \in DOMAIN ast
  PROVE  Data
<1>1. diagnosed \subseteq [event : DOMAIN ast, what : Diagnosis \cup Refusal]
  BY GenFacts
<1>2. \A k \in DOMAIN storage' : storage'[k] \in [kind : {"alloca", "argument"}, of : Name]
  BY DEF GInv, GenTypeOK
<1> QED
  BY <1>1, <1>2 DEF Data

(* Values that were saved keep their storage. *)
LEMMA SavedBacked ==
  ASSUME GInv, Aside, Data,
         \A k \in DOMAIN saved' :
           saved'[k].codegen = codegen \/ \E l \in DOMAIN saved : saved'[k].codegen = saved[l].codegen
  PROVE  \A k \in DOMAIN saved' : Backed(saved[k].codegen)'
<1>1. UNCHANGED ast /\ UnchangedAnalysis /\ DOMAIN storage \subseteq DOMAIN storage' /\ pass = "gen"
  BY DEF Aside, Data
<1>2. TAKE k \in DOMAIN saved'
<1>3. PICK v : Backed(v) /\ saved'[k].codegen = v
  BY <1>1 DEF GInv, ValuesBacked
<1> QED
  BY <1>1, <1>3, UseKeyKept DEF Backed

LEMMA Settled ==
  ASSUME GInv, Aside, Data, pc' \in 1 .. Len(ast) + 1, current' \in DOMAIN arena,
         saved' \in Seq(SavedFrame), insert' \in Name \cup {NoFunction}, module' \in [Name -> Fn],
         Walking', FunctionsOpen', CallsPending', CallsMade', InputsPast',
         Backed(codegen)', \A k \in DOMAIN saved' : Backed(saved[k].codegen)'
  PROVE  GInv'
<1>1. Analysed'
  BY AnalysedKept DEF Aside
<1>2. GenTypeOK'
  BY DEF GInv, GenTypeOK, Aside, UnchangedAnalysis, Data, SavedFrame, Fn
<1>3. ValuesBacked'
  BY DEF ValuesBacked
<1> QED
  BY <1>1, <1>2, <1>3 DEF GInv

(* The closing events of the methods and of calls. *)
MethodEnds == {"endfn", "end", "endin", "endnode", "endthen", "endelse"}

(* An event that neither enters nor leaves a method. *)
LEMMA PlainStep ==
  ASSUME GInv, pass = "gen", pc \in DOMAIN ast, Continue, UnchangedAnalysis,
         ast[pc].op \notin Methods \cup Calls \cup MethodEnds,
         UNCHANGED <<current, generated, saved, insert>>,
         Data, OnlyUses, Backed(codegen)'
  PROVE  GInv'
<1>1. Aside /\ pc' = pc + 1 /\ ast' = ast
  BY DEF Aside, Continue
<1>2. /\ Walkable(ast) /\ DOMAIN ast = 1 .. Len(ast) /\ Len(ast) \in Nat
      /\ saved \in Seq(SavedFrame) /\ insert \in Name \cup {NoFunction} /\ current \in DOMAIN arena
  BY GenFacts
<1>3. \A kinds \in {Methods, Scopes, Fns} : Open(ast, kinds, pc') = Open(ast, kinds, pc)
  <2> SUFFICES ASSUME NEW kinds \in {Methods, Scopes, Fns}
               PROVE  Open(ast, kinds, pc + 1) = Open(ast, kinds, pc)
    BY <1>1
  <2>1. ast[pc].op \notin kinds /\ \A k \in kinds : <<k, ast[pc].op>> \notin Brackets
    BY DEF Methods, Scopes, Fns, MethodEnds, Brackets
  <2>2. kinds \in SUBSET Openers
    BY Kinds
  <2> QED
    BY <1>2, <2>1, <2>2, OpenAfterOther
<1>4. Open(ast, Calls, pc') \subseteq Open(ast, Calls, pc)
  BY <1>1, <1>2, Kinds, OpenShrinks
<1>5. Walking'
  BY <1>1, <1>3, WalkingOn
<1>6. FunctionsOpen' /\ CallsPending' /\ CallsMade' /\ InputsPast'
  BY <1>1, <1>3, <1>4, FunctionsKept
<1>7. \A k \in DOMAIN saved' : Backed(saved[k].codegen)'
  BY <1>1, SavedBacked
<1>8. pc' \in 1 .. Len(ast) + 1 /\ module' \in [Name -> Fn]
  BY <1>1, <1>2 DEF OnlyUses
<1> QED
  BY <1>1, <1>2, <1>5, <1>6, <1>7, <1>8, Settled

(* A node that is passed over: the walk goes on behind it. *)
LEMMA SkipStep ==
  ASSUME GInv, Aside, pc \in DOMAIN ast, ast[pc].op \in Openers, pc' = EndOf(ast, pc) + 1,
         UNCHANGED <<current, saved, insert, module, codegen>>, Data
  PROVE  GInv'
<1>1. pass = "gen" /\ UNCHANGED ast /\ UnchangedAnalysis
  BY DEF Aside
<1>2. /\ Walkable(ast) /\ saved \in Seq(SavedFrame) /\ insert \in Name \cup {NoFunction}
      /\ current \in DOMAIN arena /\ module \in [Name -> Fn]
  BY <1>1, GenFacts
<1>3. \A kinds \in {Methods, Scopes, Fns, Calls} : Open(ast, kinds, pc') = Open(ast, kinds, pc)
  BY <1>2, Kinds, OpenBehind
<1>4. Walking'
  BY <1>3, WalkingOn
<1>5. FunctionsOpen' /\ CallsPending' /\ CallsMade' /\ InputsPast'
  BY <1>3, FunctionsKept, NothingUsed
<1>6. \A k \in DOMAIN saved' : Backed(saved[k].codegen)'
  BY SavedBacked
<1>7. Backed(codegen)'
  <2>1. Backed(codegen) /\ DOMAIN storage \subseteq DOMAIN storage'
    BY <1>1 DEF GInv, ValuesBacked, Data
  <2> QED
    BY <1>1, <2>1, UseKeyKept DEF Backed
<1>8. pc' \in 1 .. Len(ast) + 1
  BY <1>2, Ends
<1> QED
  BY <1>2, <1>4, <1>5, <1>6, <1>7, <1>8, Settled

(* A frame that is pushed, and the table and insertion point saved in it. *)
LEMMA WalkingInto ==
  ASSUME GInv, Aside, pc \in DOMAIN ast, ast[pc].op \in Methods, Save,
         TableFor(pc, current)', BuilderFor(pc, insert)',
         Open(ast, Methods, pc') = Open(ast, Methods, pc + 1)
  PROVE  Walking' /\ saved' \in Seq(SavedFrame)
<1> DEFINE frame == [node |-> pc, current |-> current, codegen |-> codegen, insert |-> insert]
<1>1. pass = "gen" /\ ast' = ast /\ locals' = locals
  BY DEF Aside, UnchangedAnalysis
<1>2. /\ Walkable(ast) /\ saved \in Seq(SavedFrame) /\ frame \in SavedFrame
      /\ DOMAIN saved = 1 .. Len(saved) /\ Len(saved) \in Nat
  BY <1>1, GenFacts DEF SavedFrame
<1>3. /\ frame.node = pc /\ frame.current = current /\ frame.insert = insert
      /\ saved' = <<frame>> \o saved
  BY DEF Save
<1> HIDE DEF frame
<1>4. saved' \in Seq(SavedFrame)
  BY <1>2, <1>3
<1>5. StackOf(saved', ast, Methods, pc')
  <2>1. StackOf(saved, ast, Methods, pc)
    BY <1>1 DEF GInv, Walking
  <2>2. StackOf(<<frame>> \o saved, ast, Methods, pc + 1)
    BY <1>2, <1>3, <2>1, Kinds, Pushed
  <2> QED
    BY <1>3, <2>2, StackKept
<1>6. ASSUME NEW k \in DOMAIN saved'
      PROVE  TableFor(saved[k].node, saved[k].current)' /\ BuilderFor(saved[k].node, saved[k].insert)'
  <2>1. /\ TableFor(pc, current) /\ BuilderFor(pc, insert)
        /\ \A l \in DOMAIN saved : /\ TableFor(saved[l].node, saved[l].current)
                                   /\ BuilderFor(saved[l].node, saved[l].insert)
    BY <1>1 DEF GInv, Walking
  <2>2. TableFor(saved'[k].node, saved'[k].current) /\ BuilderFor(saved'[k].node, saved'[k].insert)
    <3>1. saved'[k] = frame \/ \E l \in DOMAIN saved : saved'[k] = saved[l]
      BY <1>2, <1>3
    <3> QED
      BY <1>3, <2>1, <3>1
  <2> QED
    BY <1>1, <2>2 DEF TableFor, BuilderFor
<1> QED
  BY <1>4, <1>1, <1>5, <1>6 DEF Walking, Aside

LEMMA PushedBacked ==
  ASSUME GInv, Aside, Data, Save, saved' \in Seq(SavedFrame)
  PROVE  \A k \in DOMAIN saved' : Backed(saved[k].codegen)'
<1> DEFINE frame == [node |-> pc, current |-> current, codegen |-> codegen, insert |-> insert]
<1>1. saved' = <<frame>> \o saved /\ frame.codegen = codegen /\ saved \in Seq(SavedFrame) /\ frame \in SavedFrame
  BY GenFacts DEF Save, Aside, SavedFrame
<1> HIDE DEF frame
<1>2. \A k \in DOMAIN saved' : saved'[k] = frame \/ \E l \in DOMAIN saved : saved'[k] = saved[l]
  BY <1>1
<1> QED
  BY <1>1, <1>2, SavedBacked

LEMMA PushStep ==
  ASSUME GInv, pass = "gen", pc \in DOMAIN ast, Continue, UnchangedAnalysis, Save,
         ast[pc].op \in Methods \ Fns,
         current' = IF ast[pc].op \in Scopes THEN locals[pc] ELSE current,
         UNCHANGED <<generated, insert, module>>, Data, codegen' \in {codegen, Null},
         UNCHANGED storage
  PROVE  GInv'
<1>1. Aside /\ pc' = pc + 1 /\ ast' = ast /\ locals' = locals
  BY DEF Aside, Continue, UnchangedAnalysis
<1>2. /\ Walkable(ast) /\ DOMAIN ast = 1 .. Len(ast) /\ Len(ast) \in Nat
      /\ saved \in Seq(SavedFrame) /\ insert \in Name \cup {NoFunction} /\ current \in DOMAIN arena
      /\ \A i \in DOMAIN ast : ast[i].op \in Scopes => locals[i] \in DOMAIN arena
      /\ module \in [Name -> Fn]
  BY GenFacts
<1>3. ast[pc].op \in Openers /\ ast[pc].op \notin Fns \cup Calls
  BY DEF Methods, Fns, Calls, Openers
<1>4. \A kinds \in {Methods, Scopes, Fns, Calls} :
        ast[pc].op \notin kinds => Open(ast, kinds, pc') = Open(ast, kinds, pc)
  <2> SUFFICES ASSUME NEW kinds \in {Methods, Scopes, Fns, Calls}, ast[pc].op \notin kinds
               PROVE  Open(ast, kinds, pc + 1) = Open(ast, kinds, pc)
    BY <1>1
  <2>1. kinds \in SUBSET Openers
    BY Kinds
  <2>2. Open(ast, kinds, pc + 1) =
          Open(ast, kinds, pc) \cup (IF ast[pc].op \in kinds THEN {pc} ELSE {})
    BY <1>2, <1>3, <2>1, OpenAfterOpener
  <2> QED
    BY <2>2
<1>5. TableFor(pc, current)'
  <2>1. InnermostHas(ast, Scopes, pc, GlobalSymIndex, locals, current)
    BY DEF GInv, Walking, TableFor
  <2>2. InnermostHas(ast, Scopes, pc', GlobalSymIndex, locals, current')
    <3>1. CASE ast[pc].op \in Scopes
      BY <1>1, <1>2, <3>1, Kinds, AroundOpened
    <3>2. CASE ast[pc].op \notin Scopes
      BY <1>4, <2>1, <3>2, AroundKept
    <3> QED
      BY <3>1, <3>2
  <2> QED
    BY <1>1, <2>2 DEF TableFor
<1>6. BuilderFor(pc, insert)'
  <2>1. InnermostHas(ast, Fns, pc, NoFunction, NamesIn(ast), insert)
    BY DEF GInv, Walking, BuilderFor
  <2>2. InnermostHas(ast, Fns, pc', NoFunction, NamesIn(ast), insert)
    BY <1>3, <1>4, <2>1, AroundKept
  <2> QED
    BY <1>1, <2>2 DEF BuilderFor
<1>7. Walking' /\ saved' \in Seq(SavedFrame)
  BY <1>1, <1>5, <1>6, WalkingInto
<1>8. FunctionsOpen' /\ CallsPending' /\ CallsMade' /\ InputsPast'
  BY <1>1, <1>3, <1>4, FunctionsKept, NothingUsed
<1>9. Backed(codegen)'
  <2>1. Backed(codegen) /\ Backed(Null)
    BY DEF GInv, ValuesBacked, Backed, Null
  <2> QED
    BY <1>1, <2>1, UseKeyKept DEF Backed
<1>10. \A k \in DOMAIN saved' : Backed(saved[k].codegen)'
  BY <1>1, <1>7, PushedBacked
<1>11. /\ pc' \in 1 .. Len(ast) + 1 /\ module' \in [Name -> Fn] /\ current' \in DOMAIN arena
       /\ insert' \in Name \cup {NoFunction}
  BY <1>1, <1>2
<1> QED
  BY <1>1, <1>7, <1>8, <1>9, <1>10, <1>11, Settled

(* The event that ends a method, and the method. *)
LEMMA Ending ==
  ASSUME GInv, pass = "gen", pc \in DOMAIN ast, ast[pc].op \in MethodEnds \cup {"endcall"}
  PROVE  \E i \in DOMAIN ast :
           /\ pc = EndOf(ast, i) /\ ast[i].op \in Methods \cup Calls /\ <<ast[i].op, ast[pc].op>> \in Brackets
           /\ ast[i].op \in Fns <=> ast[pc].op = "endfn"
           /\ ast[i].op \in Calls <=> ast[pc].op = "endcall"
           /\ ast[i].op \in Scopes <=> ast[pc].op \in {"end", "endin"}
<1>1. Walkable(ast)
  BY GenFacts
<1>2. ast[pc].op \in Closers
  BY DEF Closers, MethodEnds
<1>3. PICK i \in DOMAIN ast :
        ast[i].op \in Openers /\ EndOf(ast, i) = pc /\ <<ast[i].op, ast[pc].op>> \in Brackets
  BY <1>1, <1>2, Opened
<1> QED
  BY <1>3 DEF Brackets, MethodEnds, Methods, Scopes, Fns, Calls

(* The frame of the method that ends is on top, with what it saved. *)
LEMMA TopFrame ==
  ASSUME GInv, pass = "gen", NEW i \in DOMAIN ast, ast[i].op \in Methods, pc = EndOf(ast, i)
  PROVE  /\ 1 \in DOMAIN saved /\ saved[1] \in SavedFrame /\ saved # <<>>
         /\ TableFor(i, saved[1].current) /\ BuilderFor(i, saved[1].insert)
         /\ Backed(saved[1].codegen)
         /\ Tail(saved) \in Seq(SavedFrame)
         /\ StackOf(Tail(saved), ast, Methods, pc + 1)
         /\ \A k \in DOMAIN Tail(saved) : k + 1 \in DOMAIN saved /\ Tail(saved)[k] = saved[k + 1]
<1>1. Walkable(ast) /\ saved \in Seq(SavedFrame)
  BY GenFacts
<1>2. StackOf(saved, ast, Methods, EndOf(ast, i))
  BY DEF GInv, Walking
<1>3. saved # <<>> /\ 1 \in DOMAIN saved /\ saved[1] \in SavedFrame /\ saved[1].node = i
  BY <1>1, <1>2, Kinds, OnTop
<1>4. Tail(saved) \in Seq(SavedFrame) /\ StackOf(Tail(saved), ast, Methods, EndOf(ast, i) + 1)
  BY <1>1, <1>2, Kinds, Popped
<1>6. \A k \in DOMAIN Tail(saved) : k + 1 \in DOMAIN saved /\ Tail(saved)[k] = saved[k + 1]
  BY <1>1, <1>3
<1>5. /\ TableFor(i, saved[1].current) /\ BuilderFor(i, saved[1].insert)
      /\ Backed(saved[1].codegen)
  BY <1>3 DEF GInv, Walking, ValuesBacked
<1> QED
  BY <1>3, <1>4, <1>5, <1>6

LEMMA WalkingOutOf ==
  ASSUME GInv, Aside, pc \in DOMAIN ast, pc' = pc + 1,
         NEW i \in DOMAIN ast, ast[i].op \in Methods, pc = EndOf(ast, i),
         saved' = Tail(saved), TableFor(pc, current)', BuilderFor(pc, insert)'
  PROVE  Walking' /\ saved' \in Seq(SavedFrame)
<1>1. pass = "gen" /\ ast' = ast /\ locals' = locals /\ pass' = "gen"
  BY DEF Aside, UnchangedAnalysis
<1>2. /\ saved' \in Seq(SavedFrame) /\ StackOf(saved', ast, Methods, pc')
      /\ \A k \in DOMAIN saved' : k + 1 \in DOMAIN saved /\ saved'[k] = saved[k + 1]
  BY <1>1, TopFrame
<1>3. ASSUME NEW k \in DOMAIN saved'
      PROVE  TableFor(saved[k].node, saved[k].current)' /\ BuilderFor(saved[k].node, saved[k].insert)'
  <2>1. \A l \in DOMAIN saved : /\ TableFor(saved[l].node, saved[l].current)
                                /\ BuilderFor(saved[l].node, saved[l].insert)
    BY <1>1 DEF GInv, Walking
  <2>2. TableFor(saved'[k].node, saved'[k].current) /\ BuilderFor(saved'[k].node, saved'[k].insert)
    BY <1>2, <2>1
  <2> QED
    BY <1>1, <2>2 DEF TableFor, BuilderFor
<1> QED
  BY <1>1, <1>2, <1>3 DEF Walking

(* The frames below the one on top. *)
LEMMA TailBacked ==
  ASSUME GInv, Aside, Data, NEW i \in DOMAIN ast, ast[i].op \in Methods, pc = EndOf(ast, i),
         saved' = Tail(saved)
  PROVE  /\ \A k \in DOMAIN saved' : Backed(saved[k].codegen)'
         /\ codegen' \in {codegen, saved[1].codegen} => Backed(codegen)'
<1>1. pass = "gen" /\ UNCHANGED ast /\ UnchangedAnalysis /\ DOMAIN storage \subseteq DOMAIN storage'
  BY DEF Aside, Data
<1>2. \A k \in DOMAIN saved' : k + 1 \in DOMAIN saved /\ saved'[k] = saved[k + 1]
  BY <1>1, TopFrame
<1>3. \A k \in DOMAIN saved' : Backed(saved[k].codegen)'
  BY <1>2, SavedBacked
<1>4. Backed(codegen) /\ Backed(saved[1].codegen)
  BY <1>1, TopFrame DEF GInv, ValuesBacked
<1>5. codegen' \in {codegen, saved[1].codegen} => Backed(codegen)'
  BY <1>1, <1>4, UseKeyKept DEF Backed
<1> QED
  BY <1>3, <1>5

LEMMA EndsWithFrame ==
  ASSUME GInv, pass = "gen", pc \in DOMAIN ast, ast[pc].op \in MethodEnds
  PROVE  saved[1] \in SavedFrame
<1>1. PICK i \in DOMAIN ast :
        /\ pc = EndOf(ast, i) /\ ast[i].op \in Methods \cup Calls /\ <<ast[i].op, ast[pc].op>> \in Brackets
        /\ ast[i].op \in Calls <=> ast[pc].op = "endcall"
  BY Ending
<1>2. ast[i].op \in Methods
  BY <1>1 DEF MethodEnds
<1> QED
  BY <1>1, <1>2, TopFrame

LEMMA PopStep ==
  ASSUME GInv, pass = "gen", pc \in DOMAIN ast, Continue, UnchangedAnalysis,
         ast[pc].op \in MethodEnds \ {"endfn"}, saved' = Tail(saved),
         current' = IF ast[pc].op \in {"end", "endin"} THEN saved[1].current ELSE current,
         UNCHANGED <<generated, insert, module>>, Data, codegen' \in {codegen, saved[1].codegen}
  PROVE  GInv'
<1>1. Aside /\ pc' = pc + 1 /\ ast' = ast /\ locals' = locals
  BY DEF Aside, Continue, UnchangedAnalysis
<1>2. /\ Walkable(ast) /\ DOMAIN ast = 1 .. Len(ast) /\ Len(ast) \in Nat
      /\ insert \in Name \cup {NoFunction} /\ current \in DOMAIN arena /\ module \in [Name -> Fn]
  BY GenFacts
<1>3. PICK i \in DOMAIN ast :
        /\ pc = EndOf(ast, i) /\ ast[i].op \in Methods \cup Calls /\ <<ast[i].op, ast[pc].op>> \in Brackets
        /\ ast[i].op \in Fns <=> ast[pc].op = "endfn"
        /\ ast[i].op \in Calls <=> ast[pc].op = "endcall"
        /\ ast[i].op \in Scopes <=> ast[pc].op \in {"end", "endin"}
  BY Ending
<1>4. ast[i].op \in Methods /\ ast[i].op \notin Fns \cup Calls /\ ast[i].op \in Openers
  BY <1>3 DEF MethodEnds, Methods, Calls, Fns, Openers
<1>5. \A kinds \in {Methods, Scopes, Fns, Calls} : Open(ast, kinds, pc') = Open(ast, kinds, i)
  BY <1>1, <1>2, <1>3, <1>4, Kinds, OpenBehind
<1>6. \A kinds \in {Scopes, Fns, Calls} :
        ast[i].op \notin kinds => Open(ast, kinds, pc') = Open(ast, kinds, pc)
  <2> SUFFICES ASSUME NEW kinds \in {Scopes, Fns, Calls}, ast[i].op \notin kinds
               PROVE  Open(ast, kinds, pc + 1) = Open(ast, kinds, pc)
    BY <1>1
  <2>1. ast[pc].op \notin kinds /\ \A k \in kinds : <<k, ast[pc].op>> \notin Brackets
    BY <1>3 DEF Scopes, Fns, Calls, MethodEnds, Brackets
  <2>2. kinds \in SUBSET Openers
    BY Kinds
  <2> QED
    BY <1>2, <2>1, <2>2, OpenAfterOther
<1>7. /\ 1 \in DOMAIN saved /\ saved[1] \in SavedFrame
      /\ TableFor(i, saved[1].current)
  BY <1>3, <1>4, TopFrame
<1>8. TableFor(pc, current)'
  <2>1. InnermostHas(ast, Scopes, pc', GlobalSymIndex, locals, current')
    <3>1. CASE ast[i].op \in Scopes
      BY <1>3, <1>5, <1>7, <3>1, AroundKept DEF TableFor
    <3>2. CASE ast[i].op \notin Scopes
      <4>1. InnermostHas(ast, Scopes, pc, GlobalSymIndex, locals, current)
        BY DEF GInv, Walking, TableFor
      <4> QED
        BY <1>3, <1>6, <3>2, <4>1, AroundKept
    <3> QED
      BY <3>1, <3>2
  <2> QED
    BY <1>1, <2>1 DEF TableFor
<1>9. BuilderFor(pc, insert)'
  <2>1. InnermostHas(ast, Fns, pc, NoFunction, NamesIn(ast), insert)
    BY DEF GInv, Walking, BuilderFor
  <2>2. InnermostHas(ast, Fns, pc', NoFunction, NamesIn(ast), insert)
    BY <1>4, <1>6, <2>1, AroundKept
  <2> QED
    BY <1>1, <2>2 DEF BuilderFor
<1>10. Walking' /\ saved' \in Seq(SavedFrame)
  BY <1>1, <1>3, <1>4, <1>8, <1>9, WalkingOutOf
<1>11. FunctionsOpen' /\ CallsPending' /\ CallsMade' /\ InputsPast'
  BY <1>1, <1>4, <1>6, FunctionsKept, NothingUsed
<1>12. Backed(codegen)' /\ \A k \in DOMAIN saved' : Backed(saved[k].codegen)'
  BY <1>1, <1>3, <1>4, TailBacked
<1>13. /\ pc' \in 1 .. Len(ast) + 1 /\ module' \in [Name -> Fn] /\ current' \in DOMAIN arena
       /\ insert' \in Name \cup {NoFunction}
  BY <1>1, <1>2, <1>7 DEF SavedFrame
<1> QED
  BY <1>1, <1>10, <1>11, <1>12, <1>13, Settled

(* A call whose function passed the test, up to its arguments. *)
LEMMA CallStep ==
  ASSUME GInv, GenAt("call"), CallObjection(pc) = "none", GenCall
  PROVE  GInv'
<1>1. /\ Aside /\ pc \in DOMAIN ast /\ ast[pc].op = "call" /\ pass = "gen" /\ pc' = pc + 1
      /\ UNCHANGED <<ast, current, saved, insert, module, codegen, operands, storage, diagnosed>>
  BY DEF GenAt, At, GenCall, Aside, genvars
<1>2. /\ Walkable(ast) /\ DOMAIN ast = 1 .. Len(ast) /\ Len(ast) \in Nat /\ WellLinked(ast)
      /\ saved \in Seq(SavedFrame) /\ insert \in Name \cup {NoFunction} /\ current \in DOMAIN arena
      /\ module \in [Name -> Fn] /\ codegen \in Value /\ operands \in Seq(Value) /\ pc \in Nat
  BY <1>1, GenFacts
<1>3. ast[pc].op \in Openers /\ ast[pc].op \notin Methods \cup Scopes \cup Fns
  BY <1>1 DEF Openers, Methods, Scopes, Fns
<1>4. \A kinds \in {Methods, Scopes, Fns} : Open(ast, kinds, pc') = Open(ast, kinds, pc)
  <2> SUFFICES ASSUME NEW kinds \in {Methods, Scopes, Fns}
               PROVE  Open(ast, kinds, pc + 1) = Open(ast, kinds, pc)
    BY <1>1
  <2>1. kinds \in SUBSET Openers /\ ast[pc].op \notin kinds
    BY <1>3, Kinds
  <2>2. Open(ast, kinds, pc + 1) =
          Open(ast, kinds, pc) \cup (IF ast[pc].op \in kinds THEN {pc} ELSE {})
    BY <1>1, <1>2, <1>3, <2>1, OpenAfterOpener
  <2> QED
    BY <2>1, <2>2
<1>5. Open(ast, Calls, pc') = Open(ast, Calls, pc) \cup {pc}
  <2>1. Open(ast, Calls, pc + 1) =
          Open(ast, Calls, pc) \cup (IF ast[pc].op \in Calls THEN {pc} ELSE {})
    BY <1>1, <1>2, <1>3, Kinds, OpenAfterOpener
  <2> QED
    BY <1>1, <2>1 DEF Calls
<1>6. Walking'
  BY <1>1, <1>4, WalkingOn
<1>7. FunctionsOpen' /\ CallsMade' /\ InputsPast'
  BY <1>1, <1>4 DEF GInv, FunctionsOpen, CallsMade, InputsPast, Aside
<1>8. /\ ast[EndOf(ast, pc) - 1].op = "callee"
      /\ \/ module[Callee(ast, pc)].state = "complete"
         \/ \E f \in Open(ast, Fns, pc) : f < pc /\ NamesIn(ast)[f] = Callee(ast, pc)
  <2>1. EndOf(ast, pc) = pc + ast[pc].link
    BY <1>1 DEF EndOf
  <2>2. ast[EndOf(ast, pc) - 1].op = "callee" /\ module[Callee(ast, pc)].state # "absent"
    <3> DEFINE called == ast[pc + ast[pc].link - 1]
               f == module[LastName(called.path)]
    <3>1. CallObjection(pc) =
            CASE called.op # "callee"                         -> "callee"
              [] called.op = "callee" /\ f.state = "absent"   -> "unknown function"
              [] called.op = "callee" /\ f.state # "absent"   ->
                   IF f.arity # ArgCount(pc) THEN "argument count" ELSE "none"
      BY DEF CallObjection
    <3>2. called = ast[EndOf(ast, pc) - 1] /\ f = module[Callee(ast, pc)]
      <4>1. pc \in Nat /\ ast[pc].link \in Int
        BY <1>1, <1>2, EventFields DEF Walkable
      <4>2. EndOf(ast, pc) - 1 = pc + ast[pc].link - 1
        BY <2>1, <4>1
      <4> QED
        BY <4>2, Zenon DEF Callee
    <3> HIDE DEF called, f
    <3>3. called.op = "callee" /\ f.state # "absent"
      BY <3>1
    <3> QED
      BY <3>2, <3>3
  <2>3. EndOf(ast, pc) - 1 \in DOMAIN ast
    <3>1. EndOf(ast, pc) \in DOMAIN ast /\ pc < EndOf(ast, pc) /\ EndOf(ast, pc) \in Nat
      BY <1>1, <1>2, <1>3, Ends
    <3> QED
      BY <1>1, <1>2, <3>1
  <2>4. Callee(ast, pc) \in Name
    BY <1>2, <2>2, <2>3 DEF WellLinked, Callee, LastName
  <2>5. CASE module[Callee(ast, pc)].state = "open"
    <3>1. PICK f \in Open(ast, Fns, pc) : NamesIn(ast)[f] = Callee(ast, pc)
      BY <1>1, <2>4, <2>5 DEF GInv, FunctionsOpen
    <3>2. f < pc
      BY <1>2, <3>1 DEF Open
    <3> QED
      BY <2>2, <3>1, <3>2
  <2> QED
    BY <1>2, <2>2, <2>4, <2>5 DEF Fn
<1>9. CallsPending'
  <2>1. \A c \in Open(ast, Calls, pc) :
          /\ ast[EndOf(ast, c) - 1].op = "callee"
          /\ \/ module[Callee(ast, c)].state = "complete"
             \/ \E f \in Open(ast, Fns, pc) : f < c /\ NamesIn(ast)[f] = Callee(ast, c)
    BY <1>1 DEF GInv, CallsPending
  <2> QED
    BY <1>1, <1>4, <1>5, <1>8, <2>1 DEF CallsPending
<1>10. Data
  BY <1>1, <1>2, SameData
<1>11. Backed(codegen)' /\ \A k \in DOMAIN saved' : Backed(saved[k].codegen)'
  <2>1. Backed(codegen)
    BY <1>1 DEF GInv, ValuesBacked
  <2>2. Backed(codegen)'
    BY <1>1, <2>1, UseKeyKept DEF Backed, Aside
  <2> QED
    BY <1>1, <1>10, <2>2, SavedBacked
<1> QED
  BY <1>1, <1>2, <1>6, <1>7, <1>9, <1>10, <1>11, Settled

-----------------------------------------------------------------------------
(* Functions are opened and closed.                                        *)

(* The declaration that names a function stands behind it. *)
LEMMA NamedBehind ==
  ASSUME GInv, GenAt("fn"), NEW d \in Naming(pc)
  PROVE  /\ ast[d].path[1] = NamesIn(ast)[pc] /\ NamesIn(ast)[pc] \in Name /\ d \in Nat
         /\ ast[pc].link > 0 /\ ast[pc].link \in Nat /\ pc + ast[pc].link \in pc + 1 .. Len(ast) + 1
         /\ \A a \in pc + 1 .. pc + ast[pc].link - 1 : a \in DOMAIN ast /\ ast[a].op = "arg"
<1>1. /\ WellLinked(ast) /\ ast \in Seq(Event) /\ DOMAIN ast = 1 .. Len(ast) /\ Len(ast) \in Nat
      /\ pc \in DOMAIN ast /\ ast[pc].op = "fn" /\ pc \in Nat /\ pc >= 1
  BY GenFacts DEF GenAt, At
<1>2. d \in DOMAIN ast /\ ast[d].op = "declare" /\ ast[d].link # 0 /\ d + ast[d].link = pc /\ d \in Nat
  BY <1>1 DEF Naming
<1>3. d = EndOf(ast, pc) + 1 /\ ast[d].path[1] \in Name
  BY <1>1, <1>2 DEF WellLinked
<1>4. ast[pc].link \in Int
  BY <1>1, EventFields
<1>5. /\ ast[pc].link > 0 /\ pc + ast[pc].link \in DOMAIN ast
      /\ \A a \in pc + 1 .. pc + ast[pc].link - 1 : ast[a].op = "arg"
  BY <1>1 DEF WellLinked
<1>6. pc + ast[pc].link \in pc + 1 .. Len(ast) + 1 /\ ast[pc].link \in Nat
  BY <1>1, <1>4, <1>5
<1>7. \A a \in pc + 1 .. pc + ast[pc].link - 1 : a \in DOMAIN ast
  BY <1>1, <1>4, <1>5
<1> QED
  BY <1>1, <1>2, <1>3, <1>5, <1>6, <1>7 DEF NamesIn

LEMMA FunctionStep ==
  ASSUME GInv, GenFunction
  PROVE  GInv'
<1>1. /\ GenAt("fn") /\ pass = "gen" /\ pc \in DOMAIN ast /\ ast[pc].op = "fn"
      /\ Aside /\ Save /\ codegen' = Null /\ pc' = pc + ast[pc].link
      /\ UNCHANGED <<ast, inputs, current, diagnosed, operands>> /\ locals' = locals
  BY DEF GenFunction, GenAt, At, Aside, UnchangedAnalysis
<1> DEFINE name == NamesIn(ast)[pc]
           args == {Slot(current, ast[a].path[1], ast[a].loc) : a \in pc + 1 .. pc + ast[pc].link - 1}
<1>2. PICK d \in Naming(pc) :
        /\ module[ast[d].path[1]].state = "absent"
        /\ module' = [module EXCEPT ![ast[d].path[1]] =
             [Absent EXCEPT !.state = "open", !.arity = ast[pc].link - 1, !.event = d, !.input = inputs]]
        /\ storage' = [k \in DOMAIN storage \cup args |->
             IF k \in args THEN [kind |-> "argument", of |-> ast[d].path[1]] ELSE storage[k]]
        /\ insert' = ast[d].path[1]
  BY DEF GenFunction
<1> HIDE DEF args
<1>3. /\ ast[d].path[1] = name /\ name \in Name /\ d \in Nat
      /\ ast[pc].link > 0 /\ ast[pc].link \in Nat /\ pc + ast[pc].link \in pc + 1 .. Len(ast) + 1
      /\ \A a \in pc + 1 .. pc + ast[pc].link - 1 : a \in DOMAIN ast /\ ast[a].op = "arg"
  BY <1>1, NamedBehind
<1> HIDE DEF name
<1>4. /\ Walkable(ast) /\ DOMAIN ast = 1 .. Len(ast) /\ Len(ast) \in Nat /\ pc \in Nat /\ pc >= 1
      /\ insert \in Name \cup {NoFunction} /\ current \in DOMAIN arena /\ inputs \in Nat
      /\ module \in [Name -> Fn] /\ codegen \in Value /\ operands \in Seq(Value)
      /\ diagnosed \subseteq [event : DOMAIN ast, what : Diagnosis \cup Refusal]
  BY <1>1, GenFacts
<1> DEFINE new == [Absent EXCEPT !.state = "open", !.arity = ast[pc].link - 1, !.event = d, !.input = inputs]
<1>5. /\ new \in Fn /\ new.state = "open" /\ new.uses = {} /\ new.input = inputs
  <2>1. ast[pc].link - 1 \in Nat /\ Absent \in Fn /\ Absent.uses = {}
    <3>1. ast[pc].link - 1 \in Nat /\ Null \in Value
      BY <1>3 DEF Null, Value
    <3> QED
      BY <3>1 DEF Fn, Absent
  <2> QED
    BY <1>3, <1>4, <2>1 DEF Fn
<1>6. /\ module' = [module EXCEPT ![name] = new] /\ module[name].state = "absent" /\ insert' = name
  BY <1>2, <1>3
<1> HIDE DEF new
<1>7. /\ module' \in [Name -> Fn] /\ module'[name] = new
      /\ \A n \in Name : n # name => module'[n] = module[n]
  BY <1>3, <1>4, <1>5, <1>6
<1>8. \A kinds \in {Methods, Scopes, Fns, Calls} : Open(ast, kinds, pc') = Open(ast, kinds, pc + 1)
  <2> SUFFICES ASSUME NEW kinds \in {Methods, Scopes, Fns, Calls}
               PROVE  Open(ast, kinds, pc + ast[pc].link) = Open(ast, kinds, pc + 1)
    BY <1>1
  <2>1. \A a \in pc + 1 .. pc + ast[pc].link - 1 : ast[a].op \notin Openers \cup Closers
    BY <1>3 DEF Openers, Closers
  <2>2. kinds \in SUBSET Openers
    BY Kinds
  <2>3. DEFINE j == pc + ast[pc].link
  <2>4. j \in pc + 1 .. Len(ast) + 1 /\ \A a \in pc + 1 .. j - 1 : ast[a].op \notin Openers \cup Closers
    <3>1. j - 1 = pc + ast[pc].link - 1
      BY <1>3, <1>4
    <3> QED
      BY <1>3, <2>1, <3>1
  <2> HIDE DEF j
  <2>5. Open(ast, kinds, j) = Open(ast, kinds, pc + 1)
    BY <1>1, <1>4, <2>2, <2>4, OpenAfterLeaves
  <2> QED
    BY <2>5 DEF j
<1>9. ast[pc].op \in Openers /\ ast[pc].op \in Methods /\ ast[pc].op \in Fns
      /\ ast[pc].op \notin Scopes /\ ast[pc].op \notin Calls
  BY <1>1 DEF Openers, Methods, Fns, Scopes, Calls
<1>10. /\ Open(ast, Scopes, pc') = Open(ast, Scopes, pc) /\ Open(ast, Calls, pc') = Open(ast, Calls, pc)
       /\ Open(ast, Fns, pc') = Open(ast, Fns, pc) \cup {pc}
  <2>1. Open(ast, Scopes, pc + 1) =
          Open(ast, Scopes, pc) \cup (IF ast[pc].op \in Scopes THEN {pc} ELSE {})
    BY <1>1, <1>4, <1>9, Kinds, OpenAfterOpener
  <2>2. Open(ast, Calls, pc + 1) =
          Open(ast, Calls, pc) \cup (IF ast[pc].op \in Calls THEN {pc} ELSE {})
    BY <1>1, <1>4, <1>9, Kinds, OpenAfterOpener
  <2>3. Open(ast, Fns, pc + 1) =
          Open(ast, Fns, pc) \cup (IF ast[pc].op \in Fns THEN {pc} ELSE {})
    BY <1>1, <1>4, <1>9, Kinds, OpenAfterOpener
  <2> QED
    BY <1>8, <1>9, <2>1, <2>2, <2>3
<1>11. TableFor(pc, current)'
  <2>1. InnermostHas(ast, Scopes, pc, GlobalSymIndex, locals, current)
    BY <1>1 DEF GInv, Walking, TableFor
  <2>2. InnermostHas(ast, Scopes, pc', GlobalSymIndex, locals, current)
    BY <1>10, <2>1, AroundKept
  <2> QED
    BY <1>1, <2>2 DEF TableFor
<1>12. BuilderFor(pc, insert)'
  <2>1. InnermostHas(ast, Fns, pc + 1, NoFunction, NamesIn(ast), name)
    BY <1>1, <1>4, <1>9, Kinds, AroundOpened DEF name
  <2>2. InnermostHas(ast, Fns, pc', NoFunction, NamesIn(ast), insert')
    BY <1>6, <1>8, <2>1, AroundKept
  <2> QED
    BY <1>1, <2>2 DEF BuilderFor
<1>13. Walking' /\ saved' \in Seq(SavedFrame)
  BY <1>1, <1>8, <1>9, <1>11, <1>12, WalkingInto
<1>14. /\ \A n \in Name : module[n].state = "open" <=> \E f \in Open(ast, Fns, pc) : NamesIn(ast)[f] = n
       /\ \A f, g \in Open(ast, Fns, pc) :
            NamesIn(ast)[f] \in Name /\ (NamesIn(ast)[f] = NamesIn(ast)[g] => f = g)
  BY <1>1 DEF GInv, FunctionsOpen
<1>15. \A f \in Open(ast, Fns, pc) : NamesIn(ast)[f] # name
  BY <1>6, <1>14
<1>16. FunctionsOpen'
  <2>1. \A f, g \in Open(ast, Fns, pc') :
          NamesIn(ast)[f] \in Name /\ (NamesIn(ast)[f] = NamesIn(ast)[g] => f = g)
    BY <1>3, <1>10, <1>14, <1>15 DEF name
  <2>2. \A n \in Name : module'[n].state = "open" <=> \E f \in Open(ast, Fns, pc') : NamesIn(ast)[f] = n
    BY <1>5, <1>7, <1>10, <1>14, <1>15 DEF name
  <2> QED
    BY <1>1, <2>1, <2>2 DEF FunctionsOpen, Aside
<1>17. CallsPending'
  <2> SUFFICES ASSUME NEW c \in Open(ast, Calls, pc)
               PROVE  /\ ast[EndOf(ast, c) - 1].op = "callee"
                      /\ \/ module'[Callee(ast, c)].state = "complete"
                         \/ \E f \in Open(ast, Fns, pc') : f < c /\ NamesIn(ast)[f] = Callee(ast, c)
    BY <1>1, <1>10 DEF CallsPending
  <2>1. /\ ast[EndOf(ast, c) - 1].op = "callee"
        /\ \/ module[Callee(ast, c)].state = "complete"
           \/ \E f \in Open(ast, Fns, pc) : f < c /\ NamesIn(ast)[f] = Callee(ast, c)
    BY <1>1 DEF GInv, CallsPending
  <2>2. Callee(ast, c) \in Name
    BY <1>1, CalleeNamed
  <2> QED
    BY <1>6, <1>7, <1>10, <2>1, <2>2
<1>18. CallsMade'
  <2> SUFFICES ASSUME NEW n \in Name, NEW u \in module'[n].uses, u.kind = "call"
               PROVE  module'[u.of].state # "absent"
    BY DEF CallsMade
  <2>1. n # name /\ module'[n] = module[n]
    BY <1>5, <1>7
  <2>2. u.of \in Name
    BY <1>4, <2>1 DEF Fn, Use
  <2>3. module[u.of].state # "absent"
    BY <1>1, <2>1 DEF GInv, CallsMade
  <2> QED
    BY <1>5, <1>7, <2>2, <2>3
<1>19. InputsPast'
  <2>1. \A n \in Name : module[n].input \in 0 .. inputs
    BY DEF GInv, InputsPast
  <2> QED
    BY <1>1, <1>4, <1>5, <1>7, <2>1 DEF InputsPast
<1>20. Data
  <2>1. /\ DOMAIN storage' = DOMAIN storage \cup args
        /\ \A k \in DOMAIN storage' :
             storage'[k] = [kind |-> "argument", of |-> name] \/ (k \in DOMAIN storage /\ storage'[k] = storage[k])
    BY <1>2, <1>3
  <2>2. \A k \in DOMAIN storage : storage[k] \in [kind : {"alloca", "argument"}, of : Name]
    BY DEF GInv, GenTypeOK
  <2>3. \A k \in DOMAIN storage' : storage'[k] \in [kind : {"alloca", "argument"}, of : Name]
    BY <1>3, <2>1, <2>2
  <2> QED
    BY <1>1, <1>4, <2>1, <2>3 DEF Data, Null, Value
<1>21. Backed(codegen)'
  BY <1>1 DEF Backed, Null
<1>22. \A k \in DOMAIN saved' : Backed(saved[k].codegen)'
  BY <1>1, <1>13, <1>20, PushedBacked
<1>23. /\ pc' \in 1 .. Len(ast) + 1 /\ current' \in DOMAIN arena /\ insert' \in Name \cup {NoFunction}
  BY <1>1, <1>3, <1>4, <1>6
<1> QED
  BY <1>1, <1>7, <1>13, <1>16, <1>17, <1>18, <1>19, <1>20, <1>21, <1>22, <1>23, Settled

(* Where a function ends the builder is in it. *)
LEMMA FunctionEnds ==
  ASSUME GInv, GenAt("endfn")
  PROVE  /\ insert \in Name /\ module[insert].state = "open"
         /\ \E i \in DOMAIN ast :
              /\ pc = EndOf(ast, i) /\ ast[i].op \in Fns
              /\ i \in Open(ast, Fns, pc) /\ insert = NamesIn(ast)[i]
<1>1. /\ pass = "gen" /\ pc \in DOMAIN ast /\ ast[pc].op = "endfn" /\ Walkable(ast)
  BY GenFacts DEF GenAt, At
<1>2. PICK i \in DOMAIN ast : pc = EndOf(ast, i) /\ ast[i].op \in Fns
  <2>1. ast[pc].op \in MethodEnds \cup {"endcall"}
    BY <1>1 DEF MethodEnds
  <2>2. PICK i \in DOMAIN ast :
          /\ pc = EndOf(ast, i) /\ ast[i].op \in Methods \cup Calls /\ <<ast[i].op, ast[pc].op>> \in Brackets
          /\ ast[i].op \in Fns <=> ast[pc].op = "endfn"
          /\ ast[i].op \in Calls <=> ast[pc].op = "endcall"
          /\ ast[i].op \in Scopes <=> ast[pc].op \in {"end", "endin"}
    BY <1>1, <2>1, Ending
  <2> QED
    BY <1>1, <2>2
<1>3. i \in Open(ast, Fns, EndOf(ast, i))
  BY <1>1, <1>2, Kinds, OpenAtEnd
<1>4. InnermostHas(ast, Fns, EndOf(ast, i), NoFunction, NamesIn(ast), insert)
  BY <1>1, <1>2 DEF GInv, Walking, BuilderFor
<1>5. insert = NamesIn(ast)[i]
  BY <1>1, <1>2, <1>4, Kinds, AroundAtEnd
<1>6. insert \in Name /\ module[insert].state = "open"
  BY <1>1, <1>2, <1>3, <1>5 DEF GInv, FunctionsOpen
<1> QED
  BY <1>2, <1>3, <1>5, <1>6

(* A function ends: its state becomes what is given, and it is not open any
   more; nothing calls it if it is gone. *)
LEMMA EndStep ==
  ASSUME GInv, GenAt("endfn"), Continue, UnchangedAnalysis,
         NEW ended \in Fn, module' = [module EXCEPT ![insert] = ended],
         ended.state \in {"complete", "absent"}, ended.input \in 0 .. inputs,
         \A u \in ended.uses : u.kind = "call" =>
           module[u.of].state # "absent" /\ (ended.state = "complete" \/ u.of # insert),
         ended.state = "complete" \/ Callers(insert) = {},
         insert' = saved[1].insert, saved' = Tail(saved),
         UNCHANGED <<current, generated>>, Data, codegen' \in {codegen, Made("fn")}
  PROVE  GInv'
<1>1. /\ pass = "gen" /\ pc \in DOMAIN ast /\ ast[pc].op = "endfn" /\ Aside /\ pc' = pc + 1
      /\ ast' = ast /\ locals' = locals /\ inputs' = inputs
  BY DEF GenAt, At, Aside, UnchangedAnalysis, Continue
<1>2. /\ Walkable(ast) /\ DOMAIN ast = 1 .. Len(ast) /\ Len(ast) \in Nat /\ pc \in Nat /\ pc >= 1
      /\ current \in DOMAIN arena /\ inputs \in Nat /\ module \in [Name -> Fn]
  BY <1>1, GenFacts
<1>3. PICK i \in DOMAIN ast :
        /\ pc = EndOf(ast, i) /\ ast[i].op \in Fns
        /\ i \in Open(ast, Fns, pc) /\ insert = NamesIn(ast)[i]
  BY FunctionEnds
<1>4. ast[i].op \in Methods /\ ast[i].op \in Openers /\ ast[i].op \notin Scopes \cup Calls
  BY <1>3 DEF Fns, Methods, Openers, Scopes, Calls
<1>5. /\ \A n \in Name : module[n].state = "open" <=> \E f \in Open(ast, Fns, pc) : NamesIn(ast)[f] = n
      /\ \A f, g \in Open(ast, Fns, pc) :
           NamesIn(ast)[f] \in Name /\ (NamesIn(ast)[f] = NamesIn(ast)[g] => f = g)
  BY <1>1 DEF GInv, FunctionsOpen
<1>6. i \in Open(ast, Fns, pc) /\ insert = NamesIn(ast)[i] /\ insert \in Name
  BY <1>3, FunctionEnds
<1>7. module[insert].state = "open"
  BY FunctionEnds
<1>8. /\ module' \in [Name -> Fn] /\ module'[insert] = ended
      /\ \A n \in Name : n # insert => module'[n] = module[n]
  BY <1>2, <1>6
<1>9. Open(ast, Fns, pc') = Open(ast, Fns, pc) \ {i}
  BY <1>1, <1>2, <1>3, Kinds, OpenAfterEnd
<1>10. /\ Open(ast, Fns, pc') = Open(ast, Fns, i)
       /\ Open(ast, Scopes, pc') = Open(ast, Scopes, pc)
       /\ Open(ast, Calls, pc') \subseteq Open(ast, Calls, pc)
  <2>1. Open(ast, Fns, pc') = Open(ast, Fns, i)
    BY <1>1, <1>2, <1>3, <1>4, Kinds, OpenBehind
  <2>2. /\ ast[pc].op \notin Scopes /\ \A k \in Scopes : <<k, ast[pc].op>> \notin Brackets
        /\ ast[pc].op \notin Calls
    BY <1>1 DEF Scopes, Calls, Brackets
  <2>3. Open(ast, Scopes, pc') = Open(ast, Scopes, pc)
    BY <1>1, <1>2, <2>2, Kinds, OpenAfterOther
  <2>4. Open(ast, Calls, pc') \subseteq Open(ast, Calls, pc)
    BY <1>1, <1>2, <2>2, Kinds, OpenShrinks
  <2> QED
    BY <2>1, <2>3, <2>4
<1>11. /\ 1 \in DOMAIN saved /\ saved[1] \in SavedFrame /\ BuilderFor(i, saved[1].insert)
  BY <1>1, <1>3, <1>4, TopFrame
<1>12. TableFor(pc, current)'
  <2>1. InnermostHas(ast, Scopes, pc, GlobalSymIndex, locals, current)
    BY <1>1 DEF GInv, Walking, TableFor
  <2>2. InnermostHas(ast, Scopes, pc', GlobalSymIndex, locals, current)
    BY <1>10, <2>1, AroundKept
  <2> QED
    BY <1>1, <2>2 DEF TableFor
<1>13. BuilderFor(pc, insert)'
  <2>1. InnermostHas(ast, Fns, pc', NoFunction, NamesIn(ast), insert')
    BY <1>10, <1>11, AroundKept DEF BuilderFor
  <2> QED
    BY <1>1, <2>1 DEF BuilderFor
<1>14. Walking' /\ saved' \in Seq(SavedFrame)
  BY <1>1, <1>3, <1>4, <1>12, <1>13, WalkingOutOf
<1>15. FunctionsOpen'
  <2>1. \A f, g \in Open(ast, Fns, pc') :
          NamesIn(ast)[f] \in Name /\ (NamesIn(ast)[f] = NamesIn(ast)[g] => f = g)
    BY <1>5, <1>9
  <2>2. ASSUME NEW n \in Name
        PROVE  module'[n].state = "open" <=> \E f \in Open(ast, Fns, pc') : NamesIn(ast)[f] = n
    <3>1. CASE n = insert
      BY <1>5, <1>6, <1>8, <1>9, <3>1
    <3>2. CASE n # insert
      BY <1>5, <1>6, <1>8, <1>9, <3>2
    <3> QED
      BY <3>1, <3>2
  <2> QED
    BY <1>1, <2>1, <2>2 DEF FunctionsOpen, Aside
<1>16. CallsPending'
  <2> SUFFICES ASSUME NEW c \in Open(ast, Calls, pc')
               PROVE  /\ ast[EndOf(ast, c) - 1].op = "callee"
                      /\ \/ module'[Callee(ast, c)].state = "complete"
                         \/ \E f \in Open(ast, Fns, pc') : f < c /\ NamesIn(ast)[f] = Callee(ast, c)
    BY <1>1 DEF CallsPending
  <2>1. c \in Open(ast, Calls, pc)
    BY <1>10
  <2>2. /\ ast[EndOf(ast, c) - 1].op = "callee"
        /\ \/ module[Callee(ast, c)].state = "complete"
           \/ \E f \in Open(ast, Fns, pc) : f < c /\ NamesIn(ast)[f] = Callee(ast, c)
    BY <1>1, <2>1 DEF GInv, CallsPending
  <2>3. Callee(ast, c) \in Name
    BY <1>1, <2>1, CalleeNamed
  <2>4. CASE module[Callee(ast, c)].state = "complete"
    BY <1>7, <1>8, <2>2, <2>3, <2>4
  <2>5. ASSUME NEW f \in Open(ast, Fns, pc), f < c, NamesIn(ast)[f] = Callee(ast, c)
        PROVE  f # i
    <3> SUFFICES ASSUME f = i PROVE FALSE
      OBVIOUS
    <3>1. /\ c \in DOMAIN ast /\ ast[c].op \in Openers /\ c \in Nat /\ c < pc + 1 /\ pc + 1 <= EndOf(ast, c)
      <4>1. pc + 1 \in 1 .. Len(ast) + 1
        BY <1>1, <1>2
      <4> QED
        BY <1>1, <1>2, <4>1, Kinds, OpenIsOpener
    <3>2. EndOf(ast, c) < EndOf(ast, i) /\ EndOf(ast, c) \in Nat
      <4>1. i < c /\ c <= EndOf(ast, i)
        BY <1>2, <1>3, <2>5, <3>1
      <4> QED
        BY <1>2, <1>4, <3>1, <4>1, Laminar, Ends
    <3> QED
      BY <1>2, <1>3, <3>1, <3>2
  <2> QED
    BY <1>9, <2>2, <2>4, <2>5
<1>17. CallsMade'
  <2> SUFFICES ASSUME NEW n \in Name, NEW u \in module'[n].uses, u.kind = "call"
               PROVE  module'[u.of].state # "absent"
    BY DEF CallsMade
  <2>1. u.of \in Name
    <3>1. module'[n] \in Fn
      BY <1>8
    <3> QED
      BY <3>1 DEF Fn, Use
  <2>2. CASE n = insert
    BY <1>8, <2>1, <2>2
  <2>3. CASE n # insert
    <3>1. module[u.of].state # "absent" /\ u \in module[n].uses
      BY <1>1, <1>8, <2>3 DEF GInv, CallsMade
    <3>2. ended.state = "absent" => u.of # insert
      BY <2>3, <3>1 DEF Callers
    <3> QED
      BY <1>8, <2>1, <3>1, <3>2
  <2> QED
    BY <2>2, <2>3
<1>18. InputsPast'
  <2>1. \A n \in Name : module[n].input \in 0 .. inputs
    BY DEF GInv, InputsPast
  <2> QED
    BY <1>1, <1>8, <2>1 DEF InputsPast
<1>19. Backed(codegen)' /\ \A k \in DOMAIN saved' : Backed(saved[k].codegen)'
  <2>1. \A k \in DOMAIN saved' : Backed(saved[k].codegen)'
    BY <1>1, <1>3, <1>4, TailBacked
  <2>2. codegen' = codegen => Backed(codegen)'
    BY <1>1, <1>3, <1>4, TailBacked
  <2>3. codegen' = Made("fn") => Backed(codegen)'
    BY DEF Backed, Made
  <2> QED
    BY <2>1, <2>2, <2>3
<1>20. /\ pc' \in 1 .. Len(ast) + 1 /\ current' \in DOMAIN arena /\ insert' \in Name \cup {NoFunction}
  BY <1>1, <1>2, <1>11 DEF SavedFrame
<1> QED
  BY <1>1, <1>8, <1>14, <1>15, <1>16, <1>17, <1>18, <1>19, <1>20, Settled

(* Nothing is left to keep after a crash. *)
LEMMA CrashKeeps ==
  ASSUME GInv, pass \in {"gen", "done"}, Crash
  PROVE  GInv'
<1>1. pass' = "crashed" /\ UNCHANGED <<inputs, ast>> /\ UnchangedAnalysis
  BY DEF Crash, UnchangedAnalysis
<1>2. Analysed'
  BY <1>1, AnalysedKept
<1>3. GenTypeOK'
  BY DEF Crash, genvars, GInv, GenTypeOK
<1>4. InputsPast'
  BY DEF Crash, genvars, GInv, InputsPast
<1> QED
  BY <1>1, <1>2, <1>3, <1>4
     DEF GInv, Walking, FunctionsOpen, CallsPending, CallsMade, ValuesBacked

-----------------------------------------------------------------------------
(* The actions.                                                            *)

LEMMA MadeIsValue ==
  ASSUME pc \in Nat
  PROVE  /\ \A t \in {"null", "i32", "i1", "void", "argument", "fn"} : Made(t) \in Value
         /\ \A t \in {"null", "i32", "i1", "void", "fn"} : Made(t).type # "argument"
         /\ Null \in Value /\ Null.type # "argument"
  BY DEF Made, Value, Null

(* A value that was there already, or one that is not an argument. *)
LEMMA StillBacked ==
  ASSUME GInv, Aside, DOMAIN storage \subseteq DOMAIN storage',
         codegen' = codegen \/ codegen'.type # "argument"
  PROVE  Backed(codegen)'
<1>1. Backed(codegen) /\ UNCHANGED ast /\ UnchangedAnalysis
  BY DEF GInv, ValuesBacked, Aside
<1> QED
  BY <1>1, UseKeyKept DEF Backed

LEMMA Dropped ==
  ASSUME operands \in Seq(Value), NEW n \in Nat, Drop(n)
  PROVE  operands' \in Seq(Value)
<1>1. Len(operands) - n \in Int /\ Len(operands) - n <= Len(operands)
  OBVIOUS
<1>2. SubSeq(operands, 1, Len(operands) - n) \in Seq(Value)
  BY <1>1
<1> QED
  BY <1>2 DEF Drop

(* A slot or an argument that is stored. *)
LEMMA StoredData ==
  ASSUME GInv, pass = "gen", NEW key, NEW s \in [kind : {"alloca", "argument"}, of : Name],
         storage' = Stored(key, s), codegen' \in Value, UNCHANGED <<operands, diagnosed>>
  PROVE  Data
<1>1. /\ DOMAIN storage' = DOMAIN storage \cup {key}
      /\ \A k \in DOMAIN storage' : storage'[k] = s \/ (k \in DOMAIN storage /\ storage'[k] = storage[k])
  BY DEF Stored
<1>2. \A k \in DOMAIN storage : storage[k] \in [kind : {"alloca", "argument"}, of : Name]
  BY DEF GInv, GenTypeOK
<1>3. \A k \in DOMAIN storage' : storage'[k] \in [kind : {"alloca", "argument"}, of : Name]
  BY <1>1, <1>2
<1>4. /\ operands' \in Seq(Value)
      /\ diagnosed' \subseteq [event : DOMAIN ast, what : Diagnosis \cup Refusal]
  BY GenFacts
<1> QED
  BY <1>1, <1>3, <1>4 DEF Data

LEMMA HasStorage ==
  ASSUME GInv, NEW i, StorageAt(i).kind # "none"
  PROVE  /\ UseKey(i) \in DOMAIN storage
         /\ StorageAt(i) \in [kind : {"alloca", "argument"}, of : Name]
<1>1. StorageAt(i) = IF UseKey(i) \in DOMAIN storage THEN storage[UseKey(i)] ELSE NoStorage
  BY DEF StorageAt, StorageOf, UseKey
<1>2. UseKey(i) \in DOMAIN storage
  BY <1>1 DEF NoStorage
<1> QED
  BY <1>1, <1>2 DEF GInv, GenTypeOK

LEMMA ScopesKeep ==
  ASSUME GInv, GenNode \/ GenEndNode \/ GenEnter \/ GenLeave
  PROVE  GInv'
<1>1. pass = "gen" /\ pc \in DOMAIN ast /\ Continue /\ UnchangedAnalysis
      /\ UNCHANGED <<diagnosed, generated, insert, module, storage>>
  BY DEF GenNode, GenEndNode, GenEnter, GenLeave, GenAt, At
<1>2. Aside
  BY <1>1 DEF Aside, Continue
<1>3. codegen \in Value /\ operands \in Seq(Value) /\ pc \in Nat
  BY <1>1, GenFacts
<1>4. CASE GenNode
  <2>1. /\ ast[pc].op \in {"node", "else"} /\ Save /\ codegen' = Null
        /\ UNCHANGED <<current, operands>>
    BY <1>4 DEF GenNode, GenAt, At
  <2>2. Data
    BY <1>1, <1>3, <2>1, SameData, MadeIsValue
  <2>3. ast[pc].op \in Methods \ Fns /\ ast[pc].op \notin Scopes
    BY <2>1 DEF Methods, Fns, Scopes
  <2> QED
    BY <1>1, <2>1, <2>2, <2>3, PushStep
<1>5. CASE GenEnter
  <2>1. ast[pc].op \in {"block", "in"} /\ Save /\ current' = locals[pc] /\ UNCHANGED <<codegen, operands>>
    BY <1>5 DEF GenEnter, GenAt, At
  <2>2. Data
    BY <1>1, <1>3, <2>1, SameData
  <2>3. ast[pc].op \in Methods \ Fns /\ ast[pc].op \in Scopes
    BY <2>1 DEF Methods, Fns, Scopes
  <2> QED
    BY <1>1, <2>1, <2>2, <2>3, PushStep
<1>6. CASE GenEndNode
  <2>1. /\ ast[pc].op = "endnode" /\ operands' = Append(operands, codegen)
        /\ codegen' = saved[1].codegen /\ saved' = Tail(saved) /\ UNCHANGED current
    BY <1>6 DEF GenEndNode, GenAt, At
  <2>2. ast[pc].op \in MethodEnds \ {"endfn"} /\ ast[pc].op \notin {"end", "endin"}
    BY <2>1 DEF MethodEnds
  <2>3. operands' \in Seq(Value) /\ saved[1] \in SavedFrame
    BY <1>1, <1>3, <2>1, <2>2, EndsWithFrame
  <2>4. Data
    BY <1>1, <2>1, <2>3, SameData DEF SavedFrame
  <2> QED
    BY <1>1, <2>1, <2>2, <2>4, PopStep
<1>7. CASE GenLeave
  <2>1. /\ ast[pc].op \in {"end", "endin"} /\ current' = saved[1].current /\ saved' = Tail(saved)
        /\ UNCHANGED <<codegen, operands>>
    BY <1>7 DEF GenLeave, GenAt, At
  <2>2. ast[pc].op \in MethodEnds \ {"endfn"}
    BY <2>1 DEF MethodEnds
  <2>3. Data
    BY <1>1, <1>3, <2>1, SameData
  <2> QED
    BY <1>1, <2>1, <2>2, <2>3, PopStep
<1> QED
  BY <1>4, <1>5, <1>6, <1>7

LEMMA FunctionsKeep ==
  ASSUME GInv, GenFunctionAgain \/ GenFunction \/ GenFunctionUnnamed \/ GenEndFunction \/ GenErased
  PROVE  GInv'
<1>1. pass = "gen" /\ pc \in DOMAIN ast
  BY DEF GenFunctionAgain, GenFunction, GenFunctionUnnamed, GenEndFunction, GenErased, GenAt, At
<1>2. /\ codegen \in Value /\ operands \in Seq(Value) /\ pc \in Nat /\ module \in [Name -> Fn]
      /\ ast \in Seq(Event) /\ WellLinked(ast)
  BY <1>1, GenFacts
<1>3. CASE GenFunctionAgain
  <2>1. /\ ast[pc].op = "fn" /\ Aside /\ UNCHANGED <<current, saved, insert, module, codegen, operands, storage>>
        /\ diagnosed' = diagnosed \cup {[event |-> pc, what |-> "redefined"]}
        /\ pc' = (pc + ast[pc].link) + ast[pc + ast[pc].link].link + 2
    BY <1>1, <1>3 DEF GenFunctionAgain, GenAt, At, Aside, genvars, Report
  <2>2. pc' = EndOf(ast, pc) + 1
    <3>1. ast[pc].link \in Int /\ pc + ast[pc].link \in DOMAIN ast
      BY <1>1, <1>2, EventFields DEF WellLinked
    <3>2. ast[pc + ast[pc].link].link \in Int
      BY <1>2, <3>1, EventFields
    <3>3. EndOf(ast, pc) = pc + ast[pc].link + ast[pc + ast[pc].link].link + 1
      BY <2>1 DEF EndOf
    <3> QED
      BY <1>2, <2>1, <3>1, <3>2, <3>3
  <2>3. Data
    BY <1>1, <1>2, <2>1, SameData DEF Refusal
  <2>4. ast[pc].op \in Openers
    BY <2>1 DEF Openers
  <2> QED
    BY <1>1, <2>1, <2>2, <2>3, <2>4, SkipStep
<1>4. CASE GenFunction
  BY <1>4, FunctionStep
<1>5. CASE GenFunctionUnnamed
  BY <1>1, <1>5, CrashKeeps DEF GenFunctionUnnamed
<1>6. CASE GenEndFunction
  <2> DEFINE ended == [module[insert] EXCEPT !.state = "complete", !.value = codegen]
  <2>1. /\ GenAt("endfn") /\ Continue /\ UnchangedAnalysis /\ codegen' = Made("fn")
        /\ insert' = saved[1].insert /\ saved' = Tail(saved)
        /\ UNCHANGED <<current, diagnosed, generated, operands, storage>>
        /\ module' = [module EXCEPT ![insert].state = "complete", ![insert].value = codegen]
    BY <1>6 DEF GenEndFunction
  <2>2. insert \in Name /\ module[insert].state = "open"
    BY <2>1, FunctionEnds
  <2>3. /\ ended \in Fn /\ ended.state = "complete" /\ ended.input = module[insert].input
        /\ ended.uses = module[insert].uses
    BY <1>2, <2>2 DEF Fn
  <2>4. module' = [module EXCEPT ![insert] = ended]
    BY <1>2, <2>1, <2>2 DEF Fn
  <2> HIDE DEF ended
  <2>5. ended.input \in 0 .. inputs
    BY <2>2, <2>3 DEF GInv, InputsPast
  <2>6. \A u \in ended.uses : u.kind = "call" => module[u.of].state # "absent"
    BY <1>1, <2>2, <2>3 DEF GInv, CallsMade
  <2>7. Data
    BY <1>1, <1>2, <2>1, SameData, MadeIsValue
  <2> QED
    BY <2>1, <2>3, <2>4, <2>5, <2>6, <2>7, EndStep
<1>7. CASE GenErased
  <2>1. CASE Callers(insert) # {}
    BY <1>1, <1>7, <2>1, CrashKeeps DEF GenErased
  <2>2. CASE Callers(insert) = {}
    <3>1. /\ GenAt("endfn") /\ Continue /\ UnchangedAnalysis
          /\ insert' = saved[1].insert /\ saved' = Tail(saved)
          /\ UNCHANGED <<current, diagnosed, generated, codegen, operands, storage>>
          /\ module' = [module EXCEPT ![insert] = Absent]
      BY <1>7, <2>2 DEF GenErased
    <3>2. Absent \in Fn /\ Absent.state = "absent" /\ Absent.uses = {} /\ Absent.input = 0
      BY <1>2, MadeIsValue DEF Fn, Absent
    <3>3. Data
      BY <1>1, <1>2, <3>1, SameData
    <3>4. 0 \in 0 .. inputs
      BY <1>1, GenFacts
    <3> QED
      BY <2>2, <3>1, <3>2, <3>3, <3>4, EndStep
  <2> QED
    BY <2>1, <2>2
<1> QED
  BY <1>3, <1>4, <1>5, <1>6, <1>7

LEMMA NamesKeep ==
  ASSUME GInv, GenVariable \/ GenNameFunction \/ GenAssignName \/ GenArgument
  PROVE  GInv'
<1>1. pass = "gen" /\ pc \in DOMAIN ast /\ ast[pc].op \in {"use", "declare", "name", "arg"}
  BY DEF GenVariable, GenNameFunction, GenAssignName, GenArgument, GenAt, At
<1>2. ast[pc].op \notin Methods \cup Calls \cup MethodEnds
  BY <1>1 DEF Methods, Calls, MethodEnds
<1>3. /\ codegen \in Value /\ operands \in Seq(Value) /\ pc \in Nat /\ module \in [Name -> Fn]
      /\ insert \in Name \cup {NoFunction}
  BY <1>1, GenFacts
<1>4. CASE GenVariable
  <2>1. /\ Continue /\ UnchangedAnalysis
        /\ UNCHANGED <<current, diagnosed, generated, operands, saved, insert, storage>>
    BY <1>4 DEF GenVariable
  <2>2. Aside
    BY <1>1, <2>1 DEF Aside, Continue
  <2> DEFINE s == StorageAt(pc)
  <2>3. CASE s.kind = "none"
    <3>1. UNCHANGED <<codegen, module>>
      BY <1>4, <2>3 DEF GenVariable
    <3>2. Data
      BY <1>1, <1>3, <2>1, <3>1, SameData
    <3> QED
      BY <1>1, <1>2, <2>1, <2>2, <3>1, <3>2, PlainStep, NothingUsed, StillBacked
  <2>4. CASE s.kind # "none"
    <3>1. UseKey(pc) \in DOMAIN storage /\ s \in [kind : {"alloca", "argument"}, of : Name]
      BY <2>4, HasStorage
    <3>2. s.kind \in {"alloca", "argument"} /\ s.of \in Name
      BY <3>1
    <3>3. CASE s.kind = "argument"
      <4>1. codegen' = Made("argument") /\ Emit("argument", s.of)
        BY <1>4, <3>3 DEF GenVariable
      <4>2. Data
        BY <1>1, <1>3, <2>1, <4>1, SameData, MadeIsValue
      <4>3. OnlyUses
        BY <1>1, <3>2, <4>1, Emitted
      <4>4. Backed(codegen)'
        <5>1. codegen'.at = pc /\ ast' = ast /\ UseKey(pc) \in DOMAIN storage'
          BY <2>1, <2>2, <3>1, <4>1 DEF Made, Aside
        <5> QED
          BY <1>1, <2>1, <2>2, <5>1, UseKeyKept DEF Backed, Aside
      <4> QED
        BY <1>1, <1>2, <2>1, <4>2, <4>3, <4>4, PlainStep
    <3>4. CASE s.kind = "alloca"
      <4>1. codegen' = Made("i32") /\ Emit("load", s.of)
        BY <1>4, <3>4 DEF GenVariable
      <4>2. Data
        BY <1>1, <1>3, <2>1, <4>1, SameData, MadeIsValue
      <4>3. OnlyUses
        BY <1>1, <3>2, <4>1, Emitted
      <4>4. Backed(codegen)'
        BY <1>3, <4>1, <4>2, <2>2, StillBacked, MadeIsValue DEF Data
      <4> QED
        BY <1>1, <1>2, <2>1, <4>2, <4>3, <4>4, PlainStep
    <3> QED
      BY <3>2, <3>3, <3>4
  <2> QED
    BY <2>3, <2>4
<1>5. CASE GenNameFunction
  <2>1. /\ Continue /\ UnchangedAnalysis /\ codegen' \in {Null, codegen}
        /\ UNCHANGED <<current, diagnosed, generated, operands, saved, insert, module, storage>>
    BY <1>5 DEF GenNameFunction
  <2>2. Aside
    BY <1>1, <2>1 DEF Aside, Continue
  <2>3. Data
    BY <1>1, <1>3, <2>1, SameData, MadeIsValue
  <2>4. Backed(codegen)'
    BY <1>3, <2>1, <2>2, StillBacked, MadeIsValue
  <2> QED
    BY <1>1, <1>2, <2>1, <2>2, <2>3, <2>4, PlainStep, NothingUsed
<1>6. CASE GenAssignName
  <2> DEFINE in_type == arena[current].scope_context = "TYPE"
             dies == codegen.type = "null" \/ (~ in_type /\ (insert = NoFunction \/ codegen.type \notin Int32))
             key == Slot(current, ast[pc].path[1], ast[pc].loc)
             slot == [kind |-> "alloca", of |-> insert]
  <2>1. IF dies THEN Crash
        ELSE /\ storage' = IF in_type THEN storage ELSE Stored(key, slot)
             /\ codegen' = CASE ast[pc].op = "declare"             -> Null
                             [] ast[pc].op = "name" /\ in_type     -> codegen
                             [] ast[pc].op = "name" /\ ~ in_type   -> Made("void")
             /\ Continue /\ UnchangedAnalysis
             /\ UNCHANGED <<current, diagnosed, generated, operands, saved, insert, module>>
    BY <1>6 DEF GenAssignName
  <2>2. CASE dies
    BY <1>1, <2>1, <2>2, CrashKeeps
  <2>3. CASE ~ dies
    <3>1. ~ in_type => insert # NoFunction
      BY <2>3
    <3>2. slot.of = insert /\ slot.kind = "alloca" /\ (~ in_type => slot \in [kind : {"alloca", "argument"}, of : Name])
      BY <1>3, <3>1
    <3>3. ast[pc].op \in {"declare", "name"}
      BY <1>6 DEF GenAssignName, GenAt, At
    <3> HIDE DEF dies, in_type, key, slot
    <3>4. codegen' \in {Null, codegen, Made("void")}
      BY <2>1, <2>3, <3>3
    <3>5. codegen' \in Value /\ (codegen' = codegen \/ codegen'.type # "argument")
      BY <1>3, <3>4, MadeIsValue
    <3>6. /\ Continue /\ UnchangedAnalysis /\ Aside
          /\ UNCHANGED <<current, diagnosed, generated, operands, saved, insert, module>>
      BY <1>1, <2>1, <2>3 DEF Aside, Continue
    <3>7. Data
      <4>1. CASE in_type
        BY <1>1, <1>3, <2>1, <2>3, <3>5, <3>6, <4>1, SameData
      <4>2. CASE ~ in_type
        BY <1>1, <2>1, <2>3, <3>2, <3>5, <3>6, <4>2, StoredData
      <4> QED
        BY <4>1, <4>2
    <3>8. Backed(codegen)'
      BY <3>5, <3>6, <3>7, StillBacked DEF Data
    <3> QED
      BY <1>1, <1>2, <3>6, <3>7, <3>8, PlainStep, NothingUsed
  <2> QED
    BY <2>2, <2>3
<1>7. CASE GenArgument
  <2>1. /\ Continue /\ UnchangedAnalysis
        /\ UNCHANGED <<current, generated, codegen, operands, saved, insert, module>>
    BY <1>7 DEF GenArgument
  <2>2. Aside
    BY <1>1, <2>1 DEF Aside, Continue
  <2>3. Data
    <3>1. CASE codegen.type = "argument"
      <4>1. /\ storage' = Stored(Slot(current, ast[pc].path[1], ast[pc].loc), StorageAt(codegen.at))
            /\ UNCHANGED diagnosed
        BY <1>7, <3>1 DEF GenArgument
      <4>2. UseKey(codegen.at) \in DOMAIN storage
        BY <1>1, <3>1 DEF GInv, ValuesBacked, Backed
      <4>3. StorageAt(codegen.at) \in [kind : {"alloca", "argument"}, of : Name]
        BY <4>2 DEF StorageAt, StorageOf, UseKey, GInv, GenTypeOK
      <4> QED
        BY <1>1, <1>3, <2>1, <4>1, <4>3, StoredData
    <3>2. CASE codegen.type # "argument"
      <4>1. Report(pc, "argument value") /\ UNCHANGED storage
        BY <1>7, <3>2 DEF GenArgument
      <4>2. "argument value" \in Refusal
        BY DEF Refusal
      <4> QED
        BY <1>1, <1>3, <2>1, <4>1, <4>2, SameData DEF Report
    <3> QED
      BY <3>1, <3>2
  <2> QED
    BY <1>1, <1>2, <2>1, <2>2, <2>3, PlainStep, NothingUsed, StillBacked DEF Data
<1> QED
  BY <1>4, <1>5, <1>6, <1>7

LEMMA ExpressionsKeep ==
  ASSUME GInv, GenLiteral \/ GenOther \/ GenAssign \/ GenBinOp \/ GenUnOp \/ GenIf \/ GenEndIf
  PROVE  GInv'
<1>1. /\ pass = "gen" /\ pc \in DOMAIN ast
      /\ ast[pc].op \in {"lit", "type", "endtype", "target", "callee", "assign", "binop", "compare",
                         "otherop", "unop", "otherunop", "if", "endif"}
  BY DEF GenLiteral, GenOther, GenAssign, GenBinOp, GenUnOp, GenIf, GenEndIf, GenAt, At
<1>2. ast[pc].op \notin Methods \cup Calls \cup MethodEnds
  BY <1>1 DEF Methods, Calls, MethodEnds
<1>3. codegen \in Value /\ operands \in Seq(Value) /\ pc \in Nat
  BY <1>1, GenFacts
(* A step that leaves the module and the storage alone. *)
<1>4. ASSUME Continue, UnchangedAnalysis,
             UNCHANGED <<current, diagnosed, generated, saved, insert, module, storage>>,
             operands' \in Seq(Value),
             codegen' = codegen \/ \E t \in {"i32", "i1", "void"} : codegen' = Made(t)
      PROVE  GInv'
  <2>1. Aside
    BY <1>1, <1>4 DEF Aside, Continue
  <2>2. codegen' \in Value /\ (codegen' = codegen \/ codegen'.type # "argument")
    BY <1>3, <1>4, MadeIsValue
  <2>3. Data
    BY <1>1, <1>4, <2>2, SameData
  <2> QED
    BY <1>1, <1>2, <1>4, <2>1, <2>2, <2>3, PlainStep, NothingUsed, StillBacked
<1>5. CASE GenLiteral
  BY <1>3, <1>4, <1>5 DEF GenLiteral
<1>6. CASE GenOther
  BY <1>3, <1>4, <1>6 DEF GenOther, genvars
<1>7. CASE GenAssign
  <2> DEFINE s == StorageAt(pc + ast[pc].link)
             dies == s.kind # "none" /\ (s.kind # "alloca" \/ Operands(1)[1].type \notin Int32)
  <2>1. IF dies THEN Crash
        ELSE /\ IF s.kind = "alloca"
                THEN codegen' = Made("void") /\ Emit("store", s.of)
                ELSE UNCHANGED <<codegen, module>>
             /\ Drop(1) /\ Continue /\ UnchangedAnalysis
             /\ UNCHANGED <<current, diagnosed, generated, saved, insert, storage>>
    BY <1>7 DEF GenAssign
  <2> HIDE DEF dies
  <2>2. CASE dies
    BY <1>1, <2>1, <2>2, CrashKeeps
  <2>3. CASE ~ dies
    <3>1. operands' \in Seq(Value)
      BY <1>3, <2>1, <2>3, Dropped
    <3>2. CASE s.kind = "alloca"
      <4>1. /\ codegen' = Made("void") /\ Emit("store", s.of) /\ Continue /\ UnchangedAnalysis
            /\ UNCHANGED <<current, diagnosed, generated, saved, insert, storage>>
        BY <2>1, <2>3, <3>2
      <4>2. Aside
        BY <1>1, <4>1 DEF Aside, Continue
      <4>3. s.of \in Name
        <5>1. s \in [kind : {"alloca", "argument"}, of : Name]
          BY <3>2, HasStorage
        <5> QED
          BY <5>1
      <4>4. OnlyUses
        BY <1>1, <4>1, <4>3, Emitted
      <4>5. Data
        BY <1>1, <1>3, <3>1, <4>1, SameData, MadeIsValue
      <4>6. Backed(codegen)'
        BY <1>3, <4>1, <4>2, StillBacked, MadeIsValue
      <4> QED
        BY <1>1, <1>2, <4>1, <4>4, <4>5, <4>6, PlainStep
    <3>3. CASE s.kind # "alloca"
      BY <1>4, <2>1, <2>3, <3>1, <3>3
    <3> QED
      BY <3>2, <3>3
  <2> QED
    BY <2>2, <2>3
<1>8. CASE GenBinOp
  <2> DEFINE dies == \E v \in {Operands(2)[1], Operands(2)[2]} : v.type \notin Int32 \cup {"i1"}
  <2>1. IF dies THEN Crash
        ELSE /\ codegen' = CASE ast[pc].op = "binop"   -> Made("i32")
                             [] ast[pc].op = "compare" -> Made("i1")
                             [] ast[pc].op = "otherop" -> codegen
             /\ Drop(2) /\ Continue /\ UnchangedAnalysis
             /\ UNCHANGED <<current, diagnosed, generated, saved, insert, module, storage>>
    BY <1>8 DEF GenBinOp
  <2>2. ast[pc].op \in {"binop", "compare", "otherop"}
    BY <1>8 DEF GenBinOp, GenAt, At
  <2> HIDE DEF dies
  <2>3. CASE dies
    BY <1>1, <2>1, <2>3, CrashKeeps
  <2>4. CASE ~ dies
    <3>1. operands' \in Seq(Value)
      BY <1>3, <2>1, <2>4, Dropped
    <3>2. codegen' \in {Made("i32"), Made("i1"), codegen}
      BY <2>1, <2>2, <2>4
    <3> QED
      BY <1>4, <2>1, <2>4, <3>1, <3>2
  <2> QED
    BY <2>3, <2>4
<1>9. CASE GenUnOp
  <2> DEFINE v == Operands(1)[1]
             dies == ast[pc].op = "unop" /\ v.type \notin Int32 \cup {"i1"}
             made == Made(IF v.type = "i1" THEN "i1" ELSE "i32")
  <2>1. IF dies THEN Crash
        ELSE /\ codegen' = CASE ast[pc].op = "unop"      -> made
                             [] ast[pc].op = "otherunop" -> codegen
             /\ Drop(1) /\ Continue /\ UnchangedAnalysis
             /\ UNCHANGED <<current, diagnosed, generated, saved, insert, module, storage>>
    BY <1>9 DEF GenUnOp
  <2>2. ast[pc].op \in {"unop", "otherunop"}
    BY <1>9 DEF GenUnOp, GenAt, At
  <2>3. made \in {Made("i32"), Made("i1")}
    OBVIOUS
  <2> HIDE DEF dies, v, made
  <2>4. CASE dies
    BY <1>1, <2>1, <2>4, CrashKeeps
  <2>5. CASE ~ dies
    <3>1. operands' \in Seq(Value)
      BY <1>3, <2>1, <2>5, Dropped
    <3>2. codegen' \in {Made("i32"), Made("i1"), codegen}
      BY <2>1, <2>2, <2>3, <2>5
    <3> QED
      BY <1>4, <2>1, <2>5, <3>1, <3>2
  <2> QED
    BY <2>4, <2>5
<1>10. CASE GenIf
  <2>1. CASE insert = NoFunction
    BY <1>1, <1>10, <2>1, CrashKeeps DEF GenIf
  <2>2. CASE insert # NoFunction
    BY <1>3, <1>4, <1>10, <2>2 DEF GenIf, genvars
  <2> QED
    BY <2>1, <2>2
<1>11. CASE GenEndIf
  <2>1. /\ codegen' \in {Made("i32"), codegen} /\ Continue /\ UnchangedAnalysis
        /\ UNCHANGED <<current, diagnosed, generated, operands, saved, insert, module, storage>>
    BY <1>11 DEF GenEndIf
  <2> QED
    BY <1>3, <1>4, <2>1
<1> QED
  BY <1>5, <1>6, <1>7, <1>8, <1>9, <1>10, <1>11

LEMMA CallsKeep ==
  ASSUME GInv, GenCall \/ GenEndCall
  PROVE  GInv'
<1>1. pass = "gen" /\ pc \in DOMAIN ast
  BY DEF GenCall, GenEndCall, GenAt, At
<1>2. /\ codegen \in Value /\ operands \in Seq(Value) /\ pc \in Nat /\ module \in [Name -> Fn]
      /\ Walkable(ast) /\ ast \in Seq(Event)
  BY <1>1, GenFacts
<1>3. CASE GenCall
  <2>1. CASE CallObjection(pc) = "none"
    BY <1>3, <2>1, CallStep DEF GenCall
  <2>2. CASE CallObjection(pc) # "none"
    <3>1. /\ ast[pc].op = "call" /\ pc' = pc + ast[pc].link + 1 /\ Report(pc, CallObjection(pc))
          /\ UnchangedAnalysis /\ UNCHANGED <<inputs, ast, pass, current, genvars>>
      BY <1>3, <2>2 DEF GenCall, GenAt, At
    <3>2. Aside /\ UNCHANGED <<codegen, operands, saved, insert, module, storage>>
      BY <1>1, <3>1 DEF Aside, genvars
    <3>3. CallObjection(pc) \in Refusal
      <4> DEFINE called == ast[pc + ast[pc].link - 1]
                 f == module[LastName(called.path)]
      <4>1. CallObjection(pc) =
              CASE called.op # "callee"                         -> "callee"
                [] called.op = "callee" /\ f.state = "absent"   -> "unknown function"
                [] called.op = "callee" /\ f.state # "absent"   ->
                     IF f.arity # ArgCount(pc) THEN "argument count" ELSE "none"
        BY DEF CallObjection
      <4> HIDE DEF called, f
      <4> QED
        BY <2>2, <4>1 DEF Refusal
    <3>4. Data
      BY <1>1, <1>2, <3>1, <3>2, <3>3, SameData DEF Report
    <3>5. pc' = EndOf(ast, pc) + 1 /\ ast[pc].op \in Openers
      BY <3>1 DEF EndOf, Openers
    <3> QED
      BY <1>1, <3>1, <3>2, <3>4, <3>5, SkipStep
  <2> QED
    BY <2>1, <2>2
<1>4. CASE GenEndCall
  <2> DEFINE name == LastName(ast[pc - 1].path)
             n == module[name].arity
             dies == \E i \in 1 .. n : Operands(n)[i].type \notin Int32
  <2>1. IF dies THEN Crash
        ELSE /\ codegen' = Made("i32") /\ Emit("call", name)
             /\ Drop(n) /\ Continue /\ UnchangedAnalysis
             /\ UNCHANGED <<current, diagnosed, generated, saved, insert, storage>>
    BY <1>4 DEF GenEndCall
  <2> HIDE DEF dies
  <2>2. ast[pc].op = "endcall"
    BY <1>4 DEF GenEndCall, GenAt, At
  <2>3. name \in Name /\ module[name].state # "absent"
    <3>1. PICK c \in DOMAIN ast :
            /\ pc = EndOf(ast, c) /\ ast[c].op \in Methods \cup Calls /\ <<ast[c].op, ast[pc].op>> \in Brackets
            /\ ast[c].op \in Calls <=> ast[pc].op = "endcall"
      BY <1>1, <2>2, Ending
    <3>2. c \in Open(ast, Calls, pc)
      <4>1. c \in Open(ast, Calls, EndOf(ast, c))
        BY <1>2, <2>2, <3>1, Kinds, OpenAtEnd
      <4> QED
        BY <3>1, <4>1
    <3>3. name = Callee(ast, c) /\ name \in Name
      BY <1>1, <3>1, <3>2, CalleeNamed DEF Callee
    <3>4. \/ module[name].state = "complete"
          \/ \E f \in Open(ast, Fns, pc) : NamesIn(ast)[f] = name
      BY <1>1, <3>2, <3>3 DEF GInv, CallsPending
    <3> QED
      BY <1>1, <3>3, <3>4 DEF GInv, FunctionsOpen
  <2>4. n \in Nat
    BY <1>2, <2>3 DEF Fn
  <2> HIDE DEF name, n
  <2>5. CASE dies
    BY <1>1, <2>1, <2>5, CrashKeeps
  <2>6. CASE ~ dies
    <3>1. /\ codegen' = Made("i32") /\ Emit("call", name) /\ operands' \in Seq(Value)
          /\ Continue /\ UnchangedAnalysis
          /\ UNCHANGED <<current, diagnosed, generated, saved, insert, storage>>
      BY <1>2, <2>1, <2>4, <2>6, Dropped
    <3>2. OnlyUses
      BY <1>1, <2>3, <3>1, Emitted
    <3>3. Data
      BY <1>1, <1>2, <3>1, SameData, MadeIsValue
    <3>4. Aside
      BY <1>1, <3>1 DEF Aside, Continue
    <3>5. Backed(codegen)'
      BY <1>2, <3>1, <3>4, StillBacked, MadeIsValue
    <3>6. ast[pc].op \notin Methods \cup Calls \cup MethodEnds
      BY <2>2 DEF Methods, Calls, MethodEnds
    <3> QED
      BY <1>1, <3>1, <3>2, <3>3, <3>5, <3>6, PlainStep
  <2> QED
    BY <2>5, <2>6
<1> QED
  BY <1>3, <1>4

LEMMA BranchesKeep ==
  ASSUME GInv, GenThen \/ GenEndBranch
  PROVE  GInv'
<1>1. pass = "gen" /\ pc \in DOMAIN ast
  BY DEF GenThen, GenEndBranch, GenAt, At
<1>2. codegen \in Value /\ operands \in Seq(Value) /\ pc \in Nat /\ ast \in Seq(Event)
  BY <1>1, GenFacts
<1>3. CASE GenThen
  <2> DEFINE dies == Operands(1)[1].type # "i1"
             else == HasElse(IfOf(pc))
  <2>1. IF dies THEN Crash
        ELSE /\ Drop(1)
             /\ IF else THEN Save /\ codegen' = Null /\ pc' = pc + 1
                ELSE pc' = pc + ast[pc].link + 1 /\ UNCHANGED <<saved, codegen>>
             /\ UnchangedAnalysis
             /\ UNCHANGED <<inputs, ast, pass, current, diagnosed, generated, insert, module, storage>>
    BY <1>3 DEF GenThen
  <2>2. ast[pc].op = "then"
    BY <1>3 DEF GenThen, GenAt, At
  <2> HIDE DEF dies, else
  <2>3. CASE dies
    BY <1>1, <2>1, <2>3, CrashKeeps
  <2>4. CASE ~ dies /\ else
    <3>1. /\ Drop(1) /\ Save /\ codegen' = Null /\ Continue /\ UnchangedAnalysis
          /\ UNCHANGED <<current, diagnosed, generated, insert, module, storage>>
      BY <2>1, <2>4 DEF Continue
    <3>2. operands' \in Seq(Value)
      BY <1>2, <3>1, Dropped
    <3>3. Data
      BY <1>1, <1>2, <3>1, <3>2, SameData, MadeIsValue
    <3>4. ast[pc].op \in Methods \ Fns /\ ast[pc].op \notin Scopes
      BY <2>2 DEF Methods, Fns, Scopes
    <3> QED
      BY <1>1, <3>1, <3>3, <3>4, PushStep
  <2>5. CASE ~ dies /\ ~ else
    <3>1. /\ Drop(1) /\ pc' = pc + ast[pc].link + 1 /\ UnchangedAnalysis
          /\ UNCHANGED <<inputs, ast, pass, current, diagnosed, generated, insert, module, storage>>
          /\ UNCHANGED <<saved, codegen>>
      BY <2>1, <2>5
    <3>2. operands' \in Seq(Value)
      BY <1>2, <3>1, Dropped
    <3>3. Data /\ Aside
      BY <1>1, <1>2, <3>1, <3>2, SameData DEF Aside
    <3>4. pc' = EndOf(ast, pc) + 1 /\ ast[pc].op \in Openers
      BY <2>2, <3>1 DEF EndOf, Openers
    <3> QED
      BY <1>1, <3>1, <3>3, <3>4, SkipStep
  <2> QED
    BY <2>3, <2>4, <2>5
<1>4. CASE GenEndBranch
  <2>1. CASE codegen.type \notin Int32
    BY <1>1, <1>4, <2>1, CrashKeeps DEF GenEndBranch
  <2>2. CASE codegen.type \in Int32
    <3>1. /\ codegen' = saved[1].codegen /\ saved' = Tail(saved)
          /\ Continue /\ UnchangedAnalysis
          /\ UNCHANGED <<current, diagnosed, generated, operands, insert, module, storage>>
      BY <1>4, <2>2 DEF GenEndBranch
    <3>2. ast[pc].op \in MethodEnds \ {"endfn"} /\ ast[pc].op \notin {"end", "endin"}
      BY <1>4 DEF GenEndBranch, GenAt, At, MethodEnds
    <3>3. saved[1] \in SavedFrame
      BY <1>1, <3>2, EndsWithFrame
    <3>4. Data
      BY <1>1, <1>2, <3>1, <3>3, SameData DEF SavedFrame
    <3> QED
      BY <1>1, <3>1, <3>2, <3>4, PopStep
  <2> QED
    BY <2>1, <2>2
<1> QED
  BY <1>3, <1>4

-----------------------------------------------------------------------------
(* The beginning and the end of the walk.                                  *)

(* At the end every method has been left, and the table and the builder    *)
(* are those of the beginning; no function is open.                        *)
LEMMA AtTheEnd ==
  ASSUME GInv, pass = "gen", pc = Len(ast) + 1
  PROVE  /\ saved = <<>> /\ insert = NoFunction /\ current = GlobalSymIndex
         /\ \A n \in Name : module[n].state # "open"
<1>1. Walkable(ast) /\ saved \in Seq(SavedFrame)
  BY GenFacts
<1>2. StackOf(saved, ast, Methods, Len(ast) + 1)
  BY DEF GInv, Walking
<1>3. saved = <<>>
  BY <1>1, <1>2, Kinds, StackEmptied
<1>4. /\ InnermostHas(ast, Scopes, Len(ast) + 1, GlobalSymIndex, locals, current)
      /\ InnermostHas(ast, Fns, Len(ast) + 1, NoFunction, NamesIn(ast), insert)
  BY DEF GInv, Walking, TableFor, BuilderFor
<1>5. insert = NoFunction /\ current = GlobalSymIndex
  BY <1>1, <1>4, Kinds, AroundNothing
<1>6. Open(ast, Fns, Len(ast) + 1) = {}
  BY <1>1, Kinds, NothingOpen
<1>7. \A n \in Name : module[n].state # "open"
  BY <1>6 DEF GInv, FunctionsOpen
<1> QED
  BY <1>3, <1>5, <1>7

LEMMA DoneKeeps ==
  ASSUME GInv, GenDone
  PROVE  GInv'
<1>1. /\ pass = "gen" /\ pc = Len(ast) + 1 /\ pass' = "done" /\ UnchangedAnalysis
      /\ UNCHANGED <<inputs, ast, pc, current, diagnosed, generated>>
      /\ UNCHANGED <<codegen, operands, saved, insert, module, storage>>
  BY DEF GenDone, genvars
<1>2. Analysed'
  BY <1>1, AnalysedKept
<1>3. GenTypeOK'
  BY <1>1 DEF GInv, GenTypeOK, UnchangedAnalysis
<1>4. Walking' /\ FunctionsOpen'
  BY <1>1, AtTheEnd DEF Walking, FunctionsOpen
<1>5. CallsMade' /\ InputsPast' /\ CallsPending' /\ ValuesBacked'
  BY <1>1 DEF GInv, CallsMade, InputsPast, CallsPending, ValuesBacked
<1> QED
  BY <1>2, <1>3, <1>4, <1>5 DEF GInv

LEMMA StartKeeps ==
  ASSUME GInv, GenStart
  PROVE  GInv'
<1>1. /\ pass = "done" /\ pass' = "gen" /\ pc' = 1 /\ current' = GlobalSymIndex /\ generated' = TRUE
      /\ codegen' = Null /\ operands' = <<>> /\ saved' = <<>> /\ insert' = NoFunction
      /\ UnchangedAnalysis /\ UNCHANGED <<inputs, ast, diagnosed, module, storage>>
  BY DEF GenStart
<1>2. Analysed'
  BY <1>1, AnalysedKept
<1>3. /\ Walkable(ast) /\ Len(ast) \in Nat /\ GlobalSymIndex \in DOMAIN arena
      /\ ast' = ast /\ locals' = locals /\ arena' = arena
  BY <1>1 DEF GInv, Analysed, Walkable, UnchangedAnalysis
<1>4. GenTypeOK'
  BY <1>1, <1>3 DEF GInv, GenTypeOK, Null, Value
<1>5. \A kinds \in {Methods, Fns, Calls, Scopes} : Open(ast, kinds, 1) = {}
  BY <1>3, Kinds, NothingOpen
<1>6. Walking'
  <2>1. StackOf(saved', ast, Methods, 1)
    BY <1>1, <1>3, Kinds, EmptyStack
  <2>2. TableFor(pc, current)' /\ BuilderFor(pc, insert)'
    BY <1>1, <1>3, Kinds, AroundNothing DEF TableFor, BuilderFor
  <2> QED
    BY <1>1, <1>3, <2>1, <2>2 DEF Walking
<1>7. FunctionsOpen' /\ CallsPending'
  <2>1. \A n \in Name : module'[n].state # "open"
    BY <1>1 DEF GInv, FunctionsOpen
  <2> QED
    BY <1>1, <1>3, <1>5, <2>1 DEF FunctionsOpen, CallsPending
<1>8. CallsMade' /\ InputsPast' /\ ValuesBacked'
  BY <1>1 DEF GInv, CallsMade, InputsPast, ValuesBacked, Backed, Null
<1> QED
  BY <1>2, <1>4, <1>6, <1>7, <1>8 DEF GInv

LEMMA GenPassKeeps ==
  ASSUME GInv, GenPass
  PROVE  GInv'
  BY StartKeeps, ScopesKeep, FunctionsKeep, NamesKeep, ExpressionsKeep, CallsKeep, BranchesKeep,
     DoneKeeps DEF GenPass

-----------------------------------------------------------------------------
(* The passes of the analysis leave the generator's state alone.           *)

LEMMA AnalysisKeeps ==
  ASSUME GInv, DeclPass \/ RefPass, UNCHANGED genvars
  PROVE  GInv'
<1>1. pass \in {"decl", "ref"}
  BY DEF DeclPass, RefPass, DeclFunction, DeclEndFunction, DeclArgument, DeclBlock, DeclEndBlock,
     DeclAssignName, DeclInAssign, DeclEndInAssign, DeclTypeAssign, DeclEndTypeAssign, DeclOther,
     DeclDone, RefBlock, RefEndBlock, RefFunction, RefEndFunction, RefVariable, RefAssign,
     RefAssignNoVariable, RefInAssign, RefEndInAssign, RefTypeAssign, RefEndTypeAssign, RefOther,
     RefDone, At
<1>2. IInv'
  BY <1>1, DeclPassKeeps, RefPassKeeps DEF GInv, Analysed
<1>3. UNCHANGED <<inputs, ast>>
  BY DEF DeclPass, RefPass, DeclFunction, DeclEndFunction, DeclArgument, DeclBlock, DeclEndBlock,
     DeclAssignName, DeclInAssign, DeclEndInAssign, DeclTypeAssign, DeclEndTypeAssign, DeclOther,
     DeclDone, RefBlock, RefEndBlock, RefFunction, RefEndFunction, RefVariable, RefAssign,
     RefAssignNoVariable, RefInAssign, RefEndInAssign, RefTypeAssign, RefEndTypeAssign, RefOther,
     RefDone, Continue
<1>4. pass' \in {"decl", "ref", "done", "crashed"}
  BY <1>2 DEF IInv, TypeOK
<1>5. pass' \in {"ref", "done"} => \A i \in DOMAIN ast' : ast'[i].op \in Scopes => locals'[i] # None
  <2>1. CASE pass' = "ref"
    BY <1>2, <2>1 DEF IInv, ScopesAnnotated, Scopes
  <2>2. CASE pass' = "done"
    <3>1. RefDone
      BY <2>2 DEF DeclPass, RefPass, DeclFunction, DeclEndFunction, DeclArgument, DeclBlock,
         DeclEndBlock, DeclAssignName, DeclInAssign, DeclEndInAssign, DeclTypeAssign,
         DeclEndTypeAssign, DeclOther, DeclDone, RefBlock, RefEndBlock, RefFunction, RefEndFunction,
         RefVariable, RefAssign, RefAssignNoVariable, RefInAssign, RefEndInAssign, RefTypeAssign,
         RefEndTypeAssign, RefOther, Continue, At
    <3> QED
      BY <3>1 DEF RefDone, GInv, Analysed, IInv, ScopesAnnotated, Scopes
  <2> QED
    BY <2>1, <2>2
<1>6. Analysed'
  BY <1>2, <1>3, <1>4, <1>5 DEF GInv, Analysed, IInv, TypeOK, ParentsPrecede, GlobalSymIndex
<1>7. GenTypeOK'
  <2>1. saved' = <<>>
    BY <1>1 DEF GInv, Walking, genvars
  <2>2. /\ pc' \in 1 .. Len(ast') + 1 /\ current' \in DOMAIN arena'
        /\ diagnosed' \subseteq [event : DOMAIN ast', what : Diagnosis]
    BY <1>2 DEF IInv, TypeOK
  <2>3. diagnosed' \subseteq [event : DOMAIN ast', what : Diagnosis \cup Refusal]
    BY <2>2
  <2> QED
    BY <1>4, <2>1, <2>2, <2>3 DEF GInv, GenTypeOK, genvars
<1>8. Walking' /\ FunctionsOpen' /\ CallsPending' /\ CallsMade' /\ ValuesBacked' /\ InputsPast'
  BY <1>1, <1>3, <1>4 DEF genvars, GInv, Walking, FunctionsOpen, CallsPending, CallsMade,
     ValuesBacked, InputsPast
<1> QED
  BY <1>6, <1>7, <1>8 DEF GInv

LEMMA GenStutter ==
  ASSUME GInv, UNCHANGED allvars
  PROVE  GInv'
<1>1. /\ UNCHANGED <<inputs, ast, pass, pc, arena, current, context, frames, locals, def_table, diagnosed>>
      /\ UNCHANGED <<generated, codegen, operands, saved, insert, module, storage>>
  BY DEF allvars, vars, genvars
<1>2. IInv => IInv'
  BY <1>1, StutteringKeeps DEF vars
<1>3. Analysed'
  BY <1>1, <1>2 DEF GInv, Analysed, ParentsPrecede, KeywordsIntact
<1>4. GenTypeOK' /\ Walking' /\ FunctionsOpen'
  BY <1>1 DEF GInv, GenTypeOK, Walking, FunctionsOpen, TableFor, BuilderFor
<1>5. CallsPending' /\ CallsMade' /\ InputsPast'
  BY <1>1 DEF GInv, CallsPending, CallsMade, InputsPast
<1>6. ValuesBacked'
  <2>1. \A i : UseKey(i)' = UseKey(i)
    BY <1>1, UseKeyKept DEF UnchangedAnalysis
  <2> QED
    BY <1>1, <2>1 DEF GInv, ValuesBacked, Backed
<1> QED
  BY <1>3, <1>4, <1>5, <1>6 DEF GInv

LEMMA GenInitEstablishes == GenInit => GInv
<1> SUFFICES ASSUME GenInit PROVE GInv
  OBVIOUS
<1>1. /\ pass = "decl" /\ pc = 1 /\ inputs = 1 /\ ast \in Programs /\ diagnosed = {}
      /\ generated = FALSE /\ codegen = Null /\ operands = <<>> /\ saved = <<>> /\ insert = NoFunction
      /\ module = [n \in Name |-> Absent] /\ storage = <<>>
  BY DEF GenInit, Init
<1>2. IInv
  BY InitEstablishes DEF GenInit
<1>3. Walkable(ast)
  BY <1>1, ProgramsAssumption DEF Walkable
<1>4. Analysed
  BY <1>1, <1>2, <1>3 DEF Analysed, IInv, TypeOK, ParentsPrecede, GlobalSymIndex
<1>5. Absent \in Fn /\ Null \in Value
  <2>1. Null \in Value
    BY DEF Null, Value
  <2> QED
    BY <2>1 DEF Fn, Absent
<1>6. GenTypeOK
  <2>1. /\ pass \in {"decl", "ref", "gen", "done", "crashed"} /\ generated \in BOOLEAN
        /\ insert \in Name \cup {NoFunction} /\ codegen \in Value
    BY <1>1, <1>5
  <2>2. pc \in 1 .. Len(ast) + 1 /\ current \in DOMAIN arena
    BY <1>2 DEF IInv, TypeOK
  <2>3. diagnosed \subseteq [event : DOMAIN ast, what : Diagnosis \cup Refusal]
    BY <1>1
  <2>4. operands \in Seq(Value)
    BY <1>1
  <2>5. saved \in Seq(SavedFrame)
    BY <1>1
  <2>6. module \in [Name -> Fn]
    BY <1>1, <1>5
  <2>7. \A k \in DOMAIN storage : storage[k] \in [kind : {"alloca", "argument"}, of : Name]
    <3>1. DOMAIN storage = {}
      BY <1>1
    <3> QED
      BY <3>1
  <2> QED
    BY <2>1, <2>2, <2>3, <2>4, <2>5, <2>6, <2>7 DEF GenTypeOK, SavedFrame, Fn
<1> QED
  BY <1>1, <1>4, <1>6 DEF GInv, Walking, FunctionsOpen, CallsPending, CallsMade, ValuesBacked,
     InputsPast, Absent

(* The invariant of the generator holds for every set of programs.         *)
THEOREM GenInvariant == GenSpec => []GInv
<1>1. GenInit => GInv
  BY GenInitEstablishes
<1>2. GInv /\ [GenNext]_allvars => GInv'
  <2> SUFFICES ASSUME GInv, [GenNext]_allvars PROVE GInv'
    OBVIOUS
  <2>1. CASE (DeclPass \/ RefPass) /\ UNCHANGED genvars
    BY <2>1, AnalysisKeeps
  <2>2. CASE GenPass
    BY <2>2, GenPassKeeps
  <2>3. CASE GenEnded
    BY <2>3, GenStutter DEF GenEnded
  <2>4. CASE UNCHANGED allvars
    BY <2>4, GenStutter
  <2> QED
    BY <2>1, <2>2, <2>3, <2>4 DEF GenNext
<1> QED
  BY <1>1, <1>2, PTL DEF GenSpec

(* GenTypeOK holds: a saved table is one of the arena, an insertion point  *)
(* a function with a name, whatever was visited between saving and         *)
(* restoring it (visitFunction from LlvmIrGenerator.cpp:77 to :122).       *)
THEOREM GenTyped == GenSpec => []GenTypeOK
<1>1. GInv => GenTypeOK
  BY DEF GInv
<1> QED
  BY <1>1, GenInvariant, PTL

(* BuilderRestored holds: the methods restore what they saved in every     *)
(* program, also where they return early or skip a body.                   *)
THEOREM BuilderIsRestored == GenSpec => []BuilderRestored
<1>1. GInv => BuilderRestored
  BY AtTheEnd DEF BuilderRestored
<1> QED
  BY <1>1, GenInvariant, PTL

(* Where no function is open the module is whole.                          *)
LEMMA WholeWhenDone == GInv => ModuleWhole
<1> SUFFICES ASSUME GInv, pass = "done", NEW n \in Name
             PROVE  /\ module[n].state # "open"
                    /\ \A u \in module[n].uses : u.kind = "call" => module[u.of].state = "complete"
  BY DEF ModuleWhole
<1>1. /\ module \in [Name -> Fn] /\ \A m \in Name : module[m].state # "open"
  BY DEF GInv, GenTypeOK, Fn, FunctionsOpen
<1>2. ASSUME NEW u \in module[n].uses, u.kind = "call" PROVE module[u.of].state = "complete"
  <2>1. u.of \in Name
    BY <1>1 DEF Fn, Use
  <2>2. module[u.of].state # "absent"
    BY <1>2 DEF GInv, CallsMade
  <2> QED
    BY <1>1, <2>1, <2>2 DEF Fn
<1> QED
  BY <1>1, <1>2

(* ModuleWhole holds: no input leaves a function without its end, or a     *)
(* call of a function that was taken out (eraseFromParent,                 *)
(* LlvmIrGenerator.cpp:117).                                               *)
THEOREM ModuleIsWhole == GenSpec => []ModuleWhole
<1>1. GInv => ModuleWhole
  BY WholeWhenDone
<1> QED
  BY <1>1, GenInvariant, PTL


-----------------------------------------------------------------------------
(* The generator looks up what VarRefPass has found.                       *)

LEMMA GenPassLeaves ==
  ASSUME GenPass
  PROVE  UNCHANGED <<ast, arena, def_table>> /\ (pass' = "decl" => pass = "decl")
<1> USE DEF Continue, Crash, UnchangedAnalysis, GenAt
<1>1. CASE GenStart \/ GenLiteral \/ GenNode \/ GenEndNode \/ GenEnter \/ GenLeave \/ GenOther
  BY <1>1 DEF GenStart, GenLiteral, GenNode, GenEndNode, GenEnter, GenLeave, GenOther
<1>2. CASE GenFunctionAgain \/ GenFunction \/ GenFunctionUnnamed \/ GenEndFunction \/ GenErased
  BY <1>2 DEF GenFunctionAgain, GenFunction, GenFunctionUnnamed, GenEndFunction, GenErased
<1>3. CASE GenVariable \/ GenNameFunction \/ GenAssignName \/ GenArgument
  BY <1>3 DEF GenVariable, GenNameFunction, GenAssignName, GenArgument
<1>4. CASE GenAssign \/ GenBinOp \/ GenUnOp \/ GenCall \/ GenEndCall
  BY <1>4 DEF GenAssign, GenBinOp, GenUnOp, GenCall, GenEndCall
<1>5. CASE GenIf \/ GenThen \/ GenEndBranch \/ GenEndIf \/ GenDone
  BY <1>5 DEF GenIf, GenThen, GenEndBranch, GenEndIf, GenDone
<1> QED
  BY <1>1, <1>2, <1>3, <1>4, <1>5 DEF GenPass

(* What the analysis and the generator leave of the references. *)
LEMMA ReferencesThrough ==
  ASSUME GInv, References, ((DeclPass \/ RefPass) /\ UNCHANGED genvars) \/ GenPass
  PROVE  References'
<1>1. CASE DeclPass \/ RefPass
  <2>1. pass \in {"decl", "ref"}
    BY <1>1 DEF DeclPass, RefPass, DeclFunction, DeclEndFunction, DeclArgument, DeclBlock,
       DeclEndBlock, DeclAssignName, DeclInAssign, DeclEndInAssign, DeclTypeAssign,
       DeclEndTypeAssign, DeclOther, DeclDone, RefBlock, RefEndBlock, RefFunction, RefEndFunction,
       RefVariable, RefAssign, RefAssignNoVariable, RefInAssign, RefEndInAssign, RefTypeAssign,
       RefEndTypeAssign, RefOther, RefDone, At
  <2> QED
    BY <1>1, <2>1, PassesHold DEF GInv, Analysed
<1>2. CASE GenPass
  BY <1>2, GenPassLeaves, ReferencesStay
<1> QED
  BY <1>1, <1>2

(* ReferencesHold holds while code is generated: get finds a declaration   *)
(* for every variable with a def_table (LlvmIrGenerator.cpp:131, :297).    *)
THEOREM GeneratorReferencesHold == GenSpec => []ReferencesHold
<1>1. GenInit => References
  <2> SUFFICES ASSUME GenInit PROVE References
    OBVIOUS
  <2>1. \A i \in DOMAIN ast : def_table[i] = None
    BY DEF GenInit, Init
  <2> QED
    BY <2>1 DEF References, ReferencesHold
<1>2. GInv /\ References /\ [GenNext]_allvars => References'
  <2> SUFFICES ASSUME GInv, References, [GenNext]_allvars PROVE References'
    OBVIOUS
  <2>1. CASE ((DeclPass \/ RefPass) /\ UNCHANGED genvars) \/ GenPass
    BY <2>1, ReferencesThrough
  <2>2. CASE GenEnded \/ UNCHANGED allvars
    BY <2>2, ReferencesStay DEF GenEnded, allvars, vars
  <2> QED
    BY <2>1, <2>2 DEF GenNext
<1>3. References => ReferencesHold
  BY DEF References
<1> QED
  BY <1>1, <1>2, <1>3, GenInvariant, PTL DEF GenSpec
=============================================================================
