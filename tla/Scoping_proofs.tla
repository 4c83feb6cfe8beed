--------------------------- MODULE Scoping_proofs ---------------------------
(***************************************************************************)
(* Theorems that tie the passes to the scopes of the tree: wherever a pass *)
(* is, its members are those of the nodes around it, and it leaves them as *)
(* it found them.                                                          *)
(***************************************************************************)
EXTENDS AnalysisCorrect, Analysis_proofs

(* The nodes whose methods save something, those that have a table, and    *)
(* those that set the context.                                             *)
Saving   == {"fn", "block", "in", "type"}
Tabled   == {"block", "in"}
Settling == {"fn", "in", "type"}

ContextIn(p) == [i \in DOMAIN p |-> IF p[i].op = "type" THEN "TYPE" ELSE "SCOPE"]

(* The members that a pass should have at event i of p, with the tables l. *)
Placed(p, l, i, t, c) ==
  /\ InnermostHas(p, Tabled, i, GlobalSymIndex, l, t)
  /\ InnermostHas(p, Settling, i, "GLOBAL", ContextIn(p), c)

(* The methods on the stack are those of the nodes around the event, and   *)
(* each has saved what the pass should have had when it came to its node.  *)
FramesPlaced ==
  pass \in {"decl", "ref"} =>
    /\ StackOf(frames, ast, Saving, pc)
    /\ Placed(ast, locals, pc, current, context)
    /\ \A k \in DOMAIN frames :
         Placed(ast, locals, frames[k].node, frames[k].current, frames[k].context)

(* A table has the context of the nodes around its scope. *)
TablesPlaced ==
  /\ arena[GlobalSymIndex].scope_context = "GLOBAL"
  /\ \A s \in DOMAIN ast : ast[s].op \in Tabled /\ locals[s] # None =>
       arena[locals[s]].scope_context = ContextOf(ast, s)

Rested ==
  /\ pass = "done" => PassesRestore
  /\ pass = "crashed" => pc \in DOMAIN ast

PlaceInv == IInv /\ WellNested(ast) /\ FramesPlaced /\ TablesPlaced /\ Rested

-----------------------------------------------------------------------------
(* The members along the walk.                                             *)

LEMMA KindsOfNodes ==
  /\ Saving \in SUBSET Openers /\ Tabled \in SUBSET Openers /\ Settling \in SUBSET Openers
  /\ Tabled \in SUBSET Saving /\ Settling \in SUBSET Saving
  BY DEF Saving, Tabled, Settling, Openers

LEMMA PlaceFacts ==
  ASSUME PlaceInv
  PROVE  /\ Walkable(ast) /\ DOMAIN ast = 1 .. Len(ast) /\ Len(ast) \in Nat
         /\ pc \in 1 .. Len(ast) + 1 /\ current \in DOMAIN arena /\ context \in ScopingContext
         /\ frames \in Seq(Frame) /\ arena \in Seq(Table)
         /\ locals \in [DOMAIN ast -> {None} \cup DOMAIN arena]
  BY DEF PlaceInv, IInv, TypeOK, Walkable, Frame

(* Other tables than those of the scopes around an event do not matter. *)
LEMMA PlacedStill ==
  ASSUME NEW p, NEW l, NEW m, NEW i \in Nat, \A o \in 1 .. i - 1 : p[o].op \in Tabled => l[o] = m[o],
         NEW t, NEW c, Placed(p, l, i, t, c)
  PROVE  Placed(p, m, i, t, c)
<1>1. \A o \in Open(p, Tabled, i) : l[o] = m[o]
  BY DEF Open
<1> QED
  BY <1>1, AroundOfSame DEF Placed

(* A method saves the members, and sets those it is for. *)
LEMMA EnterPlaced ==
  ASSUME PlaceInv, Enter, Continue, pass \in {"decl", "ref"}, pc \in DOMAIN ast, ast[pc].op \in Saving,
         \A o \in 1 .. pc - 1 : ast[o].op \in Tabled => locals[o] = locals'[o],
         current' = IF ast[pc].op \in Tabled THEN locals'[pc] ELSE current,
         context' = IF ast[pc].op \in Settling THEN ContextIn(ast)[pc] ELSE context
  PROVE  FramesPlaced'
<1> DEFINE f == [node |-> pc, current |-> current, context |-> context]
<1>1. /\ Walkable(ast) /\ DOMAIN ast = 1 .. Len(ast) /\ Len(ast) \in Nat /\ pc \in Nat /\ pc >= 1
      /\ frames \in Seq(Frame) /\ f \in Frame /\ f.node = pc
      /\ ast' = ast /\ pc' = pc + 1 /\ pass' = pass /\ ast[pc].op \in Openers
  BY PlaceFacts, KindsOfNodes DEF Continue, Frame
<1>2. /\ StackOf(frames, ast, Saving, pc) /\ Placed(ast, locals, pc, current, context)
      /\ \A k \in DOMAIN frames :
           Placed(ast, locals, frames[k].node, frames[k].current, frames[k].context)
  BY DEF PlaceInv, FramesPlaced
<1>3. frames' = <<f>> \o frames
  BY DEF Enter
<1>4. StackOf(frames', ast, Saving, pc + 1)
  <2> HIDE DEF f
  <2>1. StackOf(<<f>> \o frames, ast, Saving, pc + 1)
    BY <1>1, <1>2, KindsOfNodes, Pushed
  <2> QED
    BY <1>3, <2>1
<1>5. Placed(ast, locals', pc, current, context)
  BY <1>1, <1>2, PlacedStill
<1>6. InnermostHas(ast, Tabled, pc + 1, GlobalSymIndex, locals', current')
  <2>1. CASE ast[pc].op \in Tabled
    BY <1>1, <2>1, KindsOfNodes, AroundOpened
  <2>2. CASE ast[pc].op \notin Tabled
    <3>1. Open(ast, Tabled, pc) = Open(ast, Tabled, pc + 1)
      BY <1>1, <2>2, KindsOfNodes, OpenAside
    <3> QED
      BY <1>5, <2>2, <3>1, AroundKept DEF Placed
  <2> QED
    BY <2>1, <2>2
<1>7. InnermostHas(ast, Settling, pc + 1, "GLOBAL", ContextIn(ast), context')
  <2>1. CASE ast[pc].op \in Settling
    BY <1>1, <2>1, KindsOfNodes, AroundOpened
  <2>2. CASE ast[pc].op \notin Settling
    <3>1. Open(ast, Settling, pc) = Open(ast, Settling, pc + 1)
      BY <1>1, <2>2, KindsOfNodes, OpenAside
    <3> QED
      BY <1>5, <2>2, <3>1, AroundKept DEF Placed
  <2> QED
    BY <2>1, <2>2
<1>8. ASSUME NEW k \in DOMAIN frames'
      PROVE  Placed(ast, locals', frames'[k].node, frames'[k].current, frames'[k].context)
  <2>1. CASE k = 1
    BY <1>1, <1>3, <1>5, <2>1
  <2>2. CASE k # 1
    <3>1. k - 1 \in DOMAIN frames /\ frames'[k] = frames[k - 1]
      <4> HIDE DEF f
      <4> QED
        BY <1>1, <1>3, <2>2
    <3>2. frames[k - 1].node \in Open(ast, Saving, pc)
      BY <1>2, <3>1 DEF StackOf
    <3>3. frames[k - 1].node \in Nat /\ frames[k - 1].node < pc
      BY <1>1, <3>2 DEF Open
    <3>4. \A o \in 1 .. frames[k - 1].node - 1 : ast[o].op \in Tabled => locals[o] = locals'[o]
      BY <1>1, <3>3
    <3> QED
      BY <1>2, <3>1, <3>3, <3>4, PlacedStill
  <2> QED
    BY <2>1, <2>2
<1> QED
  BY <1>1, <1>4, <1>6, <1>7, <1>8 DEF FramesPlaced, Placed

(* A method that returns takes them back, or leaves those alone that it did *)
(* not set.                                                                 *)
LEMMA LeavePlaced ==
  ASSUME PlaceInv, Leave, Continue, pass \in {"decl", "ref"}, pc \in DOMAIN ast, locals' = locals,
         ast[pc].op \in {"endfn", "end", "endin", "endtype"},
         \/ current' = Head(frames).current
         \/ current' = current /\ ast[pc].op \in {"endfn", "endtype"},
         \/ context' = Head(frames).context
         \/ context' = context /\ ast[pc].op = "end"
  PROVE  FramesPlaced'
<1>1. /\ Walkable(ast) /\ DOMAIN ast = 1 .. Len(ast) /\ Len(ast) \in Nat /\ pc \in Nat /\ pc >= 1
      /\ frames \in Seq(Frame) /\ ast' = ast /\ pc' = pc + 1 /\ pass' = pass
      /\ frames # <<>> /\ frames' = Tail(frames)
  BY PlaceFacts DEF Continue, Leave
<1>2. /\ StackOf(frames, ast, Saving, pc) /\ Placed(ast, locals, pc, current, context)
      /\ \A k \in DOMAIN frames :
           Placed(ast, locals, frames[k].node, frames[k].current, frames[k].context)
  BY DEF PlaceInv, FramesPlaced
<1>3. PICK o \in DOMAIN ast :
        ast[o].op \in Openers /\ EndOf(ast, o) = pc /\ <<ast[o].op, ast[pc].op>> \in Brackets
  <2>1. ast[pc].op \in Closers
    BY DEF Closers
  <2> QED
    BY <1>1, <2>1, Opened
<1>4. ast[o].op \in Saving
  BY <1>3 DEF Brackets, Saving
<1>5. frames[1].node = o /\ 1 \in DOMAIN frames /\ Head(frames) = frames[1]
  <2>1. frames[1].node = o /\ 1 \in DOMAIN frames
    BY <1>1, <1>2, <1>3, <1>4, KindsOfNodes, OnTop
  <2> QED
    BY <1>1, <2>1
<1>6. /\ StackOf(frames', ast, Saving, pc + 1)
      /\ \A k \in DOMAIN frames' : k + 1 \in DOMAIN frames /\ frames'[k] = frames[k + 1]
  BY <1>1, <1>2, <1>3, <1>4, KindsOfNodes, Popped
<1>7. Placed(ast, locals, o, frames[1].current, frames[1].context)
  BY <1>2, <1>5
<1>8. \A kinds \in {Tabled, Settling} :
        /\ Open(ast, kinds, pc + 1) = Open(ast, kinds, o)
        /\ ast[o].op \notin kinds => Open(ast, kinds, pc + 1) = Open(ast, kinds, pc)
  <2> SUFFICES ASSUME NEW kinds \in {Tabled, Settling}
               PROVE  /\ Open(ast, kinds, pc + 1) = Open(ast, kinds, o)
                      /\ ast[o].op \notin kinds => Open(ast, kinds, pc + 1) = Open(ast, kinds, pc)
    OBVIOUS
  <2>1. kinds \in SUBSET Openers
    BY KindsOfNodes
  <2>2. Open(ast, kinds, pc + 1) = Open(ast, kinds, o)
    BY <1>1, <1>3, <2>1, OpenBehind
  <2>3. ASSUME ast[o].op \notin kinds PROVE Open(ast, kinds, pc + 1) = Open(ast, kinds, pc)
    <3>1. ast[pc].op \notin kinds
      BY DEF Tabled, Settling
    <3>2. \A k \in kinds : <<k, ast[pc].op>> \notin Brackets
      BY <1>3, <2>3 DEF Brackets
    <3> QED
      BY <1>1, <2>1, <3>1, <3>2, OpenAfterOther
  <2> QED
    BY <2>2, <2>3
<1>9. InnermostHas(ast, Tabled, pc + 1, GlobalSymIndex, locals, current')
  <2>1. CASE current' = Head(frames).current
    BY <1>5, <1>7, <1>8, <2>1, AroundKept DEF Placed
  <2>2. CASE current' = current /\ ast[pc].op \in {"endfn", "endtype"}
    <3>1. ast[o].op \notin Tabled
      BY <1>3, <2>2 DEF Brackets, Tabled
    <3> QED
      BY <1>2, <1>8, <2>2, <3>1, AroundKept DEF Placed
  <2> QED
    BY <2>1, <2>2
<1>10. InnermostHas(ast, Settling, pc + 1, "GLOBAL", ContextIn(ast), context')
  <2>1. CASE context' = Head(frames).context
    BY <1>5, <1>7, <1>8, <2>1, AroundKept DEF Placed
  <2>2. CASE context' = context /\ ast[pc].op = "end"
    <3>1. ast[o].op \notin Settling
      BY <1>3, <2>2 DEF Brackets, Settling
    <3> QED
      BY <1>2, <1>8, <2>2, <3>1, AroundKept DEF Placed
  <2> QED
    BY <2>1, <2>2
<1>11. \A k \in DOMAIN frames' :
         Placed(ast, locals, frames'[k].node, frames'[k].current, frames'[k].context)
  BY <1>2, <1>6
<1> QED
  BY <1>1, <1>6, <1>9, <1>10, <1>11 DEF FramesPlaced, Placed

(* The other methods leave them alone. *)
LEMMA PassPlaced ==
  ASSUME PlaceInv, Continue, pass \in {"decl", "ref"}, pc \in DOMAIN ast,
         ast[pc].op \notin Saving \cup {"endfn", "end", "endin", "endtype"},
         UNCHANGED <<current, context, frames, locals>>
  PROVE  FramesPlaced'
<1>1. /\ Walkable(ast) /\ ast' = ast /\ pc' = pc + 1 /\ pass' = pass
  BY PlaceFacts DEF Continue
<1>2. \A kinds \in {Saving, Tabled, Settling} : Open(ast, kinds, pc) = Open(ast, kinds, pc + 1)
  <2> SUFFICES ASSUME NEW kinds \in {Saving, Tabled, Settling}
               PROVE  Open(ast, kinds, pc) = Open(ast, kinds, pc + 1)
    OBVIOUS
  <2>1. kinds \in SUBSET Openers /\ kinds \in SUBSET Saving
    BY KindsOfNodes
  <2>2. \A k \in kinds : <<k, ast[pc].op>> \notin Brackets
    BY <2>1 DEF Brackets, Saving
  <2> QED
    BY <1>1, <2>1, <2>2, OpenAfterOther
<1>3. StackOf(frames, ast, Saving, pc + 1)
  BY <1>1, <1>2, StackKept DEF PlaceInv, FramesPlaced
<1>4. Placed(ast, locals, pc + 1, current, context)
  BY <1>1, <1>2, AroundKept DEF PlaceInv, FramesPlaced, Placed
<1> QED
  BY <1>1, <1>3, <1>4 DEF PlaceInv, FramesPlaced

-----------------------------------------------------------------------------
(* Scopes and contexts.                                                    *)

(* The two ways to say what the innermost node gives. *)
LEMMA InnermostGives ==
  ASSUME NEW p, Walkable(p), NEW kinds \in SUBSET Openers, NEW i \in 1 .. Len(p) + 1,
         NEW none, NEW v, NEW x, InnermostHas(p, kinds, i, none, v, x)
  PROVE  \/ Innermost(p, i, kinds) = 0 /\ x = none
         \/ /\ Innermost(p, i, kinds) \in Open(p, kinds, i) /\ Innermost(p, i, kinds) # 0
            /\ x = v[Innermost(p, i, kinds)]
<1>1. CASE Open(p, kinds, i) = {}
  BY <1>1 DEF InnermostHas, Innermost
<1>2. CASE Open(p, kinds, i) # {}
  <2>1. PICK o \in Open(p, kinds, i) : (\A q \in Open(p, kinds, i) : q <= o) /\ x = v[o]
    BY <1>2 DEF InnermostHas
  <2>2. \A q \in Open(p, kinds, i) : q \in Nat /\ q >= 1
    BY OpenIsOpener
  <2>3. \A q \in Open(p, kinds, i) : (\A r \in Open(p, kinds, i) : r <= q) => q = o
    BY <2>1, <2>2
  <2>4. Innermost(p, i, kinds) = CHOOSE q \in Open(p, kinds, i) : \A r \in Open(p, kinds, i) : r <= q
    BY <1>2 DEF Innermost
  <2>5. Innermost(p, i, kinds) = o
    BY <2>1, <2>3, <2>4
  <2> QED
    BY <2>1, <2>2, <2>5
<1> QED
  BY <1>1, <1>2

LEMMA ContextOfBlock ==
  ASSUME NEW p, Walkable(p), NEW s \in DOMAIN p, p[s].op = "block",
         NEW c, InnermostHas(p, Settling, s, "GLOBAL", ContextIn(p), c)
  PROVE  ContextOf(p, s) = c
<1> DEFINE o == Innermost(p, s, Settling)
<1>1. s \in 1 .. Len(p) + 1 /\ s # 0 /\ Settling \in SUBSET Openers
  BY KindsOfNodes DEF Walkable
<1>2. ContextOf(p, s) = IF o = 0 THEN "GLOBAL" ELSE IF p[o].op = "type" THEN "TYPE" ELSE "SCOPE"
  BY <1>1 DEF ContextOf, Settling, GlobalScope
<1>3. \/ o = 0 /\ c = "GLOBAL"
      \/ o \in Open(p, Settling, s) /\ o # 0 /\ c = ContextIn(p)[o]
  BY <1>1, InnermostGives
<1>4. o \in Open(p, Settling, s) => o \in DOMAIN p
  BY <1>1, OpenIsOpener
<1> HIDE DEF o
<1> QED
  BY <1>2, <1>3, <1>4 DEF ContextIn

LEMMA ContextOfIn ==
  ASSUME NEW p \in Seq(Event), NEW s \in DOMAIN p, p[s].op = "in"
  PROVE  ContextOf(p, s) = "SCOPE"
<1>1. s # GlobalScope
  BY DEF GlobalScope
<1> QED
  BY <1>1 DEF ContextOf

LEMMA NewContext ==
  ASSUME NEW n, NEW p, NEW c
  PROVE  SetParent(NewTable(n, c), p).scope_context = c
  BY DEF SetParent, NewTable, InsertIndex

(* A table for a scope has its context; the others keep theirs. *)
LEMMA AllocatedPlaced ==
  ASSUME PlaceInv, NEW s \in DOMAIN ast, NEW c, c = ContextOf(ast, s), ast' = ast,
         locals' = [locals EXCEPT ![s] = Len(arena) + 1], arena' = Allocated(c)
  PROVE  TablesPlaced'
<1>1. arena \in Seq(Table) /\ locals \in [DOMAIN ast -> {None} \cup DOMAIN arena]
  BY PlaceFacts
<1>2. /\ \A t \in DOMAIN arena : arena'[t] = arena[t]
      /\ arena'[Len(arena) + 1].scope_context = c
  <2> DEFINE new == SetParent(NewTable(Len(arena) + 1, c), current)
  <2>1. new.scope_context = c /\ arena' = Append(arena, new)
    BY NewContext DEF Allocated
  <2> HIDE DEF new
  <2> QED
    BY <1>1, <2>1
<1>3. GlobalSymIndex \in DOMAIN arena
  BY <1>1 DEF PlaceInv, IInv, ParentsPrecede, GlobalSymIndex
<1> QED
  BY <1>1, <1>2, <1>3 DEF PlaceInv, TablesPlaced

LEMMA KeptPlaced ==
  ASSUME PlaceInv, ast' = ast, locals' = locals, arena' # arena => Kept
  PROVE  TablesPlaced'
<1>1. arena \in Seq(Table) /\ locals \in [DOMAIN ast -> {None} \cup DOMAIN arena]
  BY PlaceFacts
<1>2. GlobalSymIndex \in DOMAIN arena
  BY <1>1 DEF PlaceInv, IInv, ParentsPrecede, GlobalSymIndex
<1>3. \A t \in DOMAIN arena : arena'[t].scope_context = arena[t].scope_context
  BY DEF Kept
<1> QED
  BY <1>1, <1>2, <1>3 DEF PlaceInv, TablesPlaced

-----------------------------------------------------------------------------
(* The invariant is inductive.                                             *)

LEMMA DeclPlaces ==
  ASSUME PlaceInv, DeclFunction \/ DeclBlock \/ DeclInAssign
  PROVE  FramesPlaced' /\ TablesPlaced'
<1>1. /\ Walkable(ast) /\ DOMAIN ast = 1 .. Len(ast) /\ Len(ast) \in Nat /\ arena \in Seq(Table)
      /\ locals \in [DOMAIN ast -> {None} \cup DOMAIN arena] /\ WellLinked(ast) /\ ast \in Seq(Event)
  BY PlaceFacts DEF PlaceInv, IInv, TypeOK
<1>2. pass = "decl" /\ pc \in DOMAIN ast /\ Enter /\ Continue /\ ast' = ast
  BY DEF DeclFunction, DeclBlock, DeclInAssign, At, Continue
<1>3. Placed(ast, locals, pc, current, context)
  BY <1>2 DEF PlaceInv, FramesPlaced
<1>4. CASE DeclFunction
  <2>1. /\ ast[pc].op = "fn" /\ current' = current /\ context' = "SCOPE"
        /\ locals' = [locals EXCEPT ![pc + ast[pc].link] = Len(arena) + 1]
        /\ arena' = Allocated("SCOPE")
    BY <1>4 DEF DeclFunction, At
  <2> DEFINE body == pc + ast[pc].link
  <2>2. /\ body \in DOMAIN ast /\ ast[pc].link > 0 /\ ast[body].op = "block"
        /\ body \in pc + 1 .. Len(ast) + 1 /\ \A a \in pc + 1 .. body - 1 : ast[a].op = "arg"
    <3>1. /\ pc + ast[pc].link \in DOMAIN ast /\ ast[pc].link > 0 /\ ast[pc + ast[pc].link].op = "block"
          /\ \A a \in pc + 1 .. pc + ast[pc].link - 1 : ast[a].op = "arg"
      BY <1>1, <1>2, <2>1 DEF WellLinked
    <3>2. ast[pc].link \in Int /\ pc \in Int
      <4>1. ast[pc] \in Event
        BY <1>1, <1>2
      <4>2. ast[pc].link \in Int
        BY <4>1 DEF Event
      <4> QED
        BY <1>1, <1>2, <4>2
    <3>3. pc + 1 .. body - 1 = pc + 1 .. pc + ast[pc].link - 1
      BY <3>2
    <3>4. body \in pc + 1 .. Len(ast) + 1
      BY <1>1, <1>2, <3>1, <3>2
    <3> QED
      BY <3>1, <3>3, <3>4
  <2> HIDE DEF body
  <2>3. ContextIn(ast)[pc] = "SCOPE" /\ ast[pc].op \in Settling /\ ast[pc].op \notin Tabled
        /\ ast[pc].op \in Saving
    BY <1>2, <2>1 DEF ContextIn, Settling, Tabled, Saving
  <2>4. \A o \in 1 .. pc - 1 : locals[o] = locals'[o]
    BY <1>1, <1>2, <2>1, <2>2 DEF body
  <2>5. FramesPlaced'
    BY <1>2, <2>1, <2>3, <2>4, EnterPlaced
  <2>6. InnermostHas(ast, Settling, body, "GLOBAL", ContextIn(ast), "SCOPE")
    <3>1. InnermostHas(ast, Settling, pc + 1, "GLOBAL", ContextIn(ast), "SCOPE")
      BY <1>1, <1>2, <2>3, KindsOfNodes, AroundOpened
    <3>2. Open(ast, Settling, body) = Open(ast, Settling, pc + 1)
      <4>1. \A a \in pc + 1 .. body - 1 : ast[a].op \notin Openers \cup Closers
        BY <2>2 DEF Openers, Closers
      <4> QED
        BY <1>1, <1>2, <2>2, <4>1, KindsOfNodes, OpenAfterLeaves
    <3> QED
      BY <3>1, <3>2, AroundKept
  <2>7. ContextOf(ast, body) = "SCOPE"
    BY <1>1, <2>2, <2>6, ContextOfBlock
  <2>8. TablesPlaced'
    BY <1>2, <2>1, <2>2, <2>7, AllocatedPlaced DEF body
  <2> QED
    BY <2>5, <2>8
<1>5. CASE DeclBlock
  <2>1. ast[pc].op = "block" /\ context' = context
    BY <1>5 DEF DeclBlock, At
  <2>2. ast[pc].op \notin Settling /\ ast[pc].op \in Tabled /\ ast[pc].op \in Saving
    BY <2>1 DEF Settling, Tabled, Saving
  <2>3. ContextOf(ast, pc) = context
    BY <1>1, <1>2, <1>3, <2>1, ContextOfBlock DEF Placed
  <2>4. CASE locals[pc] = None
    <3>1. /\ locals' = [locals EXCEPT ![pc] = Len(arena) + 1]
          /\ current' = Len(arena) + 1 /\ arena' = Allocated(context)
      BY <1>5, <2>4 DEF DeclBlock
    <3>2. locals'[pc] = Len(arena) + 1 /\ \A o \in 1 .. pc - 1 : locals[o] = locals'[o]
      BY <1>1, <1>2, <3>1
    <3>3. FramesPlaced'
      BY <1>2, <2>1, <2>2, <3>1, <3>2, EnterPlaced
    <3>4. TablesPlaced'
      BY <1>2, <2>3, <3>1, AllocatedPlaced
    <3> QED
      BY <3>3, <3>4
  <2>5. CASE locals[pc] # None
    <3>1. locals' = locals /\ current' = locals[pc] /\ arena' = arena
      BY <1>5, <2>5 DEF DeclBlock
    <3>2. FramesPlaced'
      BY <1>2, <2>1, <2>2, <3>1, EnterPlaced
    <3>3. TablesPlaced'
      BY <1>2, <3>1, KeptPlaced
    <3> QED
      BY <3>2, <3>3
  <2> QED
    BY <2>4, <2>5
<1>6. CASE DeclInAssign
  <2>1. /\ ast[pc].op = "in" /\ context' = "SCOPE" /\ current' = Len(arena) + 1
        /\ locals' = [locals EXCEPT ![pc] = Len(arena) + 1] /\ arena' = Allocated("SCOPE")
    BY <1>6 DEF DeclInAssign, At
  <2>2. ast[pc].op \in Settling /\ ast[pc].op \in Tabled /\ ast[pc].op \in Saving
        /\ ContextIn(ast)[pc] = "SCOPE"
    BY <1>2, <2>1 DEF Settling, Tabled, Saving, ContextIn
  <2>3. locals'[pc] = Len(arena) + 1 /\ \A o \in 1 .. pc - 1 : locals[o] = locals'[o]
    BY <1>1, <1>2, <2>1
  <2>4. FramesPlaced'
    BY <1>2, <2>1, <2>2, <2>3, EnterPlaced
  <2>5. TablesPlaced'
    BY <1>1, <1>2, <2>1, ContextOfIn, AllocatedPlaced
  <2> QED
    BY <2>4, <2>5
<1> QED
  BY <1>4, <1>5, <1>6

LEMMA EntersPlaced ==
  ASSUME PlaceInv, DeclTypeAssign \/ RefBlock \/ RefFunction \/ RefInAssign \/ RefTypeAssign
  PROVE  FramesPlaced'
<1>1. /\ pass \in {"decl", "ref"} /\ pc \in DOMAIN ast /\ Enter /\ Continue /\ locals' = locals
      /\ ast[pc].op \in Saving
  BY DEF DeclTypeAssign, RefBlock, RefFunction, RefInAssign, RefTypeAssign, At, Saving
<1>2. /\ current' = IF ast[pc].op \in Tabled THEN locals'[pc] ELSE current
      /\ context' = IF ast[pc].op \in Settling THEN ContextIn(ast)[pc] ELSE context
  BY <1>1 DEF DeclTypeAssign, RefBlock, RefFunction, RefInAssign, RefTypeAssign, At, Tabled, Settling,
     ContextIn
<1> QED
  BY <1>1, <1>2, EnterPlaced

LEMMA LeavesPlaced ==
  ASSUME PlaceInv, \/ DeclEndFunction \/ DeclEndBlock \/ DeclEndInAssign \/ DeclEndTypeAssign
                   \/ RefEndFunction \/ RefEndBlock \/ RefEndInAssign \/ RefEndTypeAssign
  PROVE  FramesPlaced'
<1>1. /\ pass \in {"decl", "ref"} /\ pc \in DOMAIN ast /\ Leave /\ Continue /\ locals' = locals
      /\ ast[pc].op \in {"endfn", "end", "endin", "endtype"}
      /\ \/ current' = Head(frames).current
         \/ current' = current /\ ast[pc].op \in {"endfn", "endtype"}
      /\ \/ context' = Head(frames).context
         \/ context' = context /\ ast[pc].op = "end"
  BY DEF DeclEndFunction, DeclEndBlock, DeclEndInAssign, DeclEndTypeAssign,
     RefEndFunction, RefEndBlock, RefEndInAssign, RefEndTypeAssign, At
<1> QED
  BY <1>1, LeavePlaced

LEMMA OthersPlaced ==
  ASSUME PlaceInv, DeclArgument \/ DeclAssignName \/ DeclOther \/ RefVariable \/ RefAssign \/ RefOther
  PROVE  FramesPlaced'
<1>1. /\ pass \in {"decl", "ref"} /\ pc \in DOMAIN ast /\ Continue
      /\ UNCHANGED <<current, context, frames, locals>>
      /\ ast[pc].op \notin Saving \cup {"endfn", "end", "endin", "endtype"}
  BY DEF DeclArgument, DeclAssignName, DeclOther, RefVariable, RefAssign, RefOther, At, Saving
<1> QED
  BY <1>1, PassPlaced

(* Where a pass ends, its members are as they were when it began. *)
LEMMA PassEnds ==
  ASSUME PlaceInv, pass \in {"decl", "ref"}, pc = Len(ast) + 1
  PROVE  frames = <<>> /\ current = GlobalSymIndex /\ context = "GLOBAL"
<1>1. Walkable(ast) /\ frames \in Seq(Frame)
  BY PlaceFacts
<1>2. StackOf(frames, ast, Saving, Len(ast) + 1) /\ Placed(ast, locals, Len(ast) + 1, current, context)
  BY DEF PlaceInv, FramesPlaced
<1> QED
  BY <1>1, <1>2, KindsOfNodes, StackEmptied, AroundNothing DEF Placed

(* A pass begins in the global table. *)
LEMMA PassBegins ==
  ASSUME NEW p, Walkable(p), NEW l
  PROVE  StackOf(<<>>, p, Saving, 1) /\ Placed(p, l, 1, GlobalSymIndex, "GLOBAL")
  BY KindsOfNodes, EmptyStack, AroundNothing DEF Placed

(* A step that puts no table into an annotation. *)
LEMMA TablesStay ==
  ASSUME PlaceInv, [Next]_vars, ast' = ast, locals' = locals
  PROVE  TablesPlaced'
<1>1. arena' # arena => Kept
  BY StepKeeps DEF PlaceInv
<1> QED
  BY <1>1, KeptPlaced

LEMMA PlaceStep ==
  ASSUME PlaceInv, Next
  PROVE  WellNested(ast)' /\ FramesPlaced' /\ TablesPlaced' /\ Rested'
<1>1. Walkable(ast) /\ WellNested(ast)
  BY PlaceFacts DEF PlaceInv
<1>2. CASE \/ DeclFunction \/ DeclBlock \/ DeclInAssign
           \/ DeclTypeAssign \/ RefBlock \/ RefFunction \/ RefInAssign \/ RefTypeAssign
           \/ DeclEndFunction \/ DeclEndBlock \/ DeclEndInAssign \/ DeclEndTypeAssign
           \/ RefEndFunction \/ RefEndBlock \/ RefEndInAssign \/ RefEndTypeAssign
           \/ DeclArgument \/ DeclAssignName \/ DeclOther \/ RefVariable \/ RefAssign \/ RefOther
  <2>1. pass \in {"decl", "ref"} /\ pass' = pass /\ ast' = ast
    BY <1>2 DEF DeclFunction, DeclBlock, DeclInAssign, DeclTypeAssign, RefBlock, RefFunction,
       RefInAssign, RefTypeAssign, DeclEndFunction, DeclEndBlock, DeclEndInAssign, DeclEndTypeAssign,
       RefEndFunction, RefEndBlock, RefEndInAssign, RefEndTypeAssign, DeclArgument, DeclAssignName,
       DeclOther, RefVariable, RefAssign, RefOther, At, Continue
  <2>2. WellNested(ast)' /\ Rested'
    BY <1>1, <2>1 DEF Rested
  <2>3. CASE DeclFunction \/ DeclBlock \/ DeclInAssign
    BY <2>2, <2>3, DeclPlaces
  <2>4. CASE ~ (DeclFunction \/ DeclBlock \/ DeclInAssign)
    <3>1. locals' = locals
      BY <1>2, <2>4 DEF DeclTypeAssign, RefBlock, RefFunction,
         RefInAssign, RefTypeAssign, DeclEndFunction, DeclEndBlock, DeclEndInAssign, DeclEndTypeAssign,
         RefEndFunction, RefEndBlock, RefEndInAssign, RefEndTypeAssign, DeclArgument, DeclAssignName,
         DeclOther, RefVariable, RefAssign, RefOther
    <3>2. TablesPlaced'
      BY <2>1, <3>1, TablesStay
    <3>3. FramesPlaced'
      BY <1>2, <2>4, EntersPlaced, LeavesPlaced, OthersPlaced
    <3> QED
      BY <2>2, <3>2, <3>3
  <2> QED
    BY <2>3, <2>4
<1>3. CASE DeclDone
  <2>1. /\ pass' = "ref" /\ pc' = 1 /\ ast' = ast /\ locals' = locals
        /\ current' = GlobalSymIndex /\ context' = "GLOBAL" /\ frames' = <<>>
    BY <1>3 DEF DeclDone
  <2>2. FramesPlaced'
    BY <1>1, <2>1, PassBegins DEF FramesPlaced
  <2>3. TablesPlaced'
    BY <2>1, TablesStay
  <2> QED
    BY <1>1, <2>1, <2>2, <2>3 DEF Rested
<1>4. CASE RefDone
  <2>1. /\ pass \in {"decl", "ref"} /\ pc = Len(ast) + 1 /\ pass' = "done"
        /\ UNCHANGED <<ast, pc, current, context, frames, locals>>
    BY <1>4 DEF RefDone
  <2>2. frames = <<>> /\ current = GlobalSymIndex /\ context = "GLOBAL"
    BY <2>1, PassEnds
  <2>3. TablesPlaced'
    BY <2>1, TablesStay
  <2> QED
    BY <1>1, <2>1, <2>2, <2>3 DEF Rested, FramesPlaced, PassesRestore
<1>5. CASE RefAssignNoVariable
  <2>1. pc \in DOMAIN ast /\ pass' = "crashed" /\ UNCHANGED <<ast, pc, locals>>
    BY <1>5 DEF RefAssignNoVariable, At
  <2>2. TablesPlaced'
    BY <2>1, TablesStay
  <2> QED
    BY <1>1, <2>1, <2>2 DEF Rested, FramesPlaced
<1>6. CASE NextInput
  <2>1. /\ ast' \in Programs /\ pass' = "decl" /\ pc' = 1 /\ arena' = arena
        /\ current' = GlobalSymIndex /\ context' = "GLOBAL" /\ frames' = <<>>
        /\ locals' = [i \in DOMAIN ast' |-> None]
    BY <1>6 DEF NextInput
  <2>2. Walkable(ast')
    BY <2>1, ProgramsAssumption DEF Walkable
  <2>3. FramesPlaced'
    BY <2>1, <2>2, PassBegins DEF FramesPlaced
  <2>4. TablesPlaced'
    BY <2>1 DEF PlaceInv, TablesPlaced
  <2> QED
    BY <2>1, <2>2, <2>3, <2>4 DEF Walkable, Rested
<1>7. CASE Ended
  BY <1>7 DEF Ended, vars, PlaceInv, FramesPlaced, TablesPlaced, Rested, PassesRestore
<1> QED
  BY <1>2, <1>3, <1>4, <1>5, <1>6, <1>7 DEF Next, DeclPass, RefPass

LEMMA PlaceStutter ==
  ASSUME PlaceInv, UNCHANGED vars
  PROVE  WellNested(ast)' /\ FramesPlaced' /\ TablesPlaced' /\ Rested'
  BY DEF vars, PlaceInv, FramesPlaced, TablesPlaced, Rested, PassesRestore

LEMMA PlaceInit == Init => PlaceInv
<1> SUFFICES ASSUME Init PROVE PlaceInv
  OBVIOUS
<1>1. IInv
  BY InitEstablishes
<1>2. /\ ast \in Programs /\ pass = "decl" /\ pc = 1
      /\ arena = <<NewTable(GlobalSymIndex, "GLOBAL")>>
      /\ current = GlobalSymIndex /\ context = "GLOBAL" /\ frames = <<>>
      /\ locals = [i \in DOMAIN ast |-> None]
  BY DEF Init
<1>3. Walkable(ast)
  BY <1>2, ProgramsAssumption DEF Walkable
<1>4. FramesPlaced
  BY <1>2, <1>3, PassBegins DEF FramesPlaced
<1>5. TablesPlaced
  <2>1. arena[GlobalSymIndex].scope_context = "GLOBAL"
    BY <1>2 DEF GlobalSymIndex, NewTable, InsertIndex
  <2> QED
    BY <1>2, <2>1 DEF TablesPlaced
<1> QED
  BY <1>1, <1>2, <1>3, <1>4, <1>5 DEF PlaceInv, Walkable, Rested

(* The table a pass is in is that of the scope its event stands in. *)
LEMMA PlacedInScope ==
  ASSUME PlaceInv
  PROVE  InScope
<1> SUFFICES ASSUME pass \in {"decl", "ref"}, pc \in DOMAIN ast
             PROVE  LET s == ScopeOf(ast, pc)
                        t == IF s = GlobalScope THEN GlobalSymIndex ELSE locals[s]
                    IN  current = t /\ arena[t].scope_context = ContextOf(ast, s)
  BY DEF InScope
<1> DEFINE s == Innermost(ast, pc, Tabled)
<1>1. /\ Walkable(ast) /\ DOMAIN ast = 1 .. Len(ast) /\ Len(ast) \in Nat /\ pc \in 1 .. Len(ast) + 1
      /\ InnermostHas(ast, Tabled, pc, GlobalSymIndex, locals, current)
  BY PlaceFacts DEF PlaceInv, FramesPlaced, Placed
<1>2. \/ s = 0 /\ current = GlobalSymIndex
      \/ s \in Open(ast, Tabled, pc) /\ s # 0 /\ current = locals[s]
  BY <1>1, KindsOfNodes, InnermostGives
<1>3. ScopeOf(ast, pc) = s
  BY DEF ScopeOf, Tabled
<1> HIDE DEF s
<1>4. CASE s = 0
  <2>1. current = GlobalSymIndex
    BY <1>1, <1>2, <1>4, KindsOfNodes, OpenIsOpener
  <2>2. ContextOf(ast, s) = "GLOBAL"
    BY <1>4 DEF ContextOf, GlobalScope
  <2> QED
    BY <1>3, <1>4, <2>1, <2>2 DEF GlobalScope, PlaceInv, TablesPlaced
<1>5. CASE s # 0
  <2>1. s \in Open(ast, Tabled, pc) /\ current = locals[s]
    BY <1>2, <1>5
  <2>2. s \in DOMAIN ast /\ ast[s].op \in Tabled /\ s \in 1 .. pc - 1
    BY <1>1, <2>1 DEF Open
  <2>3. locals[s] # None
    BY <2>2 DEF PlaceInv, IInv, ScopesAnnotated, Tabled
  <2> QED
    BY <1>3, <1>5, <2>1, <2>2, <2>3 DEF GlobalScope, PlaceInv, TablesPlaced
<1> QED
  BY <1>4, <1>5

-----------------------------------------------------------------------------
(* The theorems.                                                           *)

(* The members of the passes are those of the nodes around the event they  *)
(* visit, and what every active method saved is what belongs to its node,  *)
(* for every set of programs (VarDeclPass.cpp, VarRefPass.cpp).            *)
THEOREM PassesArePlaced == Spec => []PlaceInv
<1>1. Init => PlaceInv
  BY PlaceInit
<1>2. PlaceInv /\ [Next]_vars => PlaceInv'
  <2> SUFFICES ASSUME PlaceInv, [Next]_vars PROVE PlaceInv'
    OBVIOUS
  <2>1. IInv'
    BY StepInductive DEF PlaceInv
  <2>2. WellNested(ast)' /\ FramesPlaced' /\ TablesPlaced' /\ Rested'
    BY PlaceStep, PlaceStutter
  <2> QED
    BY <2>1, <2>2 DEF PlaceInv
<1> QED
  BY <1>1, <1>2, PTL DEF Spec

(* PassesRestore holds: table, context and stack are at the end of a pass  *)
(* what they were at its start, although seven methods save and restore    *)
(* them by hand (VarDeclPass.cpp:125).                                     *)
THEOREM PassesDoRestore == Spec => []PassesRestore
<1>1. PlaceInv => PassesRestore
  <2> SUFFICES ASSUME PlaceInv, pc = Len(ast) + 1
               PROVE  frames = <<>> /\ current = GlobalSymIndex /\ context = "GLOBAL"
    BY DEF PassesRestore
  <2>1. pass \in {"decl", "ref", "done", "crashed"}
    BY DEF PlaceInv, IInv, TypeOK
  <2>2. pass # "crashed"
    <3>1. pc \notin DOMAIN ast
      BY PlaceFacts
    <3> QED
      BY <3>1 DEF PlaceInv, Rested
  <2>3. CASE pass = "done"
    BY <2>3 DEF PlaceInv, Rested, PassesRestore
  <2>4. CASE pass \in {"decl", "ref"}
    BY <2>4, PassEnds
  <2> QED
    BY <2>1, <2>2, <2>3, <2>4
<1> QED
  BY <1>1, PassesArePlaced, PTL

(* InScope holds: the table a pass is in is that of the scope its event    *)
(* stands in, with the context of the nodes around that scope, whether the *)
(* block made it or its function did (VarDeclPass.cpp:18, VarRefPass.cpp:13). *)
THEOREM PassesAreInScope == Spec => []InScope
<1>1. PlaceInv => InScope
  BY PlacedInScope
<1> QED
  BY <1>1, PassesArePlaced, PTL
=============================================================================
