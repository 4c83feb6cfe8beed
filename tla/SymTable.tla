------------------------------ MODULE SymTable ------------------------------
(***************************************************************************)
(* The symbol tables of the analysis phase: incl/analysis/SymTable.h,      *)
(* src/SymTable.cpp and the path lookup of src/ast.cpp, as operators on    *)
(* values.  A table is a record, the arena is a sequence of tables, and a  *)
(* SymIndex is a position in it: the code counts from 0, the model from 1, *)
(* so that GLOBAL_SYM_INDEX is 1 here and 0 can stand for std::nullopt.    *)
(*                                                                         *)
(* A GenericResolver holds one instance (the null generic), because every  *)
(* caller passes nullptr; `Redirect` is a kind of binding that no code     *)
(* creates.  Of a SymbolInfo the analysis reads the location and the       *)
(* mutability; the code generator's `storage` is modelled beside it.       *)
(***************************************************************************)
EXTENDS Naturals, Sequences

CONSTANT Name   \* the identifiers of the programs, self and super included

ASSUME NameAssumption == {"self", "super"} \subseteq Name /\ "" \notin Name

None == 0               \* std::nullopt for a SymIndex
GlobalSymIndex == 1     \* GLOBAL_SYM_INDEX

ScopingContext == {"GLOBAL", "SCOPE", "TYPE"}

Location == [line_num : Nat, byte : Nat]

SymbolInfo == [src : Location, is_mut : BOOLEAN]

(* One binding per name: unbound, a SymIndex, or an SsaVector, which comes
   with its first entry. *)
Binding == {b \in [kind : {"none", "index", "ssa"}, index : Nat, decls : Seq(SymbolInfo)] :
              b.kind = "ssa" <=> b.decls # <<>>}

Table == [self_index : Nat, parent : Nat, symbols : [Name -> Binding],
          argument_set : SUBSET Name, scope_context : ScopingContext]

-----------------------------------------------------------------------------
(* GenericResolver::set and SymTable::insert.                              *)

Unbound == [kind |-> "none", index |-> None, decls |-> <<>>]
IndexTo(t) == [kind |-> "index", index |-> t, decls |-> <<>>]

Exists(table, key) == table.symbols[key].kind # "none"

(* Seeded: set without the comparison of characters. *)
CanBindAnything(table, key, kind) == TRUE

(* set fails only on a binding of another character. *)
CanBind(table, key, kind) == table.symbols[key].kind \in {"none", kind}

(* A SymIndex replaces the SymIndex that was bound. *)
InsertIndex(table, key, t) ==
  IF CanBind(table, key, "index")
  THEN [table EXCEPT !.symbols[key] = IndexTo(t)]
  ELSE table

(* Seeded: an assignment in place of push_back. *)
InsertReplacing(table, key, info) ==
  IF CanBind(table, key, "ssa")
  THEN [table EXCEPT !.symbols[key] = [kind |-> "ssa", index |-> None, decls |-> <<info>>]]
  ELSE table

(* A SymbolInfo joins the vector of the declarations before it. *)
Insert(table, key, info) ==
  IF CanBind(table, key, "ssa")
  THEN [table EXCEPT !.symbols[key] =
          [kind |-> "ssa", index |-> None, decls |-> Append(@.decls, info)]]
  ELSE table

InsertArg(table, key, info) ==
  IF Exists(table, key)
  THEN table
  ELSE Insert([table EXCEPT !.argument_set = @ \cup {key}], key, info)

(* The constructor binds self; setParent binds super. *)
NewTable(self, context) ==
  InsertIndex([self_index |-> self, parent |-> None,
               symbols |-> [n \in Name |-> Unbound],
               argument_set |-> {}, scope_context |-> context],
              "self", self)

SetParent(table, p) == [InsertIndex(table, "super", p) EXCEPT !.parent = p]

-----------------------------------------------------------------------------
(* SymTable::get with a location.                                          *)

(* The order of the comparison that get hands to std::upper_bound. *)
Before(use_loc, dec_loc) ==
  IF use_loc.line_num = dec_loc.line_num
  THEN use_loc.byte < dec_loc.byte
  ELSE use_loc.line_num < dec_loc.line_num

(* std::upper_bound: the number of entries the halving search skips.  On a
   vector in source order that is the number of entries that are not after
   the location; on any other vector it is what the halving happens to
   find. *)
UpperBound(decls, loc) ==
  LET search[s \in Nat \X (0 .. Len(decls))] ==     \* first and len
        LET first == s[1]
            len   == s[2]
            half  == len \div 2
        IN  IF len = 0 THEN first
            ELSE IF Before(loc, decls[first + half + 1].src)
                 THEN search[<<first, half>>]
                 ELSE search[<<first + half + 1, len - half - 1>>]
  IN  search[<<0, Len(decls)>>]

NotFound == [kind |-> "none", at |-> None]

(* Seeded: the latest declaration, wherever the use stands. *)
GetLatest(table, key, loc) ==
  LET b == table.symbols[key] IN
  CASE b.kind = "index" -> [kind |-> "index", at |-> b.index]
    [] b.kind = "ssa"   -> [kind |-> "var", at |-> Len(b.decls)]
    [] OTHER            -> NotFound

(* The binding get returns: the entry before the first declaration that
   comes after the location, the first entry where forward use is allowed,
   or the SymIndex.  `at` is the position in the vector or the SymIndex. *)
Get(table, key, loc) ==
  LET b    == table.symbols[key]
      next == UpperBound(b.decls, loc)
  IN  CASE b.kind = "index"                -> [kind |-> "index", at |-> b.index]
        [] b.kind = "ssa" /\ next > 0      -> [kind |-> "var", at |-> next]
        [] /\ b.kind = "ssa" /\ next = 0
           /\ table.scope_context # "SCOPE" -> [kind |-> "var", at |-> 1]
        [] OTHER                           -> NotFound

-----------------------------------------------------------------------------
(* mostRecentDef and lookup.                                               *)

(* The nearest table from t up that binds the name, or None. *)
MostRecentDef(arena, t, key) ==
  LET climb[s \in 0 .. Len(arena)] ==
        IF s = None THEN None
        ELSE IF Exists(arena[s], key) THEN s
             ELSE climb[arena[s].parent]
  IN  climb[t]

(* The loop of lookup, from one part of the path and the table it is looked
   for in: the last table entered and the part it stopped at, which is past
   the end when every part named a table. *)
Follow(arena, path, from, start) ==
  LET follow[s \in (DOMAIN arena) \X (from .. Len(path) + 1)] ==     \* current and front
        LET t == s[1]
            i == s[2]
        IN  IF i <= Len(path) /\ arena[t].symbols[path[i]].kind = "index"
            THEN follow[<<arena[t].symbols[path[i]].index, i + 1>>]
            ELSE [table |-> t, part |-> i]
  IN  follow[<<start, from>>]

(* A path starts at the table that binds its first name, or, if that name is
   empty, at the global table. *)
Lookup(arena, current, path) ==
  LET def == MostRecentDef(arena, current, path[1]) IN
  CASE path[1] = ""                -> Follow(arena, path, 2, GlobalSymIndex)
    [] path[1] # "" /\ def = None  -> [table |-> current, part |-> 1]
    [] path[1] # "" /\ def # None  -> Follow(arena, path, 1, def)
=============================================================================
