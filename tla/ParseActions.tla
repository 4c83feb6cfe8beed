---------------------------- MODULE ParseActions ----------------------------
(***************************************************************************)
(* The actions of incl/parser/actions.h.  An action runs when its rule has *)
(* matched; it takes nodes from the top of the stack by their kind and     *)
(* pushes what it makes of them.  Effect is what the action of a rule does *)
(* to the stack s, given the lexemes the rule matched and their places:    *)
(* the stack it leaves, whether it logs an error, and its fault, if it     *)
(* follows a null pointer or asks a token for what it does not hold.       *)
(***************************************************************************)
EXTENDS Grammar, ParseNodes

Done(s) == [s |-> s, log |-> FALSE, fault |-> "none"]
Logged(s) == [s |-> s, log |-> TRUE, fault |-> "none"]
LoggedIf(test, s) == [s |-> s, log |-> test, fault |-> "none"]
NullFault(s) == [s |-> s, log |-> FALSE, fault |-> "null"]
VariantFault(s) == [s |-> s, log |-> FALSE, fault |-> "variant"]

Push(s, kind, parts) == Append(s, Node(kind, "none", {}, parts))
Bare(kind, places) ==
  Node(kind, "none", places, [i \in DOMAIN Kinds[kind] |-> <<>>])
PlacesOf(nodes) == UNION {node.places : node \in ToSet(nodes)}
Holds(values, tokens) == tokens # <<>> /\ Head(tokens).value \in values

KeywordType == {"AS", "MUT", "WAIT", "YIELD", "RET", "CONT", "BREAK", "FOR"}
VisibilityType == {"PROTECTED", "PUBLIC"}
PtrStyling == {"VIEW", "REF", "PTR"}
VarianceType == {"INVARIANT", "COVARIANT", "CONTRAVARIANT", "VARIADIC"}
RelationType == {"IMPLS", "NOT_IMPLS"}
CaptureType == {"NORM_CAP", "REF_CAP", "MUT_CAP", "MUTREF_CAP"}

-----------------------------------------------------------------------------
(* Actions that push one node and take nothing.                            *)

Pushes ==
  [obrace |-> "Symbol", obrack |-> "Symbol", oparen |-> "Symbol",
   ochar |-> "Symbol", oquote |-> "Symbol", char_body |-> "Char",
   str_body |-> "String", kfalse |-> "Bool", ktrue |-> "Bool",
   plambda |-> "Future", fwd_dot |-> "Future", pat_any |-> "Pattern",
   assign_drop |-> "AssignPattern", errorparen |-> "CloseSymbolError",
   errorbrack |-> "CloseSymbolError", errorbrace |-> "CloseSymbolError",
   errorchar |-> "CloseSymbolError", errorquote |-> "CloseSymbolError",
   errortype |-> "Error"]

Tokens ==
  [kas |-> "AS", kmut |-> "MUT", klet |-> "PROTECTED", kdef |-> "PUBLIC",
   kwait |-> "WAIT", kyield |-> "YIELD", kret |-> "RET", kcontinue |-> "CONT",
   kbreak |-> "BREAK", kfor |-> "FOR", typ_view |-> "VIEW", typ_ref |-> "REF",
   typ_ptr |-> "PTR", variadic |-> "VARIADIC", for_type |-> "FOR"]

Bindings ==
  [typ |-> <<"BasicBinding", "TYPE">>, var |-> <<"BasicBinding", "VARIABLE">>,
   op |-> <<"BasicBinding", "OPERATOR">>, unop |-> <<"BasicBinding", "OPERATOR">>,
   binop |-> <<"BasicBinding", "OPERATOR">>,
   ptyp |-> <<"PathPart", "TYPE">>, pvar |-> <<"PathPart", "VARIABLE">>]
    @@ [r \in ToSet(BinaryOp) |-> <<"BasicBinding", "OPERATOR">>]

BindingEffect(r, s, text, places) ==
  LET kind == Bindings[r][1]
  IN  LoggedIf(r \in {"var", "pvar"} /\ Head(text) \in Reserved,
        Append(s, [Bare(kind, places) EXCEPT !.value = Bindings[r][2]]))

LiteralEffect(r, s, text, places) ==
  CASE r \in {"bin_body", "hex_body"} ->
         IF text = <<>> THEN Logged(Append(s, Bare("ValError", {})))
                        ELSE Done(Append(s, Bare("Byte", places)))
    [] r = "decimal" ->
         Done(Append(s, Bare(IF "." \in ToSet(text) THEN "Float" ELSE "Int", places)))
    [] r = "variance" ->
         Done(Append(s, [Bare("Token", places) EXCEPT !.value =
           IF text = <<>> THEN "INVARIANT"
           ELSE IF Head(text) = "+" THEN "COVARIANT" ELSE "CONTRAVARIANT"]))
    [] r = "relation" ->
         Done(Append(s, [Bare("Token", places) EXCEPT !.value =
           IF Head(text) = ":" THEN "IMPLS" ELSE "NOT_IMPLS"]))

-----------------------------------------------------------------------------
(* Actions that close a bracket: the error of a missing close, the items   *)
(* and the symbol of the opening bracket, made into one node.              *)

Brackets ==
  [scope |-> <<"Statement", "Block">>, tuple |-> <<"ValExpr", "Tuple">>,
   _array |-> <<"ValExpr", "Array">>, pat_tuple |-> <<"Pattern", "TuplePattern">>,
   assign_tuple |-> <<"AssignPattern", "AssignTuple">>,
   tuple_type |-> <<"Type", "TupleType">>,
   _generic |-> <<"GenericPart", "GenericArray">>,
   arg_tuple |-> <<"Argument", "ArgTuple">>, mul_imp |-> <<"PathPart", "none">>]

(* Seeded: the error of a missing close is taken and not logged.          *)
BracketEffectQuiet(r, s) ==
  LET got == Take(s, <<One("CloseSymbolError"), All(Brackets[r][1]), One("Symbol")>>)
      path == Pop("Path", got.s)
  IN  Done(IF r = "mul_imp" THEN Push(path.s, "MultipleImport", <<path.taken, got.taken[2]>>)
                            ELSE Push(got.s, Brackets[r][2], <<got.taken[2]>>))

BracketEffect(r, s) ==
  LET got == Take(s, <<One("CloseSymbolError"), All(Brackets[r][1]), One("Symbol")>>)
      err == got.taken[1] # <<>>
      path == Pop("Path", got.s)
  IN  IF err /\ got.taken[3] = <<>> THEN NullFault(s)
      ELSE LoggedIf(err,
             IF r = "mul_imp" THEN Push(path.s, "MultipleImport", <<path.taken, got.taken[2]>>)
                              ELSE Push(got.s, Brackets[r][2], <<got.taken[2]>>))

(* The two quoted literals, and the braces around a type: the node is kept *)
(* and the symbol below it taken.                                          *)
Enclosed == {"_char", "string", "braced_type"}

(* Seeded: the symbol stays.                                              *)
EnclosedEffectKeeps(r, s) ==
  LET err == Pop("CloseSymbolError", s)
  IN  IF err.s = <<>> THEN NullFault(s) ELSE LoggedIf(err.taken # <<>>, err.s)

EnclosedEffect(r, s) ==
  LET err == Pop("CloseSymbolError", s)
      n == Len(err.s)
      swapped == [err.s EXCEPT ![n] = err.s[n - 1], ![n - 1] = err.s[n]]
      sym == Pop("Symbol", swapped)
  IN  IF n < 2 \/ (err.taken # <<>> /\ sym.taken = <<>>) THEN NullFault(s)
      ELSE LoggedIf(err.taken # <<>>, sym.s)

-----------------------------------------------------------------------------
(* Actions that log what is missing: what they pop, which of it they       *)
(* follow for its location, or how deep in the stack they look for one,    *)
(* and the nodes they push in its stead.                                   *)

Missed(pops, follows, looks, pushes) ==
  [pops |-> pops, follows |-> follows, looks |-> looks, pushes |-> pushes]

JustLogs == [r \in {"missing_pat_tup", "missing_type", "gen_parterror", "error_adt",
                    "missing_arg", "elseif_key", "leftovers"} |-> Missed(<<>>, 0, 0, <<>>)]
ErrorInPlace ==
  [r \in {"missing_texpr", "missing_aexpr", "error_genval", "missing_wtest",
          "missing_lbody", "missing_eitest", "missing_eibody", "missing_itest",
          "missing_ibody", "missing_ebody", "missing_cbody", "missing_module",
          "missing_import", "missing_stmt"} |-> Missed(<<>>, 0, 0, <<"ValError">>)]
ErrorAbove ==
  [r \in {"missing_lexpr", "missing_wbody", "missing_fncall", "missing_unexpr",
          "missing_invexpr", "missing_inexpr", "missing_val_assign"} |->
            Missed(<<>>, 0, 1, <<"ValError">>)]

Missing ==
  JustLogs @@ ErrorInPlace @@ ErrorAbove @@
  [missing_in |-> Missed(<<One("Pattern"), One("Token")>>, 2, 0, <<"ValError">>),
   missing_gen |-> Missed(<<>>, 0, 2, <<"ValError">>),
   missing_fbody |-> Missed(<<>>, 0, 3, <<"ValError">>),
   missing_pat |-> Missed(<<One("Token"), One("Token")>>, 2, 0, <<"ValError">>),
   missing_arrow |-> Missed(<<>>, 0, 1, <<>>),
   missing_cpat |-> Missed(<<One("Token")>>, 1, 0, <<>>),
   missing_mexpr |-> Missed(<<>>, 0, 0, <<"ValError", "Symbol">>),
   missing_brace |-> Missed(<<>>, 0, 1, <<"Symbol">>),
   missing_dotpat |-> Missed(<<One("Token"), One("Token"), One("ValExpr")>>, 3, 0,
                             <<"ValError">>),
   missing_asexpr |-> Missed(<<>>, 0, 1, <<"ValError", "ValError">>),
   missing_assignment |-> Missed(<<>>, 0, 1, <<"ValError", "ValError">>),
   missing_aspat |-> Missed(<<One("Token")>>, 1, 0, <<"ValError">>),
   missing_interface |-> Missed(<<One("GenericArray"), One("AssignPattern"),
                                  One("Token")>>, 3, 0, <<"ValError">>),
   standalone_visibility |-> Missed(<<One("Token")>>, 1, 0, <<"ValError">>),
   missing_valexpr |-> Missed(<<One("Token")>>, 1, 0, <<"ValError">>),
   missing_valexpr2 |-> Missed(<<One("Token")>>, 0, 0, <<"ValError">>),
   error_gentyp |-> Missed(<<>>, 0, 0, <<"TypeError">>),
   missing_impltype |-> Missed(<<>>, 0, 0, <<"TypeError">>),
   missing_fortype |-> Missed(<<>>, 0, 1, <<"TypeError">>),
   missing_impldef |-> Missed(<<>>, 0, 1, <<"ScopeError">>),
   missing_typedef |-> Missed(<<>>, 0, 1, <<"ScopeError">>),
   missing_type_assign |-> Missed(<<>>, 0, 1, <<"ScopeError">>)]

MissingEffect(r, s) ==
  LET m == Missing[r]
      got == Take(s, m.pops)
      seen == Len(s) + 1 - m.looks
  IN  IF \/ m.follows # 0 /\ got.taken[m.follows] = <<>>
         \/ m.looks # 0 /\ (seen < 1 \/ s[seen].kind = "nullptr")
      THEN NullFault(s)
      ELSE Logged(got.s \o [i \in DOMAIN m.pushes |-> Bare(m.pushes[i], {})])

-----------------------------------------------------------------------------
(* Actions that pop nodes and build one of them: the pops from the top     *)
(* down, the kind built, and which pop each of its members takes.          *)

Built(pops, kind, members) == [pops |-> pops, kind |-> kind, members |-> members]

Builds ==
  [pat_adt |-> Built(<<"TuplePattern", "Path">>, "AdtPattern", <<2, 1>>),
   pat_lit |-> Built(<<"ValExpr">>, "ValPattern", <<1>>),
   assign_name |-> Built(<<"BasicBinding">>, "AssignName", <<1>>),
   assign_typ |-> Built(<<"BasicBinding">>, "AssignName", <<1>>),
   annotation |-> Built(<<"Tuple", "BasicBinding">>, "LocalAnnotation", <<2, 1>>),
   ganot |-> Built(<<"Tuple", "BasicBinding">>, "Annotation", <<2, 1>>),
   elsif_case |-> Built(<<"ValExpr", "ValExpr">>, "IfBranch", <<2, 1>>),
   if_branch |-> Built(<<"ValExpr", "ValExpr">>, "IfBranch", <<2, 1>>),
   dotif |-> Built(<<"ValExpr", "ValExpr">>, "IfBranch", <<1, 2>>),
   _case |-> Built(<<"ValExpr", "ValExpr", "TuplePattern">>, "Case", <<3, 2, 1>>),
   call |-> Built(<<"Tuple", "ValExpr">>, "FnCall", <<2, 1>>),
   unopcall |-> Built(<<"ValExpr", "BasicBinding">>, "UnOpCall", <<1, 2>>),
   import_single |-> Built(<<"Path">>, "SingleImport", <<1>>)]

(* Seeded: nodes taken without a look at their kind.                       *)
BuildEffectUnchecked(r, s) ==
  LET b == Builds[r]
      n == Len(b.pops)
  IN  IF Len(s) < n THEN NullFault(s)
      ELSE Done(Push(SubSeq(s, 1, Len(s) - n), b.kind,
                     [i \in DOMAIN b.members |-> <<s[Len(s) + 1 - b.members[i]]>>]))

BuildEffect(r, s) ==
  LET b == Builds[r]
      got == Take(s, [i \in DOMAIN b.pops |-> One(b.pops[i])])
  IN  Done(Push(got.s, b.kind, [i \in DOMAIN b.members |-> got.taken[b.members[i]]]))

-----------------------------------------------------------------------------
(* Names, paths and patterns.                                              *)

PathType(path) == Last(path.parts[1]).value

OwnAlso(node, member, nodes) ==
  [node EXCEPT !.parts[member] = @ \o nodes, !.places = @ \union PlacesOf(nodes)]

PathPartEffect(s) ==
  LET got == Take(s, <<One("Array"), One("PathPart")>>)
  IN  IF got.taken[2] = <<>> THEN NullFault(s)
      ELSE LET part == OwnAlso(Head(got.taken[2]), 1, got.taken[1])
           IN  Done(IF AtNode("Path", got.s)
                    THEN Append(Front(got.s), OwnAlso(Last(got.s), 1, <<part>>))
                    ELSE Push(got.s, "Path", <<<<part>>>>))

TypnameEffect(s) ==
  IF s = <<>> THEN NullFault(s)
  ELSE LoggedIf(AtNode("Path", s) /\ PathType(Last(s)) # "TYPE", s)

(* An empty text is a plain capture; else the token of a `mut` read just   *)
(* before says whether the capture is mutable.                             *)
CaptureDescEffect(s, text, places) ==
  LET token(value) == [Bare("Token", places) EXCEPT !.value = value]
      isRef == Head(text) = "&"
      isMut == AtNode("Token", s) /\ Last(s).value = "MUT"
  IN  IF text = <<>> THEN Done(Append(s, token("NORM_CAP")))
      ELSE IF s = <<>> THEN NullFault(s)
      ELSE IF isMut
           THEN Done(Append(Front(s), token(IF isRef THEN "MUTREF_CAP" ELSE "MUT_CAP")))
           ELSE Done(IF isRef THEN Append(s, token("REF_CAP")) ELSE s)

CaptureEffect(s) ==
  LET got == Take(s, <<One("Pattern"), One("Token")>>)
  IN  IF <<>> \in {got.taken[1], got.taken[2]} THEN NullFault(s)
      ELSE IF ~Holds(CaptureType, got.taken[2]) THEN VariantFault(s)
      ELSE Done(Append(got.s, [Head(got.taken[1]) EXCEPT
                  !.places = @ \union PlacesOf(got.taken[2])]))

PatMissingEffect(s) == Logged(Append(s, Bare("Pattern", {})))

(* A type name is an algebraic pattern, a path of several parts a constant *)
(* to compare with, a plain name a variable.                               *)
ResolveConstantsEffect(s) ==
  LET path == Pop("Path", s)
      constant == Node("Variable", "none", {}, <<path.taken>>)
  IN  IF path.taken = <<>> THEN Done(s)
      ELSE IF PathType(Last(s)) = "TYPE" THEN BuildEffect("pat_adt", s)
      ELSE IF Len(Last(s).parts[1]) > 1
           THEN BuildEffect("pat_lit", Append(path.s, constant))
           ELSE Done(Push(path.s, "VarPattern", <<path.taken>>))

-----------------------------------------------------------------------------
(* Types.                                                                  *)

SingleTypeEffect(s) ==
  LET got == Take(s, <<One("Array"), One("Path")>>)
  IN  Done(IF got.taken[1] # <<>>
           THEN Push(got.s, "GenericType", <<got.taken[2], got.taken[1]>>)
           ELSE Push(got.s, "SourceType", <<got.taken[2]>>))

RefTypeEffect(s) ==
  LET token == Pop("Token", s)
  IN  IF Holds(PtrStyling, token.taken) /\ ~AtNode("SourceType", token.s)
      THEN NullFault(s) ELSE Done(token.s)

FnTypeEffect(s) ==
  LET ret == Pop("Type", s)
      missing == ret.taken = <<>>
      below == IF missing THEN Front(s) ELSE ret.s
      args == Pop("TupleType", below)
  IN  IF s = <<>> THEN NullFault(s)
      ELSE LoggedIf(missing \/ args.taken = <<>>,
             Push(args.s, "FunctionType",
               <<IF args.taken = <<>> THEN <<Bare("TupleType", {})>> ELSE args.taken,
                 IF missing THEN <<Bare("Type", {})>> ELSE ret.taken>>))

MutTypeEffect(s) ==
  LET got == Take(s, <<One("Type"), One("Token")>>)
      type == Head(got.taken[1])
      isKey == Holds(KeywordType, got.taken[2])
      changed == [type EXCEPT !.is_mut = Head(got.taken[2]).value = "MUT",
                              !.places = @ \union PlacesOf(got.taken[2])]
  IN  IF got.taken[1] # <<>>
      THEN Done(IF isKey THEN Append(got.s, changed)
                         ELSE got.s \o got.taken[2] \o <<type>>)
      ELSE IF isKey THEN NullFault(s)
      ELSE Done(Append(got.s \o got.taken[2], NullPtr))

(* and_cont and or_cont: the type joins the list below it, begun with the  *)
(* type found there if there is none.                                      *)
TypeListEffect(r, s) ==
  LET kind == IF r = "and_cont" THEN "AndType" ELSE "OrType"
      typ == Pop("Type", s)
      below == IF typ.taken = <<>> THEN Front(s) ELSE typ.s
      first == Pop("Type", below)
      list == IF AtNode(kind, below) THEN below
              ELSE Push(first.s, kind,
                     <<IF first.taken = <<>> THEN <<NullPtr>> ELSE first.taken>>)
      added == IF typ.taken = <<>> THEN <<NullPtr>> ELSE typ.taken
  IN  IF s = <<>> THEN NullFault(s)
      ELSE LoggedIf(typ.taken = <<>>,
                    Append(Front(list), OwnAlso(Last(list), 1, added)))

-----------------------------------------------------------------------------
(* Decorators.                                                             *)

TypeInfEffect(s) ==
  LET err == Pop("Error", s) IN LoggedIf(err.taken # <<>>, err.s)

(* `:: T` after an argument: as type_inf, and then the top is popped.      *)
ArgInfEffect(s) ==
  LET inf == TypeInfEffect(s)
  IN  IF inf.s = <<>> THEN NullFault(s) ELSE LoggedIf(inf.log, Front(inf.s))

ArgEffect(s) ==
  LET typ == Pop("Type", s)
      below == IF typ.taken = <<>> THEN typ.s ELSE Front(typ.s)
      bind == Pop("BasicBinding", below)
  IN  IF typ.taken # <<>> /\ typ.s = <<>> THEN NullFault(s)
      ELSE Done(Push(bind.s, "Argument", <<bind.taken, typ.taken>>))

(* The one or two tokens of variance and variadic: with one, it is the     *)
(* variance.                                                               *)
TypeGenericEffect(s, typ, log) ==
  LET got == Take(s, <<One("Token"), One("Token"), One("BasicBinding")>>)
      variance == IF got.taken[2] = <<>> THEN got.taken[1] ELSE got.taken[2]
  IN  IF variance = <<>> THEN NullFault(s)
      ELSE IF ~Holds(VarianceType, variance) THEN VariantFault(s)
      ELSE LoggedIf(log, Push(got.s, "TypeGeneric", <<got.taken[3], typ>>))

(* The relation is taken only with a type or an error above it.            *)
RelatedEffect(r, s) ==
  LET err == Pop("Error", s)
      typ == Pop("Type", err.s)
      related == err.taken # <<>> \/ typ.taken # <<>>
      rel == IF related THEN Pop("Token", typ.s) ELSE [taken |-> <<>>, s |-> typ.s]
      bind == Pop("BasicBinding", rel.s)
      log == err.taken # <<>>
  IN  IF related /\ rel.taken = <<>> THEN NullFault(s)
      ELSE IF related /\ ~Holds(RelationType, rel.taken) THEN VariantFault(s)
      ELSE IF r = "related_type" THEN TypeGenericEffect(rel.s, typ.taken, log)
      ELSE LoggedIf(log, Push(bind.s, "ValueGeneric", <<bind.taken, typ.taken, <<>>>>))

DefaultTypeEffect(s) ==
  LET typ == Pop("Type", s) IN TypeGenericEffect(typ.s, typ.taken, FALSE)

DefaultValEffect(s) ==
  LET got == Take(s, <<One("ValExpr"), One("BasicBinding")>>)
  IN  Done(Push(got.s, "ValueGeneric", <<got.taken[2], <<>>, got.taken[1]>>))

LitGenEffect(s) ==
  LET lit == Pop("ValExpr", s)
  IN  Done(IF lit.taken = <<>> THEN s ELSE Push(lit.s, "LitGeneric", <<lit.taken>>))

AdtEffect(s) ==
  LET got == Take(s, <<One("TupleType"), One("Symbol")>>)
      bind == Pop("BasicBinding", got.s)
  IN  IF got.taken[2] # <<>> /\ (got.s = <<>> \/ Last(got.s).kind = "nullptr")
      THEN NullFault(s)
      ELSE LoggedIf(got.taken[2] # <<>>,
                    Push(bind.s, "Adt", <<bind.taken, got.taken[1]>>))

-----------------------------------------------------------------------------
(* Control.                                                                *)

IsError(taken) == taken # <<>> /\ Head(taken).kind = "ValError"
PushError(s) == Append(s, Bare("ValError", {}))

InforEffect(s) ==
  LET got == Take(s, <<One("ValExpr"), One("ValExpr"), One("Pattern"), One("Token")>>)
  IN  Done(IF IsError(got.taken[1]) \/ IsError(got.taken[2]) THEN PushError(got.s)
           ELSE Push(got.s, "For", <<got.taken[3], got.taken[2], got.taken[1]>>))

WhileEffect(s) ==
  LET got == Take(s, <<One("ValExpr"), One("ValExpr")>>)
  IN  Done(IF IsError(got.taken[1]) \/ IsError(got.taken[2]) THEN PushError(got.s)
           ELSE Push(got.s, "While", <<got.taken[2], got.taken[1]>>))

LoopEffect(s) ==
  LET body == Pop("ValExpr", s)
  IN  Done(IF IsError(body.taken) THEN s ELSE Push(body.s, "Loop", <<body.taken>>))

BranchEffect(s) ==
  LET else == IF AtNode("IfBranch", s) THEN [taken |-> <<>>, s |-> s]
                                       ELSE Pop("ValExpr", s)
      ifs == PopSeq("IfBranch", else.s)
  IN  Done(Push(ifs.s, "IfElse", <<ifs.taken, else.taken>>))

CasePatEffect(s) ==
  LET pats == PopSeq("Pattern", s) IN Done(Push(pats.s, "TuplePattern", <<pats.taken>>))

MatchEffect(s) ==
  LET got == Take(s, <<One("CloseSymbolError"), One("Token"), All("Case"),
                       One("Symbol"), One("ValExpr")>>)
      logs == got.taken[1] # <<>> \/ got.taken[3] = <<>>
  IN  IF logs /\ got.taken[4] = <<>> THEN NullFault(s)
      ELSE LoggedIf(logs, Push(got.s, "Match", <<got.taken[5], got.taken[3]>>))

JumpWith(s, token, expr) ==
  IF token = <<>> THEN NullFault(s)
  ELSE IF ~Holds(KeywordType, token) THEN VariantFault(s)
  ELSE Done(Push(s, "Jump", <<expr>>))

JumpEffect(s) ==
  LET got == Take(s, <<One("ValExpr"), One("Token")>>)
  IN  JumpWith(got.s, got.taken[2], got.taken[1])

DotJumpEffect(s) ==
  LET got == Take(s, <<One("Token"), One("ValExpr")>>)
  IN  JumpWith(got.s, got.taken[1], got.taken[2])

DotWhileEffect(s) ==
  LET test == Pop("ValExpr", s)
      body == Pop("ValExpr", test.s)
  IN  IF ~IsError(test.taken)
      THEN Done(Push(body.s, "While", <<test.taken, body.taken>>))
      ELSE IF test.s = <<>> THEN NullFault(s) ELSE Done(PushError(Front(test.s)))

DotInforEffect(s) ==
  LET got == Take(s, <<One("ValExpr"), One("Pattern"), One("Token")>>)
      body == Pop("ValExpr", got.s)
  IN  IF ~IsError(got.taken[1])
      THEN Done(Push(body.s, "For", <<got.taken[2], got.taken[1], body.taken>>))
      ELSE IF got.s = <<>> THEN NullFault(s) ELSE Done(PushError(Front(got.s)))

-----------------------------------------------------------------------------
(* Functions and expressions.                                              *)

(* An element of the tuple before `->`, with its annotation taken off, has *)
(* to be a variable; its last name is the argument.                        *)
ArgumentOf(elem) ==
  LET var == IF elem.kind = "TypeAnnotation" THEN Head(elem.parts[1]) ELSE elem
      type == IF elem.kind = "TypeAnnotation" THEN elem.parts[2] ELSE <<>>
      name == Last(Head(var.parts[1]).parts[1])
  IN  IF var.kind # "Variable" THEN NullPtr
      ELSE Node("Argument", "none", {},
             <<<<[Bare("BasicBinding", name.places) EXCEPT !.value = name.value]>>, type>>)

LambdaEffect(s) ==
  LET val == Pop("Statement", s)
      wrapped == IF AtNode("Block", s) THEN s
                 ELSE Push(val.s, "Block", <<IF val.taken = <<>> THEN <<NullPtr>> ELSE val.taken>>)
      got == Take(wrapped, <<One("Block"), One("Tuple")>>)
      elems == Head(got.taken[2]).parts[1]
      args == [i \in DOMAIN elems |-> ArgumentOf(elems[i])]
  IN  IF got.taken[2] = <<>> THEN NullFault(s)
      ELSE LoggedIf(NullPtr \in ToSet(args), Push(got.s, "Function", <<args, got.taken[1]>>))

MissingDexprEffect(s) ==
  IF Len(s) < 2 \/ Last(s).kind = "nullptr" THEN NullFault(s)
  ELSE Logged(PushError(SubSeq(s, 1, Len(s) - 2)))

PathedVarEffect(s) ==
  LET path == Pop("Path", s)
  IN  Done(IF path.taken = <<>> THEN s ELSE Push(path.s, "Variable", <<path.taken>>))

OpVarEffect(s) ==
  LET bind == Pop("BasicBinding", s)
      part == [Bare("PathPart", PlacesOf(bind.taken)) EXCEPT !.value = "OPERATOR"]
  IN  IF bind.taken = <<>> THEN NullFault(s)
      ELSE PathedVarEffect(Push(bind.s, "Path", <<<<part>>>>))

TypeConstTailEffect(s) ==
  LET got == Take(s, <<One("Block"), One("Tuple")>>)
      var == Pop("Variable", got.s)
  IN  IF got.taken[1] # <<>>
      THEN IF var.taken = <<>> THEN NullFault(s)
           ELSE Done(Push(var.s, "TypeExtension",
                       <<Head(var.taken).parts[1], got.taken[2], got.taken[1]>>))
      ELSE Done(IF got.taken[2] = <<>> THEN got.s
                ELSE Push(var.s, "FnCall", <<var.taken, got.taken[2]>>))

(* A null pointer below the first part of an index marks where it begins.  *)
IndexepsEffect(s) ==
  IF s = <<>> THEN NullFault(s) ELSE Done(Front(s) \o <<NullPtr, Last(s)>>)

IndexContEffect(s) ==
  LET exprs == PopSeq("ValExpr", s)
  IN  IF exprs.s = <<>> THEN NullFault(s)
      ELSE Done(Push(Front(exprs.s), "Index", <<exprs.taken>>))

MissingIndexEffect(s) ==
  LET val == Pop("ValExpr", s)
  IN  IF val.taken = <<>> \/ val.s = <<>> THEN NullFault(s)
      ELSE Logged(Front(val.s) \o val.taken)

(* An operator's node keeps the level it was read at. *)
BinaryContEffect(r, s) ==
  LET got == Take(s, <<One("ValExpr"), One("BasicBinding"), One("ValExpr")>>)
      rhs == IF got.taken[1] = <<>> THEN <<Bare("Future", {})>> ELSE got.taken[1]
      called == Node("BinOpCall", r, PlacesOf(got.taken[2]), <<got.taken[3], rhs>>)
  IN  IF got.taken[2] = <<>> THEN NullFault(s) ELSE Done(Append(got.s, called))

-----------------------------------------------------------------------------
(* Statements.                                                             *)

ModDecEffect(s) ==
  LET path == Pop("Path", s)
      parts == Head(path.taken).parts[1]
      basic(part) == part.value = "VARIABLE" /\ part.parts[1] = <<>>
  IN  IF path.taken = <<>> THEN NullFault(s)
      ELSE LoggedIf(\E i \in DOMAIN parts : ~basic(parts[i]),
                    Push(path.s, "ModDec", <<path.taken>>))

(* A token on top means that the type below it is the one implemented for. *)
ImplEffect(s) ==
  LET got == Take(s, <<One("Block"), One("Token")>>)
      for == IF got.taken[2] = <<>> THEN [taken |-> <<>>, s |-> got.s]
                                    ELSE Pop("SourceType", got.s)
      type == Pop("SourceType", for.s)
  IN  Done(Push(type.s, "ImplExpr", <<for.taken, type.taken, got.taken[1]>>))

RebindEffect(s) ==
  LET new == Pop("Path", s)
      old == Pop("Path", Front(new.s))
  IN  IF new.s = <<>> \/ <<>> \in {new.taken, old.taken} THEN NullFault(s)
      ELSE LoggedIf(PathType(Head(old.taken)) # PathType(Head(new.taken)),
                    Push(old.s, "Rebind", <<old.taken, new.taken>>))

ErrRebindEffect(s) ==
  LET got == Take(s, <<One("Token"), One("Path")>>)
  IN  IF got.taken[2] = <<>> THEN NullFault(s)
      ELSE Logged(Push(got.s, "SingleImport", <<got.taken[2]>>))

(* What assigns or declares ends with its visibility, the token below it.  *)
Declares(s, pops, kind, members) ==
  LET got == Take(s, Append(pops, One("Token")))
      vis == Last(got.taken)
  IN  IF vis = <<>> THEN NullFault(s)
      ELSE IF ~Holds(VisibilityType, vis) THEN VariantFault(s)
      ELSE Done(Push(got.s, kind, [i \in DOMAIN members |-> got.taken[members[i]]]))

TypeAssignEffect(s) ==
  LET got == Take(s, <<One("Block"), All("Constructor"), One("Token")>>)
      scope == got.s \o got.taken[2] \o got.taken[1]
      assigned == Declares(scope, <<One("Block"), All("Constructor"),
                      One("GenericArray"), One("AssignPattern")>>, "TypeAssign", <<4, 3, 2, 1>>)
  IN  IF assigned.fault # "none" THEN assigned
      ELSE [assigned EXCEPT !.s[Len(assigned.s)].places = @ \union PlacesOf(got.taken[3])]

(* Seeded: an assignment made over, where `in` has made one.               *)
AsgnValEffectAgain(s) ==
  Declares(s, <<One("ValExpr"), One("Type"), One("GenericArray"),
                One("AssignPattern")>>, "VarAssign", <<4, 3, 2, 1>>)

AsgnValEffect(s) ==
  IF AtNode("InAssign", s) THEN Done(s)
  ELSE Declares(s, <<One("ValExpr"), One("Type"), One("GenericArray"),
                     One("AssignPattern")>>, "VarAssign", <<4, 3, 2, 1>>)

InAssignEffect(s) ==
  LET context == Pop("ValExpr", s)
      assigned == AsgnValEffect(context.s)
      var == Pop("VarAssign", assigned.s)
  IN  IF assigned.fault # "none" THEN assigned
      ELSE Done(Push(var.s, "InAssign", <<var.taken, context.taken>>))

InterfaceEffect(s) ==
  IF AtNode("VarAssign", s) THEN Done(s)
  ELSE Declares(s, <<One("Type"), One("GenericArray"), One("AssignPattern")>>,
                "Interface", <<3, 2, 1>>)

-----------------------------------------------------------------------------
(* What holds a whole expression or statement together.                    *)

(* Seeded: the annotation taken and dropped.                              *)
ValexprEffectUntyped(s) ==
  LET got == Take(s, <<One("Type"), One("ValExpr"), One("Token")>>)
  IN  IF got.taken[2] = <<>> THEN NullFault(s)
      ELSE Done(Append(got.s, [Head(got.taken[2]) EXCEPT
                  !.is_mut = got.taken[3] # <<>>, !.places = @ \union PlacesOf(got.taken[3])]))

(* The expression takes its annotation, and a token below it makes it      *)
(* mutable, whatever the token says.                                       *)
ValexprEffect(s) ==
  LET got == Take(s, <<One("Type"), One("ValExpr"), One("Token")>>)
      expr == [Head(got.taken[2]) EXCEPT !.is_mut = got.taken[3] # <<>>,
                                         !.places = @ \union PlacesOf(got.taken[3])]
  IN  IF got.taken[2] = <<>> THEN NullFault(s)
      ELSE Done(IF got.taken[1] = <<>> THEN Append(got.s, expr)
                ELSE Push(got.s, "TypeAnnotation", <<<<expr>>, got.taken[1]>>))

StatementEffect(s) ==
  LET stmt == Pop("Statement", s)
      anots == PopSeq("LocalAnnotation", stmt.s)
  IN  IF stmt.taken = <<>> THEN NullFault(s)
      ELSE Done(Append(anots.s, [Head(stmt.taken) EXCEPT
                                   !.places = @ \union PlacesOf(anots.taken)]))

-----------------------------------------------------------------------------
(* The action of each rule that has one.                                   *)

Literals == {"bin_body", "hex_body", "decimal", "variance", "relation"}
Texts == {"capture_desc"} \union Literals \union DOMAIN Bindings
Tables == DOMAIN Pushes \union DOMAIN Tokens \union DOMAIN Brackets
            \union Enclosed \union DOMAIN Missing \union DOMAIN Builds
Specials ==
  {"path_part", "typname", "capture", "pat_missing", "resolve_constants",
   "single_type", "ref_type", "fn_type", "mut_type", "and_cont", "or_cont",
   "type_inf", "arg_sentinel", "arg_inf", "arg", "related_type", "related_val",
   "default_type", "default_val", "lit_gen", "adt", "infor", "whilel", "loop",
   "dotloop", "branch", "dotbranch", "case_pat", "matchs", "dotmatch", "jump",
   "dotjump", "dotwhile", "dot_infor", "lambda", "missing_dexpr", "pathed_var",
   "op_var", "type_const_tail", "indexeps", "index_cont", "missing_index",
   "_mod_dec", "impl", "rebind", "err_rebind", "type_assign", "asgn_val",
   "_in_assign", "asgn_in", "_interface", "valexpr", "statement"}
     \union ToSet(BinaryCont)
Acting == Texts \union Tables \union Specials

TextEffect(r, s, text, places) ==
  CASE r \in DOMAIN Bindings -> BindingEffect(r, s, text, places)
    [] r \in Literals -> LiteralEffect(r, s, text, places)
    [] r = "capture_desc" -> CaptureDescEffect(s, text, places)

TableEffect(r, s, places) ==
  CASE r \in DOMAIN Pushes -> Done(Append(s, Bare(Pushes[r], places)))
    [] r \in DOMAIN Tokens ->
         Done(Append(s, [Bare("Token", places) EXCEPT !.value = Tokens[r]]))
    [] r \in DOMAIN Brackets -> BracketEffect(r, s)
    [] r \in Enclosed -> EnclosedEffect(r, s)
    [] r \in DOMAIN Missing -> MissingEffect(r, s)
    [] r \in DOMAIN Builds -> BuildEffect(r, s)

NamedEffect(r, s) ==
  CASE r = "path_part" -> PathPartEffect(s) [] r = "typname" -> TypnameEffect(s)
    [] r = "capture" -> CaptureEffect(s) [] r = "pat_missing" -> PatMissingEffect(s)
    [] r = "resolve_constants" -> ResolveConstantsEffect(s)
    [] r = "single_type" -> SingleTypeEffect(s) [] r = "ref_type" -> RefTypeEffect(s)
    [] r = "fn_type" -> FnTypeEffect(s) [] r = "mut_type" -> MutTypeEffect(s)
    [] r \in {"and_cont", "or_cont"} -> TypeListEffect(r, s)
    [] r = "type_inf" -> TypeInfEffect(s)
    [] r = "arg_sentinel" -> Done(Append(s, NullPtr))
    [] r = "arg_inf" -> ArgInfEffect(s) [] r = "arg" -> ArgEffect(s)
    [] r \in {"related_type", "related_val"} -> RelatedEffect(r, s)
    [] r = "default_type" -> DefaultTypeEffect(s)
    [] r = "default_val" -> DefaultValEffect(s)
    [] r = "lit_gen" -> LitGenEffect(s) [] r = "adt" -> AdtEffect(s)
    [] r = "infor" -> InforEffect(s) [] r = "whilel" -> WhileEffect(s)
    [] r \in {"loop", "dotloop"} -> LoopEffect(s)
    [] r \in {"branch", "dotbranch"} -> BranchEffect(s)
    [] r = "case_pat" -> CasePatEffect(s)
    [] r \in {"matchs", "dotmatch"} -> MatchEffect(s)
    [] r = "jump" -> JumpEffect(s) [] r = "dotjump" -> DotJumpEffect(s)
    [] r = "dotwhile" -> DotWhileEffect(s) [] r = "dot_infor" -> DotInforEffect(s)
    [] r = "lambda" -> LambdaEffect(s) [] r = "missing_dexpr" -> MissingDexprEffect(s)
    [] r = "pathed_var" -> PathedVarEffect(s) [] r = "op_var" -> OpVarEffect(s)
    [] r = "type_const_tail" -> TypeConstTailEffect(s)
    [] r = "indexeps" -> IndexepsEffect(s) [] r = "index_cont" -> IndexContEffect(s)
    [] r = "missing_index" -> MissingIndexEffect(s)
    [] r \in ToSet(BinaryCont) -> BinaryContEffect(r, s)
    [] r = "_mod_dec" -> ModDecEffect(s) [] r = "impl" -> ImplEffect(s)
    [] r = "rebind" -> RebindEffect(s) [] r = "err_rebind" -> ErrRebindEffect(s)
    [] r = "type_assign" -> TypeAssignEffect(s) [] r = "asgn_val" -> AsgnValEffect(s)
    [] r \in {"_in_assign", "asgn_in"} -> InAssignEffect(s)
    [] r = "_interface" -> InterfaceEffect(s) [] r = "valexpr" -> ValexprEffect(s)
    [] r = "statement" -> StatementEffect(s)

Effect(r, s, text, places) ==
  IF r \in Texts THEN TextEffect(r, s, text, places)
  ELSE IF r \in Tables THEN TableEffect(r, s, places)
  ELSE NamedEffect(r, s)
=============================================================================
