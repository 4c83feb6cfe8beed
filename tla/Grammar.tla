------------------------------- MODULE Grammar -------------------------------
(***************************************************************************)
(* The grammar of incl/parser/grammar.h as data: Rules gives every rule    *)
(* the expression it matches, written with the combinators of PEGTL;       *)
(* R("name") refers to the rule of that name.                              *)
(*                                                                         *)
(* A text is a sequence of lexemes.  A name, a keyword and a numeral are   *)
(* one lexeme each; every other character, a blank included, is a lexeme   *)
(* of its own, so "->" is two of them.                                     *)
(***************************************************************************)
EXTENDS Sequences, SequencesExt

CONSTANTS
  Names,        \* identifiers that begin with a small letter
  TypeNames,    \* identifiers that begin with a capital
  Numerals      \* runs of digits

Keywords == {"mut", "do", "loop", "match", "if", "elsif", "elseif", "else",
             "for", "in", "while", "mod", "impl", "use", "as", "false",
             "true", "let", "def", "private", "break", "continue", "return",
             "yield", "wait"}

Operators == {"!", "$", "%", "^", "&", "*", "?", "<", ">", "|", "/", "\\",
              "-", "=", "+", "~"}

Blank == " "             \* a run of spaces, or a comment
EndLine == "\n"
Identifiers == Names \union TypeNames \union Keywords
Marks == Operators \union {"(", ")", "{", "}", "[", "]", ",", ";", ":", ".",
                           "'", "\"", "@", "_"}
Lexemes == Identifiers \union Numerals \union Marks
             \union {Blank, EndLine, "0b", "0x"}

GrammarAssumption ==
  /\ Names \subseteq STRING /\ TypeNames \subseteq STRING
  /\ Numerals \subseteq STRING
  /\ Names \intersect (TypeNames \union Numerals \union Keywords) = {}
  /\ TypeNames \intersect (Numerals \union Keywords) = {}

ASSUME GrammarAssumption

-----------------------------------------------------------------------------
(* The combinators.                                                        *)

R(rule) == [op |-> "rule", rule |-> rule]
Chain(es) == [op |-> "seq", es |-> es]
Sor(es) == [op |-> "sor", es |-> es]
Star(es) == [op |-> "star", es |-> es]
Opt(es) == [op |-> "opt", es |-> es]
At(e) == [op |-> "at", es |-> <<e>>]
NotAt(e) == [op |-> "not_at", es |-> <<e>>]
Disable(e) == [op |-> "disable", es |-> <<e>>]
Enable(e) == [op |-> "enable", es |-> <<e>>]
IfThenElse(c, t, e) == [op |-> "if_then_else", es |-> <<c, t, e>>]
Until(c, es) == [op |-> "until", es |-> <<c, Chain(es)>>]
OneOf(chars) == [op |-> "one", chars |-> chars]
AnyChar == OneOf(Lexemes)
Eof == [op |-> "eof"]
Eolf == Sor(<<Eof, OneOf({EndLine})>>)
Failure == [op |-> "failure"]
Blanks == [op |-> "blanks"]
Eps == Chain(<<>>)
Plus(e) == Chain(<<e, Star(<<e>>)>>)
Two(a, b) == Chain(<<OneOf({a}), OneOf({b})>>)

Punct(ch) == Chain(<<OneOf({ch}), R("ig_s")>>)
Key(word) == Chain(<<OneOf({word}), R("ig_s")>>)
Sequence(open, rule, close) ==
  Chain(<<open, rule, Star(<<R("comma"), rule>>), close>>)
OptSequence(open, rule, close, error) ==
  Chain(<<open, Opt(<<rule, Star(<<R("comma"), Sor(<<rule, error>>)>>)>>), close>>)

CloseBrace == Sor(<<R("cbrace"), R("errorbrace")>>)
CloseParen == Sor(<<R("cparen"), R("errorparen")>>)
CloseBrack == Sor(<<R("cbrack"), R("errorbrack")>>)

-----------------------------------------------------------------------------

Punctuation ==
  [ig_s |-> Blanks,
   obrace |-> Punct("{"), cbrace |-> Punct("}"), obrack |-> Punct("["),
   cbrack |-> Punct("]"), oparen |-> Punct("("), cparen |-> Punct(")"),
   plambda |-> Punct("_"), comma |-> Punct(","), endc |-> Punct(";"),
   equals |-> Punct("="), bar |-> Punct("|"), and_ |-> Punct("+"),
   dot |-> Punct("."), ochar |-> OneOf({"'"}), oquote |-> OneOf({"\""}),
   errorbrace |-> Blanks, errorparen |-> Blanks, errorbrack |-> Blanks,
   errorchar |-> Blanks, errorquote |-> Blanks]

KeywordRules ==
  [kmut |-> Key("mut"), kdo |-> Key("do"), kloop |-> Key("loop"),
   kmatch |-> Key("match"), kif |-> Key("if"), kelsif |-> Key("elsif"),
   kelse |-> Key("else"), kfor |-> Key("for"), kin |-> Key("in"),
   kwhile |-> Key("while"), kmod |-> Key("mod"), kimpl |-> Key("impl"),
   kuse |-> Key("use"), kas |-> Key("as"), kfalse |-> Key("false"),
   ktrue |-> Key("true"), klet |-> Key("let"), kdef |-> Key("def"),
   kbreak |-> Key("break"), kcontinue |-> Key("continue"),
   kret |-> Key("return"), kyield |-> Key("yield"), kwait |-> Key("wait"),
   vcontext |-> Sor(<<R("klet"), R("kdef")>>),
   jump_key |-> Sor(<<R("kbreak"), R("kcontinue"), R("kret"), R("kyield"), R("kwait")>>)]

(* The keywords a variable may not be called (grammar::keywords).          *)
Reserved == {"do", "elsif", "else", "in", "as", "private"}

IdentifierRules ==
  [var |-> OneOf(Names \union Keywords),
   typ |-> OneOf(TypeNames),
   unop |-> OneOf({"!", "-", "~"}),
   binop_ch |-> OneOf(Operators),
   binop |-> IfThenElse(Sor(<<Two("-", ">"), Two("=", ">")>>), Failure,
               Chain(<<Opt(<<OneOf({"!"})>>), Plus(R("binop_ch"))>>)),
   op |-> Disable(Sor(<<R("binop"), R("unop")>>)),
   pvar |-> Disable(R("var")),
   ptyp |-> Disable(R("typ")),
   pname |-> Sor(<<R("pvar"), R("ptyp")>>),
   path_part |-> Chain(<<R("pname"), Opt(<<R("_array")>>)>>),
   path |-> Star(<<R("path_part"), OneOf({":"})>>),
   pathed_name |-> Chain(<<R("path"), Disable(R("path_part"))>>),
   typname |-> Chain(<<R("pathed_name")>>),
   pat_any |-> Disable(R("plambda")),
   missing_pat_tup |-> Eps,
   pat_tuple |-> OptSequence(R("oparen"), R("pattern"), CloseParen, R("missing_pat_tup")),
   capture_desc |-> Sor(<<Chain(<<OneOf({"&"}), R("ig_s"), Opt(<<R("kmut")>>)>>),
                          R("kmut"), Eps>>),
   pat_adt |-> Chain(<<R("pat_tuple")>>),
   resolve_constants |-> Eps,
   pat_name_adt |-> Chain(<<R("pathed_name"), R("ig_s"),
                      IfThenElse(At(OneOf({"("})), R("pat_adt"), R("resolve_constants"))>>),
   pat_missing |-> Until(OneOf({Blank, EndLine}), <<AnyChar>>),
   capture |-> Chain(<<R("capture_desc"),
                       Sor(<<R("pat_tuple"), R("pat_name_adt"), R("pat_missing")>>)>>),
   pattern |-> Chain(<<Sor(<<R("pat_any"), R("pat_lit"), R("capture")>>), R("ig_s")>>),
   assign_tuple |-> Sequence(R("oparen"), R("assign_pat"), CloseParen),
   assign_drop |-> Disable(R("plambda")),
   assign_name |-> Sor(<<R("var"), R("op")>>),
   assign_pat |-> Chain(<<Sor(<<R("assign_name"), R("assign_drop"), R("assign_tuple")>>),
                          R("ig_s")>>),
   assign_typ |-> Chain(<<R("typ"), R("ig_s")>>)]

TypeRules ==
  [errortype |-> Eps, missing_type |-> Eps,
   typ_view |-> Two(".", "."), typ_ref |-> OneOf({"&"}), typ_ptr |-> OneOf({"*"}),
   ptr_styling |-> Sor(<<R("typ_view"), R("typ_ref"), R("typ_ptr")>>),
   single_type |-> Chain(<<R("typname"), R("ig_s")>>),
   ref_type |-> Chain(<<R("single_type"), Opt(<<R("ptr_styling"), R("ig_s")>>)>>),
   tuple_type |-> OptSequence(R("oparen"), R("type"), CloseParen, R("missing_type")),
   fn_type |-> Chain(<<Two("-", ">"), R("ig_s"), Sor(<<R("type"), R("errortype")>>)>>),
   tuple_fn_type |-> Chain(<<R("tuple_type"), Opt(<<R("fn_type")>>)>>),
   mut_type |-> Chain(<<Opt(<<R("kmut")>>), Sor(<<R("tuple_fn_type"), R("ref_type")>>)>>),
   braced_type |-> Chain(<<R("obrace"), R("type"), CloseBrace>>),
   ntype |-> Sor(<<R("mut_type"), R("braced_type")>>),
   and_cont |-> Chain(<<R("and_"), Sor(<<R("ntype"), R("errortype")>>)>>),
   and_type |-> Chain(<<R("ntype"), Star(<<R("and_cont")>>)>>),
   or_cont |-> Chain(<<R("bar"), Sor(<<R("and_type"), R("errortype")>>)>>),
   type |-> Chain(<<R("and_type"), Star(<<R("or_cont")>>)>>)]

DecoratorRules ==
  [annotation |-> Chain(<<OneOf({"@"}), R("var"), Opt(<<R("tuple")>>), R("ig_s")>>),
   ganot |-> Chain(<<Two("@", "!"), R("var"), Opt(<<R("tuple")>>), R("ig_s")>>),
   type_inf |-> Chain(<<Two(":", ":"), R("ig_s"), Sor(<<R("type"), R("errortype")>>)>>),
   variance |-> Sor(<<OneOf({"+"}), OneOf({"-"}), Eps>>),
   variadic |-> Chain(<<Two(".", "."), R("ig_s")>>),
   relation |-> Chain(<<Sor(<<Two(":", ":"), Two("!", ":")>>), R("ig_s")>>),
   error_gentyp |-> Eps, error_genval |-> Eps,
   default_type |-> Chain(<<OneOf({"="}), R("ig_s"), Sor(<<R("type"), R("error_gentyp")>>)>>),
   related_type |-> Opt(<<R("relation"), Sor(<<R("type"), R("errortype")>>)>>),
   type_gen |-> Chain(<<R("typ"), R("ig_s"), R("variance"), R("ig_s"), Opt(<<R("variadic")>>),
                        Sor(<<R("default_type"), R("related_type")>>)>>),
   default_val |-> Chain(<<OneOf({"="}), R("ig_s"), Sor(<<R("lit"), R("error_genval")>>)>>),
   related_val |-> Opt(<<R("relation"), Sor(<<R("type"), R("errortype")>>)>>),
   val_gen |-> Chain(<<R("var"), R("ig_s"), Sor(<<R("default_val"), R("related_val"), Eps>>)>>),
   gen_parterror |-> Until(At(OneOf({"]", ","})), <<AnyChar>>),
   gen_part |-> Sor(<<R("type_gen"), R("val_gen"), R("lit_gen"), R("gen_parterror")>>),
   _generic |-> Sequence(R("obrack"), R("gen_part"), CloseBrack),
   adt |-> Chain(<<R("typ"), IfThenElse(At(OneOf({"("})),
                            Sor(<<R("tuple_type"), R("errortype")>>), Eps), R("ig_s")>>),
   error_adt |-> Eps,
   adt_dec |-> Chain(<<R("adt"), Star(<<R("bar"), Sor(<<R("adt"), R("error_adt")>>)>>)>>),
   arg_sentinel |-> Blanks,
   arg_inf |-> Chain(<<Two(":", ":"), R("arg_sentinel"), Sor(<<R("type"), R("errortype")>>)>>),
   arg |-> Chain(<<R("var"), R("ig_s"), Opt(<<R("arg_inf")>>)>>),
   missing_arg |-> Eps,
   arg_tuple |-> OptSequence(R("oparen"), R("arg"), CloseParen, R("missing_arg")),
   anon_type |-> Chain(<<Two(":", ":"), R("ig_s"), R("scope")>>)]

ControlRules ==
  [infor |-> Chain(<<R("kin"), Sor(<<R("mvexpr"), R("missing_gen")>>),
                     Sor(<<R("mvdexpr"), R("missing_fbody")>>)>>),
   forl |-> Chain(<<R("kfor"), IfThenElse(R("pattern"), Sor(<<R("infor"), R("missing_in")>>),
                                       R("missing_pat"))>>),
   whilel |-> Chain(<<R("kwhile"), Sor(<<R("mvexpr"), R("missing_wtest")>>),
                      Sor(<<R("mvdexpr"), R("missing_wbody")>>)>>),
   loop |-> Chain(<<R("kloop"), Sor(<<R("mvdexpr"), R("missing_lbody")>>)>>),
   if_core |-> Chain(<<R("kif"), Sor(<<R("mvexpr"), R("missing_itest")>>)>>),
   if_branch |-> Chain(<<R("if_core"), Sor(<<R("mvdexpr"), R("missing_ibody")>>)>>),
   elseif_key |-> Key("elseif"),
   elsif_case |-> Chain(<<Sor(<<R("kelsif"), R("elseif_key")>>),
                          Sor(<<R("mvexpr"), R("missing_eitest")>>),
                          Sor(<<R("mvdexpr"), R("missing_eibody")>>)>>),
   else_case |-> Chain(<<R("kelse"), Sor(<<R("mvdexpr"), R("missing_ebody")>>)>>),
   branch |-> Chain(<<R("if_branch"), Star(<<R("elsif_case")>>), Opt(<<R("else_case")>>)>>),
   case_pat |-> Chain(<<R("pattern"), Star(<<R("comma"), Sor(<<R("pattern"), R("missing_cpat")>>)>>)>>),
   _case |-> Chain(<<R("case_pat"), Opt(<<R("if_core")>>),
                     Sor(<<Two("=", ">"), R("missing_arrow")>>), R("ig_s"),
                     Sor(<<R("mvexpr"), R("missing_cbody")>>), Opt(<<R("endc")>>)>>),
   cases |-> Chain(<<Sor(<<R("obrace"), R("missing_brace")>>),
                     Star(<<NotAt(OneOf({"}"})), R("_case")>>), CloseBrace>>),
   matchs |-> Chain(<<R("kmatch"), IfThenElse(R("mvexpr"), R("cases"), R("missing_mexpr"))>>),
   jump |-> Chain(<<R("jump_key"), Opt(<<R("mvexpr")>>)>>),
   control |-> Sor(<<R("matchs"), R("forl"), R("whilel"), R("branch"), R("jump"), R("loop")>>),
   dotloop |-> Chain(<<R("kloop")>>),
   dotwhile |-> Chain(<<R("kwhile"), Sor(<<R("mvexpr"), R("missing_wtest")>>)>>),
   dot_infor |-> Chain(<<R("kin"), Sor(<<R("mvexpr"), R("missing_gen")>>)>>),
   dotfor |-> Chain(<<R("kfor"), IfThenElse(R("pattern"), Sor(<<R("dot_infor"), R("missing_in")>>),
                                         R("missing_dotpat"))>>),
   dotif |-> Chain(<<R("if_core")>>),
   dotbranch |-> Chain(<<R("dotif"), Star(<<R("elsif_case")>>), Opt(<<R("else_case")>>)>>),
   dotmatch |-> Chain(<<R("kmatch"), Sor(<<R("obrace"), R("missing_brace")>>),
                        Star(<<R("_case")>>), CloseBrace>>),
   dotjump |-> Chain(<<R("jump_key")>>),
   _dot_ctrl |-> Sor(<<R("dotjump"), R("dotloop"), R("dotwhile"), R("dotfor"), R("dotbranch"),
                       R("dotmatch")>>),
   dot_ctrl |-> Chain(<<R("_dot_ctrl"), Star(<<R("dot"), R("_dot_ctrl")>>)>>)]

AtomRules ==
  [bin_body |-> Star(<<OneOf(Numerals)>>),
   binary |-> Chain(<<OneOf({"0b"}), R("bin_body"), R("ig_s")>>),
   hex_body |-> Star(<<OneOf(Numerals)>>),
   hex |-> Chain(<<OneOf({"0x"}), R("hex_body"), R("ig_s")>>),
   decimal |-> Chain(<<OneOf(Numerals), Opt(<<OneOf({"."}), OneOf(Numerals)>>), R("ig_s")>>),
   char_body |-> AnyChar,
   _char |-> Chain(<<R("ochar"), Opt(<<OneOf({"\\"})>>), R("char_body"),
                     Sor(<<OneOf({"'"}), R("errorchar")>>), R("ig_s")>>),
   str_body |-> Until(At(Sor(<<OneOf({"\""}), Eof>>)), <<Opt(<<OneOf({"\\"})>>), AnyChar>>),
   string |-> Chain(<<R("oquote"), R("str_body"), Sor(<<OneOf({"\""}), R("errorquote")>>), R("ig_s")>>),
   lit |-> Sor(<<R("binary"), R("hex"), R("decimal"), R("_char"), R("string"), R("kfalse"), R("ktrue")>>),
   lit_gen |-> Chain(<<R("lit")>>),
   pat_lit |-> Chain(<<R("lit")>>),
   scope |-> Chain(<<R("obrace"), Star(<<R("annotated")>>), CloseBrace>>),
   tuple |-> OptSequence(R("oparen"), R("mvexpr"), CloseParen, R("missing_texpr")),
   _array |-> OptSequence(R("obrack"), R("mvexpr"), CloseBrack, R("missing_aexpr")),
   lambda |-> Chain(<<Two("-", ">"), R("ig_s"), Sor(<<R("mvexpr"), R("missing_lexpr")>>)>>),
   fwd_dot |-> Chain(<<R("dot")>>),
   dot_fn |-> Chain(<<R("fwd_dot"), Sor(<<R("dot_ctrl"), R("index_cont"), R("missing_dexpr")>>)>>),
   fn_tuple |-> Sor(<<Chain(<<R("tuple"), Opt(<<R("lambda")>>)>>), R("dot_fn")>>),
   atom |-> Sor(<<R("fn_tuple"), R("_array"), R("lit"), R("plambda"), R("scope")>>)]

ExpressionRules ==
  [in_scoped_expr |-> Chain(<<R("kin"), Sor(<<R("mvexpr"), R("missing_invexpr")>>)>>),
   assignment |-> Chain(<<R("equals"), IfThenElse(R("valexpr"),
                    Sor(<<R("in_scoped_expr"), R("missing_inexpr")>>), R("missing_asexpr"))>>),
   _in_assign |-> Chain(<<Opt(<<R("_generic")>>), Opt(<<R("type_inf")>>),
                          Sor(<<R("assignment"), R("missing_assignment")>>)>>),
   in_assign |-> Chain(<<R("vcontext"), IfThenElse(R("assign_pat"), R("_in_assign"),
                                                R("missing_aspat"))>>),
   call |-> Enable(R("tuple")),
   type_const_tail |-> Opt(<<Disable(R("call")), Opt(<<R("anon_type")>>)>>),
   op_var |-> Chain(<<R("binop")>>),
   pathed_var |-> Sor(<<R("pathed_name"), R("op_var")>>),
   var_val |-> Chain(<<R("pathed_var"), R("type_const_tail"), R("ig_s")>>),
   fncall |-> Chain(<<Sor(<<R("atom"), R("var_val")>>), Star(<<R("call")>>)>>),
   index_cont |-> Chain(<<R("indexeps"), R("fncall"),
                          Star(<<R("dot"), Sor(<<R("fncall"), R("missing_fncall")>>)>>)>>),
   index |-> Chain(<<R("fncall"), Opt(<<R("dot"), Sor(<<R("dot_ctrl"), R("index_cont"),
                                                  R("missing_index")>>)>>)>>),
   unopcall |-> Chain(<<R("unop"), Sor(<<R("index"), R("missing_unexpr")>>)>>),
   unexpr |-> Sor(<<R("unopcall"), R("index")>>)]

StatementRules ==
  [_mod_dec |-> Chain(<<R("pathed_name"), R("ig_s"), Opt(<<R("endc"), R("ig_s")>>)>>),
   mod_dec |-> Chain(<<R("kmod"), Sor(<<R("_mod_dec"), R("missing_module")>>)>>),
   for_type |-> Chain(<<R("kfor"), Sor(<<R("single_type"), R("missing_fortype")>>)>>),
   impl_errchars |-> Plus(Chain(<<NotAt(Disable(R("obrace"))), AnyChar>>)),
   impl |-> Chain(<<R("kimpl"), Sor(<<R("single_type"), R("missing_impltype")>>),
                    Opt(<<R("for_type")>>), Opt(<<R("impl_errchars")>>),
                    Sor(<<R("scope"), R("missing_impldef")>>)>>),
   mul_imp |-> Sequence(R("obrace"), Chain(<<R("ig_s"), R("pname"), R("ig_s")>>), CloseBrace),
   at_rebind_point |-> Chain(<<R("ig_s"), Sor(<<Disable(R("_array")), At(R("kas"))>>)>>),
   rebind |-> Chain(<<R("kas"), R("path_part")>>),
   maybe_rebind |-> Sor(<<R("rebind"), R("err_rebind")>>),
   imp_alias |-> Chain(<<Disable(R("pname")), IfThenElse(R("at_rebind_point"),
                           R("maybe_rebind"), R("import_single"))>>),
   _mod_alias |-> Chain(<<Opt(<<R("path")>>), Sor(<<R("mul_imp"), R("imp_alias")>>)>>),
   mod_alias |-> Chain(<<R("kuse"), Sor(<<R("_mod_alias"), R("missing_import")>>)>>),
   _type_assign |-> Chain(<<R("equals"), Opt(<<R("kmut")>>),
                            Sor(<<R("adt_dec"), R("arg_tuple"), Eps>>),
                            Sor(<<R("scope"), R("missing_typedef")>>)>>),
   type_assign |-> Chain(<<R("assign_typ"), Opt(<<R("_generic")>>),
                           Sor(<<R("_type_assign"), R("missing_type_assign")>>)>>),
   asgn_in |-> Chain(<<R("in_scoped_expr")>>),
   asgn_val |-> Chain(<<R("equals"), Sor(<<Chain(<<R("valexpr"), Opt(<<R("asgn_in")>>)>>),
                                        R("missing_val_assign")>>)>>),
   _interface |-> Chain(<<R("type_inf"), Opt(<<R("asgn_val")>>)>>),
   var_assign |-> Chain(<<R("assign_pat"), Opt(<<R("_generic")>>),
                          Sor(<<R("_interface"), R("asgn_val"), R("missing_interface")>>)>>),
   assign |-> Chain(<<R("vcontext"), Sor(<<R("type_assign"), R("var_assign"),
                                        R("standalone_visibility")>>)>>)]

(* The rules that match nothing and exist for their action.                *)
Sentinels ==
  [r \in {"missing_gen", "missing_fbody", "missing_in", "missing_pat",
          "missing_wtest", "missing_wbody", "missing_lbody", "missing_itest",
          "missing_ibody", "missing_eitest", "missing_eibody", "missing_ebody",
          "missing_cpat", "missing_arrow", "missing_cbody", "missing_mexpr",
          "missing_brace", "missing_dotpat", "missing_texpr", "missing_aexpr",
          "missing_lexpr", "missing_dexpr", "missing_invexpr", "missing_asexpr",
          "missing_inexpr", "missing_assignment", "missing_aspat", "indexeps",
          "missing_fncall", "missing_index", "missing_unexpr", "missing_module",
          "missing_fortype", "missing_impltype", "missing_impldef", "err_rebind",
          "import_single", "missing_import", "missing_typedef",
          "missing_type_assign", "missing_val_assign", "missing_interface",
          "standalone_visibility", "missing_valexpr2", "missing_stmt"} |-> Eps]

(* DEFINE_BINPREC_LEVEL: seven levels of operators, each over the one      *)
(* before it; the first character of an operator decides its level.        *)
BinaryOp == <<"binary_op1", "binary_op2", "binary_op3", "binary_op4",
              "binary_op5", "binary_op6", "binary_op7">>
BinaryCont == <<"binary_cont1", "binary_cont2", "binary_cont3", "binary_cont4",
                "binary_cont5", "binary_cont6", "binary_cont7">>
BinaryPrec == <<"binary_prec1", "binary_prec2", "binary_prec3", "binary_prec4",
                "binary_prec5", "binary_prec6", "binary_prec7">>

BinaryOpch ==
  <<OneOf({"&", "$", "?", "\\"}),
    OneOf({"/", "%", "*"}),
    Sor(<<OneOf({"+"}), IfThenElse(Two("-", ">"), Failure, OneOf({"-"}))>>),
    Sor(<<Chain(<<OneOf({"!"}), R("binop_ch")>>),
          IfThenElse(Two("=", ">"), Failure, OneOf({"="}))>>),
    OneOf({"<", ">"}),
    OneOf({"^"}),
    OneOf({"|"})>>

(* Seeded: comparison before addition, addition before multiplication.     *)
BelowSwapped(level) ==
  R(IF level = 1 THEN "unexpr"
    ELSE BinaryPrec[CASE level = 2 -> 3 [] level = 3 -> 1 [] level = 4 -> 2 [] OTHER -> level - 1])

Below(level) == R(IF level = 1 THEN "unexpr" ELSE BinaryPrec[level - 1])

BinaryLevel(level) ==
  [r \in {BinaryOp[level], BinaryCont[level], BinaryPrec[level]} |->
     CASE r = BinaryOp[level] -> Chain(<<BinaryOpch[level], Star(<<R("binop_ch")>>)>>)
       [] r = BinaryCont[level] ->
            Chain(<<R(BinaryOp[level]), R("ig_s"), Opt(<<Below(level)>>)>>)
       [] r = BinaryPrec[level] ->
            Chain(<<Below(level), Star(<<R(BinaryCont[level])>>)>>)]

PrecedenceRules ==
  FoldLeft(LAMBDA rules, level : rules @@ BinaryLevel(level), <<>>,
           <<1, 2, 3, 4, 5, 6, 7>>)

(* Seeded: stops at brackets that close, too.                              *)
ForwardCharClosing ==
  Sor(<<OneOf(Identifiers), OneOf(Numerals \union {"0b", "0x"}),
        R("unop"), R("binop"), OneOf({"(", "[", "{", ")", "]", "}"})>>)

(* Where what cannot be read as a statement ends.                          *)
ForwardChar ==
  Sor(<<OneOf(Identifiers), OneOf(Numerals \union {"0b", "0x"}),
        R("unop"), R("binop"), OneOf({"(", "[", "{"})>>)

OrganizationalRules ==
  [valexpr |-> Chain(<<Opt(<<R("kmut")>>), Sor(<<R("control"), R("binary_prec7")>>),
                       Opt(<<R("type_inf")>>)>>),
   mvexpr |-> Sor(<<R("in_assign"), R("valexpr")>>),
   mvdexpr |-> Chain(<<Opt(<<R("kdo")>>), R("mvexpr")>>),
   missing_valexpr |-> Disable(R("kmut")),
   statement_expr |-> IfThenElse(R("kdo"), Sor(<<R("valexpr"), R("missing_valexpr2")>>),
                                 Sor(<<R("valexpr"), R("missing_valexpr")>>)),
   statement |-> Sor(<<R("ganot"), R("mod_dec"), R("mod_alias"), R("impl"), R("assign"),
                       R("statement_expr")>>),
   annotated |-> Chain(<<IfThenElse(Plus(R("annotation")),
                           Sor(<<R("statement"), R("missing_stmt")>>), R("statement")),
                         Opt(<<R("endc")>>)>>),
   forward_char |-> ForwardChar,
   leftovers |-> Until(At(R("forward_char")), <<AnyChar>>),
   program |-> Chain(<<R("ig_s"), Until(Eolf, <<Star(<<R("ig_s"), R("annotated")>>),
                                             Sor(<<Eolf, R("leftovers")>>)>>)>>)]

Rules ==
  Punctuation @@ KeywordRules @@ IdentifierRules @@ TypeRules @@ DecoratorRules
    @@ ControlRules @@ AtomRules @@ ExpressionRules @@ StatementRules
    @@ Sentinels @@ PrecedenceRules @@ OrganizationalRules
=============================================================================
