------------------------------ MODULE MCParser ------------------------------
(***************************************************************************)
(* Programs to parse.  Those of _test are here with f, a and b for their   *)
(* names, A and B for their types and 1 for their numbers; the others show *)
(* each construct of the grammar at work, each error it tells of and each  *)
(* disagreement that is known.                                             *)
(***************************************************************************)
EXTENDS ParserCorrect

MCNames == {"a", "b", "f"}
MCTypeNames == {"A", "B"}
MCNumerals == {"1"}

(* Programs that also lose a lexeme, each in turn.                         *)
Small ==
  {<<"let", " ", "a", " ", "=", " ", "1">>,
   <<"def", " ", "f", " ", "=", " ", "(", ")", " ", "-", ">", " ", "1", " ",
     "+", " ", "1", " ", "*", " ", "1", " ", "-", " ", "1">>,
   <<"def", " ", "f", " ", "=", " ", "(", "a", ",", " ", "b", ")", " ", "-",
     ">", " ", "{", " ", "a", " ", "+", " ", "b", " ", "}", "\n", "def",
     " ", "b", " ", "=", " ", "(", ")", " ", "-", ">", " ", "f", "(", "1",
     ",", " ", "1", ")">>,
   <<"let", " ", "a", " ", ":", ":", " ", "A", " ", "=", " ", "1", " ", "<",
     " ", "1">>,
   <<"let", " ", "a", " ", "=", " ", "mut", " ", "1">>,
   <<"a", ".", "b", ".", "f">>,
   <<"a", ".", "loop">>,
   <<"for", " ", "a", " ", "in", " ", "b", " ", "{", " ", "f", " ", "}">>,
   <<"while", " ", "a", " ", "do", " ", "b">>,
   <<"if", " ", "a", " ", "b", " ", "elsif", " ", "f", " ", "1", " ", "else",
     " ", "1">>,
   <<"match", " ", "a", " ", "{", " ", "1", " ", "=", ">", " ", "b", ";", " ",
     "A", "(", "b", ")", " ", "if", " ", "b", " ", "=", ">", " ", "f", ";",
     " ", "_", " ", "=", ">", " ", "1", " ", "}">>,
   <<"mod", " ", "a", ":", "b", "\n", "use", " ", "a", ":", "b">>,
   <<"use", " ", "a", ":", "{", " ", "b", ",", " ", "A", " ", "}">>,
   <<"use", " ", "a", ":", "b", " ", "as", " ", "f">>,
   <<"use", " ", "A", ":", "B", "[", "1", "]", " ", "as", " ", "A">>,
   <<"impl", " ", "A", " ", "{", " ", "let", " ", "a", " ", "=", " ", "1",
     " ", "}">>,
   <<"@", "a", "(", "1", ")", " ", "let", " ", "b", " ", "=", " ", "1">>,
   <<"let", " ", "A", " ", "=", " ", "mut", " ", "A", "(", "B", ")", " ", "|",
     " ", "B", " ", "{", " ", "let", " ", "a", " ", "=", " ", "1", " ",
     "}">>,
   <<"let", " ", "A", " ", "=", " ", "(", "a", ",", " ", "b", ")", " ", "{",
     " ", "}">>,
   <<"let", " ", "A", "[", "B", " ", ":", ":", " ", "A", ",", " ", "a", " ",
     "=", " ", "1", "]", " ", "=", " ", "{", " ", "}">>,
   <<"let", " ", "a", "[", "A", "]", " ", ":", ":", " ", "B", " ", "-", ">",
     " ", "A">>,
   <<"let", " ", "a", " ", ":", ":", " ", "(", "A", ",", " ", "B", ")", " ",
     "-", ">", " ", "A", " ", "&", " ", "=", " ", "1">>,
   <<"-", "a", " ", "|", " ", "!", "b">>,
   <<"[", "1", ",", " ", "a", "]", "(", "1", ")">>,
   <<"'", "1", "'", " ", "=", "=", " ", "\"", "a", "\"">>,
   <<".", "+", "(", ")">>,
   <<"f", "(", "let", " ", "a", " ", "=", " ", "1", " ", "in", " ", "b", ")">>}

(* The programs of _test, and longer ones.                                 *)
Whole ==
  {<<"\n", "def", " ", "f", " ", "=", " ", "(", ")", " ", "-", ">", " ", "1",
     " ", "+", " ", "1", "\n">>,
   <<"\n", "\n", "def", " ", "f", " ", "=", " ", "(", ")", " ", "-", ">", " ",
     "{", "\n", " ", "true", " ", "&", "&", " ", "{", "1", " ", ">", " ",
     "1", "}", "\n", "}">>,
   <<"mod", " ", "f", "\n", "\n", "def", " ", "f", " ", "=", " ", "(", ")",
     " ", "-", ">", " ", "1">>,
   <<"def", " ", "f", " ", "=", " ", "(", "a", " ", ":", ":", " ", "A", ",",
     " ", "b", " ", ":", ":", " ", "A", ")", " ", "-", ">", " ", "a", " ",
     "-", " ", "b", "\n", "\n", "def", " ", "f", " ", "=", " ", "(", ")",
     " ", "-", ">", " ", "f", "(", "1", ",", " ", "1", ")", "\n">>,
   <<"def", " ", "f", " ", "=", " ", "(", "A", ",", " ", "B", ")", " ", "-",
     ">", " ", ".", "+", "(", ")", "\n", "def", " ", "b", " ", "=", " ",
     "(", ")", " ", "-", ">", " ", "f", "(", "1", ",", " ", "1", ")">>,
   <<"def", " ", "f", " ", "=", " ", "(", "A", ")", " ", "-", ">", "1">>,
   <<"def", " ", "f", " ", "=", " ", "(", ")", "-", ">", "1", "\n", "def",
     " ", "b", " ", "=", " ", "(", "a", ")", "-", ">", " ", "f", "(", ")",
     " ", "*", " ", "a">>,
   <<"def", " ", "f", " ", "=", " ", "(", ")", " ", "-", ">", " ", "{", "\n",
     " ", "let", " ", "a", " ", "=", " ", "mut", " ", "1", "\n", " ", "a",
     " ", "=", " ", "a", " ", "*", " ", "1", "\n", " ", "a", "\n", "}">>,
   <<"def", " ", "f", " ", "=", " ", "(", ")", " ", "-", ">", " ", "{", "\n",
     " ", "let", " ", "a", " ", "=", " ", "1", "\n", " ", "a", " ", "+",
     " ", "{", " ", "false", " ", ":", ":", " ", "A", " ", "}", "\n", "}">>,
   <<"def", " ", "f", " ", "=", " ", "(", "a", " ", ":", ":", " ", "A", ")",
     " ", "-", ">", "\n", " ", "if", " ", "a", " ", "=", "=", " ", "1",
     " ", "{", "\n", " ", "1", "\n", " ", "}", " ", "else", " ", "{", "\n",
     " ", "a", " ", "*", " ", "f", "(", "a", " ", "-", " ", "1", ")", "\n",
     " ", "}", "\n">>,
   <<"def", " ", "f", " ", "=", " ", "(", ")", " ", "-", ">", " ", "{", "\n",
     " ", "let", " ", "a", " ", "=", " ", "1", "\n", " ", "let", " ", "b",
     " ", "=", " ", "{", "\n", " ", "let", " ", "a", " ", "=", " ", "1",
     "\n", " ", "a", " ", "-", " ", "1", "\n", " ", "}", " ", "in", " ",
     "b", " ", "+", " ", "a", "\n", "}">>,
   <<"let", " ", "a", " ", ":", ":", " ", "mut", " ", "A", " ", "+", " ", "B",
     " ", "|", " ", "{", " ", "B", " ", "}", " ", "=", " ", "1">>,
   <<"let", " ", "(", "a", ",", " ", "_", ")", " ", "=", " ", "b">>,
   <<"let", " ", "+", " ", "=", " ", "1">>,
   <<"0b", "1", " ", "+", " ", "0x", "1", " ", "^", " ", "1", ".", "1", " ",
     "/", " ", "1">>,
   <<"a", ":", "b", ":", "f", "[", "1", "]">>,
   <<"A", "(", "1", ")", ":", ":", "{", " ", "let", " ", "b", " ", "=", " ",
     "1", " ", "}">>,
   <<"match", " ", "a", " ", "{", " ", "&", "mut", " ", "b", " ", "=", ">",
     " ", "1", " ", "}">>,
   <<"match", " ", "a", " ", "{", " ", "(", "a", ",", " ", "b", ")", " ", "=",
     ">", " ", "1", ";", " ", "a", ":", "b", " ", "=", ">", " ", "1", ";",
     " ", "1", ",", " ", "\"", "b", "\"", " ", "=", ">", " ", "b", " ",
     "}">>,
   <<"a", ".", "match", " ", "{", " ", "1", " ", "=", ">", " ", "b", ";", " ",
     "}">>,
   <<".", "a", " ", "+", " ", "_">>,
   <<"a", ".", "for", " ", "b", " ", "in", " ", "f">>,
   <<"a", ".", "loop", ".", "while", " ", "b">>,
   <<"a", ".", "if", " ", "b", " ", "else", " ", "f">>,
   <<"a", ".", "if", " ", "b", " ", "elsif", " ", "1", " ", "f">>,
   <<"a", ".", "break">>,
   <<"continue">>,
   <<"return">>,
   <<"yield">>,
   <<"wait">>,
   <<"let", " ", "a", "[", "A", " ", "+", " ", ".", ".", " ", "=", " ", "B",
     ",", " ", "1", "]", " ", "=", " ", "1">>,
   <<"let", " ", "a", "[", "A", " ", ".", ".", " ", ":", ":", " ", "B", ",",
     " ", "b", " ", ":", ":", " ", "A", ",", " ", "B", " ", "!", ":", " ",
     "A", "]", " ", "=", " ", "1">>,
   <<"let", " ", "a", " ", ":", ":", " ", "A", ".", ".", " ", "=", " ", "f",
     "(", "1", ")", "(", "1", ")", ".", "b">>,
   <<"let", " ", "a", " ", ":", ":", " ", "B", "*", " ", "=", " ", "f", "(",
     "let", " ", "a", " ", ":", ":", " ", "A", " ", "=", " ", "1", " ",
     "in", " ", "a", ")">>,
   <<"if", " ", "a", " ", "loop", " ", "b">>,
   <<"if", " ", "a", " ", "while", " ", "a", " ", "b", " ", "else", " ", "do",
     " ", "1">>,
   <<"[", "[", "]", ",", " ", "[", "1", "]", "]">>}

(* Texts that end early, or have something missing.                        *)
Broken ==
  {<<"match">>,
   <<"match", " ", "a", " ", "{", " ", "1", ",">>,
   <<"def", " ", "f", " ", "=", " ", "(", ")", " ", "-", ">", " ", "}">>,
   <<"f", "(", "let", " ", "a", " ", "=", " ", ")">>,
   <<"f", "(", "let", " ", ")">>,
   <<"f", "(", "let", " ", "a", ")">>,
   <<"f", "(", "let", " ", "a", " ", "=", " ", "1", " ", "in", " ", ")">>,
   <<"f", "(", "let", " ", "a", " ", "=", " ", "1", ")">>,
   <<"match", " ", "{", " ", "}">>,
   <<"match", " ", "a", " ", "{", " ", "1", ",", " ", "=", ">", " ", "b", " ",
     "}">>,
   <<"a", ".", "for">>,
   <<"for", " ">>,
   <<"for", " ", "a", " ", "in", " ">>,
   <<"while", " ">>,
   <<"if", " ", "a", " ", "b", " ", "elsif", " ">>,
   <<"if", " ", "a", " ", "b", " ", "elseif", " ", "b", " ", "1">>,
   <<"@", "a", " ", ")">>,
   <<"mut">>,
   <<"do", " ">>,
   <<".", " ", ")">>,
   <<"a", ".">>,
   <<"-">>,
   <<"impl", " ", "A", " ", "for", " ", "{", " ", "}">>,
   <<"let", " ", "a", "[", "A", " ", "=", " ", ",", " ", "a", " ", "=", " ",
     "]", " ", "=", " ", "1">>,
   <<"for", " ", "(", "a", ",", " ", ")", " ", "in", " ", "b", " ", "f">>,
   <<"let", " ", "as", " ", "=", " ", "1">>,
   <<"(", " ", "1">>,
   <<"[", " ", "1">>,
   <<"f", "(", "1", ",", " ", ")">>,
   <<"[", "1", ",", " ", "]">>,
   <<"let", " ", "A", " ", "=", " ", "A", " ", "|", " ", "{", " ", "}">>,
   <<"let", " ", "A", " ", "=", " ", "(", "a", ",", " ", ")", " ", "{", " ",
     "}">>,
   <<"let", " ", "a", " ", ":", ":", " ", "(", "A", ",", " ", ")", " ", "=",
     " ", "1">>,
   <<"'", " ">>,
   <<"use", " ", "a">>,
   <<"let", " ", "a">>,
   <<"let">>,
   <<"mod", " ">>,
   <<"use", " ">>,
   <<"impl", " ">>,
   <<"1", " ", ")">>,
   <<"loop", " ">>,
   <<"if", " ">>,
   <<"0b">>,
   <<"let", " ", "A", " ", "=", " ", "{", " ", "1">>,
   <<"let", " ", "a", "[", "A", " ", "=", " ", "B">>}

-----------------------------------------------------------------------------

(* Texts that the actions do not cope with, or never come to an end of.    *)
Faulty ==
  {<<"return", " ", "1">>,
   <<"break", " ", "a">>,
   <<"let", " ", "a", " ", "=", " ", "mut", " ", "break", " ", "a">>,
   <<"let", " ", "a", " ", "=", " ", "mut">>,
   <<"let", " ", "a", " ", "=", " ", "mut", " ", "loop", " ", "a">>,
   <<"let", " ", "a", " ", "=", " ", "mut", " ", "while", " ", "a", " ", "b">>,
   <<"if", " ", "a", " ", "1", " ", "else", " ", "if", " ", "b", " ", "1">>,
   <<"impl", " ", "A", " ", "for", " ", "B", " ", "{", "}">>,
   <<"let", " ", "a", " ", ":", ":", " ", "A", " ", "=", " ", "1", " ",
     "in", " ", "a">>,
   <<"let", " ", "A", " ", "=", " ", "(", "a", " ", ":", ":", " ", "A", ")",
     " ", "{", "}">>,
   <<"let", " ", "A", " ", "=", " ", "A", "(", "B", ",", " ", "{", " ",
     "}">>,
   <<"@", "!", "a", " ", "f">>,
   <<"let", " ", "(">>,
   <<"for", " ", "(", "a", ",", " ">>,
   <<"match", " ", "a", " ", "{", " ", "(", "a", ",", " ">>,
   <<"(", "mut", " ", "a", ")", " ", "-", ">", " ", "a">>,
   <<"(", "a", ":", "b", ")", " ", "-", ">", " ", "1">>,
   <<"(", "a", "[", "1", "]", ")", " ", "-", ">", " ", "b">>,
   <<"use", " ", "a", "\n", "\n", ")", " ", "f">>,
   <<"a", ":">>,
   <<"a", ":", "1">>,
   <<"a", ":", ":", "A">>,
   <<"use", " ", "a", ":", "1", " ", "as", " ", "b">>,
   <<"a", "[", "f", "(", "1", ")", "]">>,
   <<"a", ":", "b", ":", "f", "[", "f", "(", "1", ")", "]">>,
   <<"use", " ", "A", ":", "B", "[", "f", "(", "1", ")", "]", " ", "as", " ",
     "A">>}

Dropped == {RemoveAt(t, i) : <<t, i>> \in {<<t, i>> \in Small \X (1..30) : i <= Len(t)}}

MCPrograms == Small \union Whole \union Broken \union Faulty \union Dropped

(* One text for each disagreement.                                         *)
MCReturn == {<<"return", " ", "1">>, <<"return">>}
MCElseIf == {<<"if", " ", "a", " ", "1", " ", "else", " ", "if", " ", "b", " ", "1">>}
MCPathCut == {<<"a", ":">>}
=============================================================================
