------------------------------ MODULE MCParser ------------------------------
EXTENDS Parser

Main == <<"func", "id", "(", ")", "{">>

(* Nearly a whole program, with every kind of statement. *)
Whole ==
  <<"type", "id", "struct", "{", "id", "int", ";", "id", "*", "id", ";", "}",
    ";", "var", "id", ",", "id", "int", ";",
    "func", "id", "(", "id", "int", ",", "id", "bool", ")", "*", "id", "{",
    "var", "id", "*", "id", ";",
    "id", ".", "id", "=", "id", "-", "(", "id", "/", "id", ")", ";",
    "if", "(", "id", "<=", "id", ")", "{", "delete", "id", ";", "}",
    "else", "{", "scan", "id", ".", "id", ";", "}",
    "for", "(", "!", "id", ")", "{", "printf", "(", "stringlit", ",", "id",
    ",", "id", ")", ";", "}",
    "id", "(", "id", ",", "-", "id", ")", ";",
    "if", "(", "true", "||", "id", ".", "id", "&&", "id", "==", "nil", ")",
    "{", "return", ";", "}",
    "return", "new", "id", ".", "id">>

MCBeginnings ==
  {<<>>, Whole,
   <<"type", "id", "struct", "{", "id", "int", ";">>,
   <<"var", "id">>,
   <<"func", "id", "(", "id", "*", "id", ",">>,
   <<"func", "id", "(", ")", "bool", "{", "var", "id", "int", ";">>,
   Main \o <<"id">>,
   Main \o <<"return">>,
   Main \o <<"delete">>,
   Main \o <<"scan", "id">>,
   Main \o <<"printf", "(", "stringlit">>,
   Main \o <<"for", "(", "id">>,
   Main \o <<"if", "(", "true", ")", "{">>,
   Main \o <<"if", "(", "id", ")", "{", "}", "else">>,
   Main \o <<"return", "id", "||", "id", "&&", "-", "id">>,
   Main \o <<"return", "id", "*", "id", "+">>,
   Main \o <<"return", "id", "+", "intlit", "-", "id">>,
   Main \o <<"return", "id", "(", "new", "id">>,
   Main \o <<"return", "nil", "/", "intlit", "<", "false", "!=">>}

(* A token of every class the decisions tell apart. *)
MCVocabulary ==
  {"id", "new", "int", "(", ")", "{", "}", ".", ",", ";", "=", "!", "-", "*",
   "<", "==", "&&", "||", "return", "if", "else", "var", "func"}
=============================================================================
