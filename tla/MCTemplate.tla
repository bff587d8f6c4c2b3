----------------------------- MODULE MCTemplate -----------------------------
(***************************************************************************)
(* The two halves of the template compiler, one at a time: the lexer on    *)
(* every short input, or the parser and the code generator on every short  *)
(* sequence of tokens.                                                     *)
(***************************************************************************)
EXTENDS TemplateParser, TemplateLexer

VARIABLE half

LexerSymbols ==
    {"x", "{", "}", "->", "<%", "%>", ">", "<cif", "<cstyle", "<style", "</style>"}

MCInit ==
    /\ ParserInit
    /\ \/ half = "lexer" /\ LexerInit
       \/ half = "parser" /\ input = <<>> /\ position = 0 /\ tokens = <<>>

MCNext ==
    /\ \/ half = "lexer" /\ LexerNext /\ UNCHANGED parserVars
       \/ half = "parser" /\ ParserNext /\ UNCHANGED lexerVars
    /\ UNCHANGED half

MCSpec == MCInit /\ [][MCNext]_<<half, parserVars, lexerVars>>
=============================================================================
