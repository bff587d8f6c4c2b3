---------------------------- MODULE TemplateLexer ---------------------------
(***************************************************************************)
(* The lexer of the template compiler (framework/src/templatengine/        *)
(* lexer.c), which cuts a template into tokens.  The input is a sequence   *)
(* of symbols, each one or more characters: "x" is a letter, "->" an       *)
(* arrow, "<cif" and "<cstyle" stand for all control tags up to their      *)
(* attributes, "<style" and "</style>" for <script> and </script> too.     *)
(***************************************************************************)
EXTENDS Naturals, Sequences

CONSTANTS Symbols,
          MaxInput,    \* bound: symbols of a template
          MaxBuffer    \* MAX_BUFFER_SIZE - 1, in symbols

ASSUME LexerAssumption == MaxInput \in Nat /\ MaxBuffer \in Nat \ {0}

VARIABLES
    input,
    position,    \* symbols read
    tokens       \* [type, from, to] of the tokens returned: symbols from + 1 to to

lexerVars == <<input, position, tokens>>

Control == {"<cif", "<cstyle"}
StyleOpen == {"<style", "<cstyle"}
HasLetter == {"x", "<cif", "<cstyle", "<style", "</style>"}
EndsTag == {">", "%>", "</style>"}     \* symbols that end in ">" but not in "->"

LexerInit ==
    /\ input \in UNION {[1..n -> Symbols] : n \in 0..MaxInput}
    /\ position = 0 /\ tokens = <<>>

AtEnd(p) == p = Len(input)
Peek(p) == input[p + 1]

Smallest(S) == CHOOSE n \in S : \A m \in S : n <= m
UpTo(a, b) == IF a < b THEN a ELSE b

\* is_inside_style_tag and is_inside_script_tag: the last opening before p, in whatever
\* kind of token it is, comes after the last closing.
InsideStyle(p) ==
    \E i \in 1..p : input[i] \in StyleOpen /\ \A j \in (i + 1)..p : input[j] # "</style>"

\* A brace that some letter or arrow follows before the next closing brace, if any.
LooksLikeVariable(p) ==
    \E i \in (p + 2)..Len(input) :
        /\ input[i] \in HasLetter \cup {"->"}
        /\ \A j \in (p + 2)..i : input[j] # "}"

\* What lexer_next_token does not read as HTML.
StartsToken(p) ==
    \/ Peek(p) = "<%"
    \/ Peek(p) \in Control
    \/ Peek(p) = "{" /\ ~InsideStyle(p) /\ LooksLikeVariable(p)

\* Mutant: the copy of that condition forgets the styles.
StopsHtmlAnywhere(p) ==
    \/ Peek(p) = "<%"
    \/ Peek(p) \in Control
    \/ Peek(p) = "{" /\ LooksLikeVariable(p)

\* What ends a run of HTML in lexer_read_html: the same condition, written out again.
StopsHtml(p) ==
    \/ Peek(p) = "<%"
    \/ Peek(p) \in Control
    \/ Peek(p) = "{" /\ ~InsideStyle(p) /\ LooksLikeVariable(p)

\* The first position from p on where a reading loop stops: at a symbol in ends, at the
\* end of the input, or when the buffer is full.
StopAt(p, ends) ==
    Smallest({q \in p..Len(input) : AtEnd(q) \/ q = p + MaxBuffer \/ Peek(q) \in ends})

Take(type, to) ==
    /\ position' = to
    /\ tokens' = Append(tokens, [type |-> type, from |-> position, to |-> to])
    /\ UNCHANGED input

\* The position after the symbol at q if it is one of ends, which is then dropped or kept.
After(q, ends) == IF ~AtEnd(q) /\ Peek(q) \in ends THEN q + 1 ELSE q

More == tokens # <<>> => tokens[Len(tokens)].type # "EOF"
CanRead == More /\ ~AtEnd(position)

\* lexer_read_c_code: a full buffer ends the token without its closing mark.
ReadCode ==
    /\ CanRead /\ Peek(position) = "<%"
    /\ LET q == StopAt(position + 1, {"%>"})
       IN  Take("C_CODE", IF q < position + 1 + MaxBuffer THEN After(q, {"%>"}) ELSE q)

\* lexer_read_control_tag.
ReadControlTag ==
    /\ CanRead /\ Peek(position) \in Control
    /\ Take("TAG", After(StopAt(position, EndsTag), EndsTag))

\* lexer_read_variable.
ReadVariable ==
    /\ CanRead /\ Peek(position) = "{" /\ StartsToken(position)
    /\ Take("VARIABLE", After(StopAt(position + 1, {"}"}), {"}"}))

\* lexer_read_html: without a symbol read, the token is an end of input.
ReadHtml ==
    /\ CanRead /\ ~StartsToken(position)
    /\ LET q == Smallest({r \in position..Len(input) :
                    AtEnd(r) \/ r = position + MaxBuffer \/ StopsHtml(r)})
       IN  Take(IF q = position THEN "EOF" ELSE "HTML", q)

ReadEnd == More /\ AtEnd(position) /\ Take("EOF", position)

LexerNext == ReadCode \/ ReadControlTag \/ ReadVariable \/ ReadHtml \/ ReadEnd

LexerSpec == LexerInit /\ [][LexerNext]_lexerVars

\* The end of input is reported only there: the parser stops at the first such token, and
\* a symbol at which reading HTML stops but no other token starts would end the template.
\* A run of HTML is cut in two only by a full buffer.
LexerReadsAll ==
    \A i \in DOMAIN tokens :
        /\ tokens[i].type = "EOF" => tokens[i].from = Len(input)
        /\ i > 1 /\ tokens[i].type = "HTML" /\ tokens[i - 1].type = "HTML"
            => tokens[i - 1].to = tokens[i - 1].from + MaxBuffer
=============================================================================
