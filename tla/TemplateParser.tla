--------------------------- MODULE TemplateParser ---------------------------
(***************************************************************************)
(* The template compiler (framework/src/templatengine) from tokens on: the *)
(* parser builds a tree, from which one function that writes the page and, *)
(* if the template has external CSS, one that writes the CSS are generated.*)
(*                                                                         *)
(* "text" stands for the three tokens that carry content, HTML, C code and *)
(* variables, none of them empty; "cinline" is <cstyle setinline>.  An     *)
(* error token is skipped like a stray closing tag and is left out.        *)
(*                                                                         *)
(* The parser is a recursive descent that reads one token at a time; open  *)
(* is the stack of its calls.  At the end of the input all of them return, *)
(* which adds nothing to the tree: at every state the tree is that of the  *)
(* source read so far.                                                     *)
(***************************************************************************)
EXTENDS Naturals, Sequences, SequencesExt

CONSTANT MaxTokens   \* bound: tokens of a template

VARIABLES
    source,  \* the tokens read
    nodes,   \* the nodes of the tree in the order of creation, below the root
    open     \* nodes whose parsing function has not returned, innermost last

parserVars == <<source, nodes, open>>

Styles == {"cstyle", "cinline"}
Opening == {"cloop", "cif"} \cup Styles

\* The nodes that a closing tag ends.
EndedBy(tag) ==
    CASE tag = "/cloop"  -> {"cloop"}
      [] tag = "/cif"    -> {"cif", "celse"}
      [] tag = "/cstyle" -> Styles
Closing == {"/cloop", "/cif", "/cstyle"}

ParserInit == source = <<>> /\ nodes = <<>> /\ open = <<>>

-----------------------------------------------------------------------------
(* The parser.  0 is the root.                                             *)

Current == IF open = <<>> THEN 0 ELSE Last(open)
Within(kinds) == open # <<>> /\ nodes[Last(open)].kind \in kinds

\* parser_advance.
Advance(token) ==
    /\ Len(source) < MaxTokens
    /\ source' = Append(source, token)

\* cweb_ast_node_create and cweb_ast_node_add_child.
AddNode(kind) ==
    nodes' = Append(nodes, [kind |-> kind, parent |-> Current, at |-> Len(source) + 1])

ParseText ==
    /\ Advance("text") /\ AddNode("text")
    /\ UNCHANGED open

\* parser_parse_cloop, parser_parse_cif and parser_parse_cstyle, when called.
ParseOpening(tag) ==
    /\ Advance(tag) /\ AddNode(tag)
    /\ open' = Append(open, Len(nodes) + 1)

\* parser_parse_cif reads <celse> at the end of its first body.
ParseElse ==
    /\ Within({"cif"})
    /\ Advance("celse") /\ AddNode("celse")
    /\ open' = Append(open, Len(nodes) + 1)

\* Mutant: </cif> ends the second body of the condition, but not the condition.
EndsBodyOnly(tag) == Front(open)

\* What is still open after a tag that ends the current node; </cif> ends both the
\* second body and the condition.
Returned(tag) == IF Within({"celse"}) THEN Front(Front(open)) ELSE Front(open)

ParseClosing(tag) ==
    /\ Within(EndedBy(tag))
    /\ Advance(tag)
    /\ open' = Returned(tag)
    /\ UNCHANGED nodes

\* The default of parser_parse_element: a tag that fits nothing here is skipped.
SkipToken(tag) ==
    /\ ~Within(IF tag = "celse" THEN {"cif"} ELSE EndedBy(tag))
    /\ Advance(tag)
    /\ UNCHANGED <<nodes, open>>

ParserNext ==
    \/ ParseText
    \/ \E tag \in Opening : ParseOpening(tag)
    \/ ParseElse
    \/ \E tag \in Closing : ParseClosing(tag)
    \/ \E tag \in Closing \cup {"celse"} : SkipToken(tag)

ParserSpec == ParserInit /\ [][ParserNext]_parserVars

-----------------------------------------------------------------------------
(* The code generator.  A function is the sequence of its outputs: the     *)
(* token each writes, and the tags whose loop, branch or <style> it is     *)
(* written in.                                                             *)

Kind(n) == IF n = 0 THEN "root" ELSE nodes[n].kind
Children(n) == {i \in 1..Len(nodes) : nodes[i].parent = n}
ThenPart(n) == {i \in Children(n) : Kind(i) # "celse"}
ElsePart(n) == {i \in Children(n) : Kind(i) = "celse"}
SecondBranch(n) == CHOOSE i \in ElsePart(n) : TRUE

Write(n) == <<[at |-> nodes[n].at, under |-> {}]>>

\* The outputs inside the loop, branch or style of tag n.
Wrap(n, outputs) ==
    [i \in 1..Len(outputs) |->
        [at |-> outputs[i].at, under |-> outputs[i].under \cup {nodes[n].at}]]

\* A loop over children, with what each of them outputs.
InTurn(children, outputs) ==
    FlattenSeq([i \in 1..Len(nodes) |-> IF i \in children THEN outputs[i] ELSE <<>>])

\* A node, and whether the calls that led to it are inside a CSS block.
Modes == {"page", "css"}
Visits == (0..Len(nodes)) \X Modes

\* node_contains_css_content.
HasCss[x \in Visits] ==
    LET n == x[1]
        AnyChild(mode) == \E i \in Children(n) : HasCss[<<i, mode>>]
    IN  \/ Kind(n) = "text" /\ x[2] = "css"
        \/ Kind(n) = "cinline" /\ x[2] = "css" /\ AnyChild("css")
        \/ Kind(n) = "cstyle" /\ AnyChild("css")
        \/ Kind(n) \notin {"text"} \cup Styles /\ AnyChild(x[2])

\* template_has_external_css.
HasExternalCss[n \in 0..Len(nodes)] ==
    \/ Kind(n) = "cstyle" /\ HasCss[<<n, "page">>]
    \/ \E i \in Children(n) : HasExternalCss[i]

\* Mutant: a condition is left out when its first branch has no CSS.
PrunedByFirst(n, mode) == ~\E i \in ThenPart(n) : HasCss[<<i, mode>>]

\* emit_css_node leaves a loop or a condition out when there is no CSS in it.
Pruned(n, mode) == ~\E i \in Children(n) : HasCss[<<i, mode>>]

\* emit_css_node, and emit_css_children.
EmitCss[x \in Visits] ==
    LET n == x[1]
        All(children, mode) ==
            InTurn(children, [i \in children |-> EmitCss[<<i, mode>>]])
        second == SecondBranch(n)
    IN  CASE Kind(n) = "text"    -> IF x[2] = "css" THEN Write(n) ELSE <<>>
          [] Kind(n) = "cloop"   -> IF Pruned(n, x[2]) THEN <<>>
                                    ELSE Wrap(n, All(Children(n), x[2]))
          [] Kind(n) = "cif"     -> IF Pruned(n, x[2]) THEN <<>>
                                    ELSE Wrap(n, All(ThenPart(n), x[2])) \o
                                         (IF ElsePart(n) # {} /\ HasCss[<<second, x[2]>>]
                                          THEN Wrap(second, All(Children(second), x[2]))
                                          ELSE <<>>)
          [] Kind(n) = "cinline" -> IF x[2] = "css" THEN All(Children(n), "css") ELSE <<>>
          [] Kind(n) = "cstyle"  -> All(Children(n), "css")
          [] OTHER               -> All(Children(n), x[2])

\* generate_html_node.
GenerateHtml[n \in 0..Len(nodes)] ==
    LET All(children) == InTurn(children, [i \in children |-> GenerateHtml[i]])
        second == SecondBranch(n)
    IN  CASE Kind(n) = "text"    -> Write(n)
          [] Kind(n) = "cloop"   -> Wrap(n, All(Children(n)))
          [] Kind(n) = "cif"     -> Wrap(n, All(ThenPart(n))) \o
                                    (IF ElsePart(n) # {}
                                     THEN Wrap(second, All(Children(second)))
                                     ELSE <<>>)
          [] Kind(n) = "cinline" -> Wrap(n, InTurn(Children(n),
                                        [i \in Children(n) |-> EmitCss[<<i, "css">>]]))
          [] Kind(n) = "cstyle"  -> <<>>
          [] OTHER               -> All(Children(n))

\* cweb_generate_c_file: the second function is there only if the template needs it.
PageFunction == GenerateHtml[0]
CssFunction == IF HasExternalCss[0] THEN EmitCss[<<0, "page">>] ELSE <<>>

-----------------------------------------------------------------------------
Outputs(f) == {f[i].at : i \in DOMAIN f}
InOrder(f) == \A i, j \in DOMAIN f : i < j => f[i].at < f[j].at

\* However tags are nested or misplaced, each piece of content of the template is written
\* by exactly one of the two functions, once, and in the order of the template: nothing is
\* lost between a style, a branch and a loop that is left out, and nothing written twice.
ContentWrittenOnce ==
    /\ InOrder(PageFunction) /\ InOrder(CssFunction)
    /\ Outputs(PageFunction) \cap Outputs(CssFunction) = {}
    /\ Outputs(PageFunction) \cup Outputs(CssFunction)
        = {i \in DOMAIN source : source[i] = "text"}

\* A reading of the source that knows nothing of the parser: the tags opened and not
\* closed by counting, and whether each closing tag and each <celse> fits.
Count(i, j, tags) == Cardinality({k \in i..j : source[k] \in tags})
Enclosing(i) ==
    {j \in 1..(i - 1) :
        /\ source[j] \in Opening
        /\ \A k \in (j + 1)..(i - 1) : Count(j + 1, k, Closing) <= Count(j + 1, k, Opening)}
Innermost(i) == CHOOSE j \in Enclosing(i) : \A k \in Enclosing(i) : k <= j
WellNested ==
    \A i \in DOMAIN source :
        /\ source[i] \in Closing =>
            Enclosing(i) # {} /\ source[Innermost(i)] \in EndedBy(source[i])
        /\ source[i] = "celse" =>
            /\ Enclosing(i) # {} /\ source[Innermost(i)] = "cif"
            /\ \A k \in 1..(i - 1) : source[k] = "celse" => Enclosing(k) # Enclosing(i)

\* The outermost style around a piece of content decides where it goes.
StylesAround(i) == {j \in Enclosing(i) : source[j] \in Styles}
OutermostStyle(i) == CHOOSE j \in StylesAround(i) : \A k \in StylesAround(i) : j <= k
InPage(i) == StylesAround(i) = {} \/ source[OutermostStyle(i)] = "cinline"

\* The tags whose loop, branch or style it belongs in: <celse> for the second branch.
Wrapping(i) ==
    {j \in Enclosing(i) :
        \/ source[j] = "cloop"
        \/ source[j] = "cif" /\ ~\E k \in j..i : source[k] = "celse" /\ Enclosing(k) = Enclosing(j) \cup {j}
        \/ source[j] = "cinline" /\ j = OutermostStyle(i)}
    \cup {k \in 1..(i - 1) : source[k] = "celse" /\ Enclosing(k) \subseteq Enclosing(i)}

\* The content of a well-nested template, closed or not at its end, is written by the
\* function its outermost style calls for, in just the loops, branches and styles that the
\* template writes it in.
NestingAsWritten ==
    WellNested =>
        \A f \in {PageFunction, CssFunction} : \A i \in DOMAIN f :
            /\ InPage(f[i].at) <=> f = PageFunction
            /\ f[i].under = Wrapping(f[i].at)
=============================================================================
