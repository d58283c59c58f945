--------------------------- MODULE TemplateParser ---------------------------
(***************************************************************************)
(* tornado.template: _parse and the code the parsed nodes write.           *)
(*                                                                         *)
(* The template is any sequence of directives.  The nested calls of _parse *)
(* are a stack of the blocks that are open; a node's lines are written in  *)
(* the order of the directives, at the indentation of the code writer.     *)
(* Blocks that replace each other are left to module TemplateBlocks.       *)
(***************************************************************************)
EXTENDS Integers, Sequences, SequencesExt

CONSTANT MaxDirectives    \* bound: directives of the template

VARIABLE parser

Control == {"if", "for", "while", "try"}
\* The blocks to which an intermediate directive can be attached.
Parents ==
    [else |-> {"if", "for", "while", "try"}, elif |-> {"if"},
     except |-> {"try"}, finally |-> {"try"}]

\* A line of code: the statement it opens or continues; the directive it continues it
\* with; its indentation; and the line under which the template has it.
Line(op, joins, indent, under) ==
    [op |-> op, joins |-> joins, indent |-> indent, under |-> under]
Plain == "plain"

\* The function _execute of the template, with its first lines.
ParserInit ==
    parser = [state |-> "parsing", read |-> 0, open |-> <<>>,
              lines |-> <<Line("def", "none", 0, 0), Line(Plain, "none", 1, 1)>>]

-----------------------------------------------------------------------------
\* An open block has the indentation of the lines in it and the line they stand under:
\* its own, or, for a named block, which is no statement, the one around it.
Block(op, line, indent) == [op |-> op, line |-> line, indent |-> indent]
Innermost(open) == IF open = <<>> THEN Block("none", 1, 1) ELSE Last(open)
InBlock == Innermost(parser.open).op
Here == Innermost(parser.open).line
Indent == Innermost(parser.open).indent

Directive == parser.state = "parsing" /\ parser.read < MaxDirectives
Parsed(open, lines) ==
    parser' = [parser EXCEPT !.read = @ + 1, !.open = open, !.lines = @ \o lines]
ParseError == parser' = [parser EXCEPT !.state = "error", !.read = @ + 1]

\* The lines of a text, an expression, a statement or a module stand together where the
\* writer is: they are one line here.
PlainLine == Line(Plain, "none", Indent, Here)

\* Text, an escaped brace, an expression, import, from, set, include, module or raw.
Chunk == Directive /\ Parsed(parser.open, <<PlainLine>>)

\* A comment, autoescape or extends writes nothing.
Silent == Directive /\ Parsed(parser.open, <<>>)

\* A tag without its end, without contents or with an unknown operator.
Malformed == Directive /\ ParseError

\* The mutated form of Attached: some block around the directive allows it.
AttachedSomewhere(joins) == \E i \in DOMAIN parser.open : parser.open[i].op \in Parents[joins]
Attached(joins) == InBlock \in Parents[joins]

Outdent(n) == n - 1

\* else, elif, except and finally continue the innermost block.
Intermediate(joins) ==
    /\ Directive
    /\ \/ /\ Attached(joins)
          /\ Parsed([parser.open EXCEPT ![Len(parser.open)].line = Len(parser.lines) + 1],
                    <<Line(InBlock, joins, Outdent(Indent), Here)>>)
       \/ ~Attached(joins) /\ ParseError

NamedBlock == Directive /\ Parsed(Append(parser.open, Block("block", Here, Indent)), <<>>)

\* A control block opens a statement, apply a function with a buffer of its own.
OpenBlock(op) ==
    LET line == Line(op, "none", Indent, Here)
        at == Len(parser.lines) + 1
    IN  /\ Directive
        /\ Parsed(Append(parser.open, Block(op, at, Indent + 1)),
                  IF op = "apply" THEN <<line, Line(Plain, "none", Indent + 1, at)>> ELSE <<line>>)

\* The function of an apply returns, and its result is appended outside of it.
EndBlock ==
    /\ Directive
    /\ \/ parser.open = <<>> /\ ParseError
       \/ /\ parser.open # <<>>
          /\ LET outer == Front(parser.open)
                 around == Innermost(outer)
             IN  Parsed(outer,
                        IF InBlock = "apply"
                        THEN <<PlainLine, Line(Plain, "none", around.indent, around.line)>>
                        ELSE <<>>)

EndOfFile ==
    /\ parser.state = "parsing"
    /\ parser' = IF parser.open # <<>> THEN [parser EXCEPT !.state = "error"]
                 ELSE [parser EXCEPT !.state = "parsed", !.lines = Append(@, Line(Plain, "none", 1, 1))]

ParserNext ==
    \/ Chunk \/ Silent \/ Malformed \/ NamedBlock \/ EndBlock \/ EndOfFile
    \/ \E joins \in DOMAIN Parents : Intermediate(joins)
    \/ \E op \in Control \cup {"apply"} : OpenBlock(op)

ParserSpec == ParserInit /\ [][ParserNext]_parser
-----------------------------------------------------------------------------
\* Where Python puts a line that begins a statement: under the last line that is
\* indented less; a clause goes to the last line that is not indented more.
Lines == parser.lines
LastOf(set) == CHOOSE j \in set : \A k \in set : k <= j
UnderByIndent(i) ==
    LET joined == Lines[i].joins # "none"
    IN  LastOf({j \in 1 .. i - 1 : \/ Lines[j].indent < Lines[i].indent
                                   \/ joined /\ Lines[j].indent = Lines[i].indent})

\* The code does what the template says: by its indentation, which is all that Python
\* sees of the nesting, each line belongs to the block or clause in which its directive
\* stands, and each clause continues a statement that has such a clause, however
\* applied, named and control blocks are nested.
NestedAsWritten ==
    \A i \in 2 .. Len(Lines) :
        /\ UnderByIndent(i) = Lines[i].under
        /\ Lines[i].joins # "none" =>
              /\ Lines[Lines[i].under].op \in Parents[Lines[i].joins]
              /\ Lines[Lines[i].under].indent = Lines[i].indent
=============================================================================
