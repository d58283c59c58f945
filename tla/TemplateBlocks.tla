--------------------------- MODULE TemplateBlocks ---------------------------
(***************************************************************************)
(* tornado.template: the named blocks of a template and of those that it   *)
(* extends.  find_named_blocks walks the base template first and the most  *)
(* derived one last, included files where they are included, and keeps the *)
(* last block of each name; a block then writes the body that is kept      *)
(* under its name, in which there may be blocks again.                     *)
(***************************************************************************)
EXTENDS Integers, Sequences, SequencesExt

CONSTANTS
    Names,         \* names of blocks
    MaxBlocks,     \* bound: blocks of all templates
    MaxTemplates   \* bound: templates that extend one another

VARIABLES
    blocks,        \* the blocks found, in the order of the walk: name and parent
    inside,        \* the blocks that the walk is in, outermost first
    named,         \* named_blocks: the block kept for each name, or 0
    template       \* the template that is walked; 1 is the base

blockVars == <<blocks, inside, named, template>>

BlocksInit ==
    /\ blocks = <<>> /\ inside = <<>> /\ template = 1
    /\ named = [n \in Names |-> 0]

Parent == IF inside = <<>> THEN 0 ELSE inside[Len(inside)]

\* The mutated form of Left: a block is kept again at its end.
AtItsEnd(b) == [named EXCEPT ![blocks[b].name] = b]
Entered(n, b) == [named EXCEPT ![n] = b]
Left(b) == named

Enter(n) ==
    /\ Len(blocks) < MaxBlocks
    /\ blocks' = Append(blocks, [name |-> n, parent |-> Parent])
    /\ named' = Entered(n, Len(blocks) + 1)
    /\ inside' = Append(inside, Len(blocks) + 1)
    /\ UNCHANGED template

Leave ==
    /\ inside # <<>>
    /\ named' = Left(Parent)
    /\ inside' = Front(inside)
    /\ UNCHANGED <<blocks, template>>

NextTemplate ==
    /\ inside = <<>> /\ template < MaxTemplates
    /\ template' = template + 1
    /\ UNCHANGED <<blocks, inside, named>>

BlocksNext == (\E n \in Names : Enter(n)) \/ Leave \/ NextTemplate

BlocksSpec == BlocksInit /\ [][BlocksNext]_blockVars
-----------------------------------------------------------------------------
\* The body kept for n has a block m in it: writing n goes on to write m.
Writes(n, m) ==
    \E b \in DOMAIN blocks : named[n] # 0 /\ blocks[b].parent = named[n] /\ blocks[b].name = m

\* Writing a template ends: blocks that override each other across templates, in bodies
\* of one another, never write each other in a circle, since the body kept for a name
\* can only lead to one that was found later.
WritingEnds == \A n, m \in Names : Writes(n, m) => named[n] < named[m]
=============================================================================
