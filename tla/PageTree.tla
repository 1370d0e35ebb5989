------------------------------ MODULE PageTree ------------------------------
(***************************************************************************)
(* The tree builder as a part of what is made of a page                    *)
(* (tree_builder_stage.rs): what it reads, what it keeps, and what holds   *)
(* of its tree and its open elements whatever the handlers give it.        *)
(***************************************************************************)
VARIABLES
    stream,         \* the tokens still to be read
    builder, text_buffer, in_transclusion, table_depth

tree_vars == <<builder, text_buffer, in_transclusion, table_depth>>

Tree == INSTANCE Html5TreeBuilder

-----------------------------------------------------------------------------
\* What is open is open in the tree too, whatever was moved, cloned, fostered or
\* left: each element of the stack is a child of the one below it, or was put
\* before the table it could not be in (adoption_agency, appropriate_place).
StackMirrorsTree == Tree!StackMirrorsTree

\* However a table and its parts are cut off by tags, the mode is the one that
\* the open elements call for (switch_mode, restore_mode, appropriate_mode).
ModeFitsStack == Tree!ModeFitsStack

\* Formatting is active once for each of its tags however often it is opened
\* again, and never from outside of a cell or into what comes after it
\* (reconstruct_afe, insert_marker, clear_to_marker).
ReopenedOnce == Tree!ReopenedOnce

\* There is always an element below a formatting element (adoption_agency).
ElementBelowFormatting == Tree!ElementBelowFormatting
=============================================================================
