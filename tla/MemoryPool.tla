------------------------------ MODULE MemoryPool ------------------------------
(***************************************************************************)
(* What the context models of Ppmd7.c and Ppmd8.c expect: blocks that one  *)
(* holds do not overlap, whatever it allocates, shrinks and gives back,    *)
(* and the text that grows from below does not run into them.  Nothing is  *)
(* said of how free memory is kept.                                        *)
(***************************************************************************)
EXTENDS Integers

CONSTANTS
    Addresses,    \* offsets from Base
    BlockSizes,   \* in units
    UnitSize,
    Root,         \* the blocks a new model begins with
    Bottom        \* where its text begins

VARIABLES
    held,     \* the blocks in use, records [at, nu]
    text      \* the first address behind the text

vars == <<held, text>>

End(b) == b.at + b.nu * UnitSize

Apart(b, c) == End(b) <= c.at \/ End(c) <= b.at

Fits(b, others) ==
    /\ text <= b.at
    /\ \A c \in others : Apart(b, c)

Blocks == [at : Addresses, nu : BlockSizes]

Init ==
    /\ held = Root
    /\ text = Bottom

\* The blocks a step adds and drops.
New == held' \ held
Old == held \ held'

Take ==
    /\ held \subseteq held'
    /\ \E b \in New : New = {b} /\ b \in Blocks /\ Fits(b, held)
    /\ UNCHANGED text

\* The new block may be the front of the old one, or lie apart from it: the
\* contents are copied before the old block is given back.
Replace ==
    /\ \E b \in New, old \in Old :
        /\ New = {b} /\ Old = {old} /\ b \in Blocks
        /\ Fits(b, held \ {old})
        /\ \/ b.at = old.at /\ b.nu <= old.nu
           \/ Apart(b, old)
    /\ UNCHANGED text

\* A context may go together with its states.
Give ==
    /\ held' \subseteq held
    /\ UNCHANGED text

\* One byte is written at `text`, the last one is taken back, or all of them.
MoveText ==
    /\ text' \in {text - 1, text + 1, Bottom}
    /\ \A b \in held : text' <= b.at
    /\ UNCHANGED held

\* The model is begun anew.
Reset ==
    /\ held' = Root
    /\ text' = Bottom

Next ==
    \/ Take \/ Replace \/ Give
    \/ MoveText
    \/ Reset

Spec == Init /\ [][Next]_vars
===============================================================================
