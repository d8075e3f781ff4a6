------------------------------ MODULE DbcUncles ------------------------------
(***************************************************************************)
(* Uncle rules (node/uncles.rs), as operators on the pieces of the chain   *)
(* database they read: the stored blocks and the height index.             *)
(***************************************************************************)
EXTENDS DbcBlocks

CONSTANTS
    Lookback,      \* UNCLE_LOOKBACK_BLOCKS
    MaxUncles      \* MAX_UNCLES_PER_BLOCK

ASSUME UncleAssumption ==
    /\ Lookback \in Nat
    /\ MaxUncles \in Nat

-----------------------------------------------------------------------------

\* Mutant: the window stops one height short of the nephew's parent.
InShorterWindow(index, nephewHeight, u) ==
    \E h \in Heights :
        /\ h >= nephewHeight - Lookback
        /\ h < nephewHeight - 1
        /\ index[h] # NoBlock
        /\ u \in Uncles(index[h])

\* uncle_in_recent_window: u is an uncle of an indexed block at one of the
\* Lookback heights below the nephew's.
InRecentWindow(index, nephewHeight, u) ==
    \E h \in Heights :
        /\ h >= nephewHeight - Lookback
        /\ h < nephewHeight
        /\ index[h] # NoBlock
        /\ u \in Uncles(index[h])

\* is_canonical: u is the indexed block at its own height.
IsCanonical(index, u) == index[Body[u].height] = u

\* The checks validate_uncles makes of one uncle header.
ValidUncle(blocks, index, nephewHeight, u) ==
    /\ Body[u].height < nephewHeight
    /\ Body[u].height >= nephewHeight - Lookback
    /\ Body[u].prev \in blocks
    /\ ~IsCanonical(index, u)
    /\ ~InRecentWindow(index, nephewHeight, u)

\* validate_uncles.
ValidUncles(blocks, index, b) ==
    /\ Len(Body[b].uncles) <= MaxUncles
    /\ IsInjective(Body[b].uncles)
    /\ \A u \in Uncles(b) : ValidUncle(blocks, index, Body[b].height, u)
=============================================================================
