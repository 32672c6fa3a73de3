--------------------------- MODULE MCGameLifecycle ---------------------------
(* Values of the constants of GameLifecycle for TLC. *)
EXTENDS GameLifecycle

CONSTANTS a, b, me, lender

\* Both games have the same file name, a short one; a's tickets are the lender's.  The user
\* has borrowed a game, whose ticket comes first.
MCExe        == [x \in Apps |-> "game"]
MCComm       == [n \in {"game"} |-> n]
MCOwner      == [x \in {a} |-> lender]
MCLegacy     == [c \in Accounts |-> IF c = me THEN NoTicket ELSE lender]
MCOwnTickets == [c \in Accounts |-> IF c = me THEN <<lender, me, NoAccount>> ELSE <<NoAccount>>]
=============================================================================
