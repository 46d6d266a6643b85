--------------------------- MODULE MCBoardDialogs ---------------------------
EXTENDS BoardDialogs

MCTyped == {"Ann", "bob"}
MCLower == [Ann |-> "ann", ann |-> "ann", bob |-> "bob"]
=============================================================================
