------------------------------ MODULE MCPayments ------------------------------
(* The engine with the clients of one country, or of two.                  *)
EXTENDS MCLedger

\* The clients of a behaviour pay within the country or across the border.
VARIABLE menu

AnyMenu == {DomesticCalls, BorderCalls}
MenuCalls == UNION AnyMenu

MenuSpec ==
  /\ menu \in AnyMenu /\ Init
  /\ [][Next /\ (\A r \in Requests : call'[r] \in menu \cup {None}) /\ UNCHANGED menu]_<<vars, menu>>
=============================================================================
