-------------------------------- MODULE MCPages --------------------------------
(* The pages that show what the engine has: the invoices page with its     *)
(* card, and a page with its event stream.  A behaviour opens one of them. *)
EXTENDS MCPayCard, LiveView

VARIABLE page

cardPageVars == <<engineVars, cardVars>>
pagesVars == <<page, cardPageVars, liveVars>>

PagesInit ==
  /\ page \in {"card", "live"} /\ CardInit /\ LiveInit
  /\ page = "card" => fetches = {}

PagesNext ==
  \/ page = "card" /\ (CardStep \/ Elsewhere) /\ UNCHANGED <<page, liveVars>>
  \/ page = "live" /\ LiveNext /\ UNCHANGED <<page, cardPageVars>>

\* In the initial state of the page that is not opened no fair action is enabled.
PagesSpec == PagesInit /\ [][PagesNext]_pagesVars /\ CardFairness /\ LiveFairness
=============================================================================
