----------------------------- MODULE EngineClient -----------------------------
(***************************************************************************)
(* What a caller of the ledger engine stands beside: the engine's books    *)
(* and the calls and answers of LedgerService.  A module of a caller       *)
(* extends this one and adds the caller's own state.                       *)
(***************************************************************************)
EXTENDS Books

VARIABLES headers, entries, called, stage, found, answer

engineVars == <<headers, entries, called, stage, found, answer>>

INSTANCE LedgerService
=============================================================================
