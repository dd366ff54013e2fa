------------------------------- MODULE Session -------------------------------
(***************************************************************************)
(* Signing in to the dashboard.  There are no passwords: a row of the      *)
(* select page looks its phone number up and registers it if that fails;   *)
(* the form below registers a new one.  The trader is kept by the provider *)
(* above all pages and in sessionStorage, which a reload reads.  A click   *)
(* names its attempt; the handler of an attempt goes on when its page is   *)
(* left, and ends only with the page load.                                 *)
(***************************************************************************)
EXTENDS Integers, FiniteSets

CONSTANTS
  Attempts,   \* clicks on a row or on the form's button
  Listed,     \* the phone numbers of DEMO_TRADERS
  Typed,      \* the phone numbers users type into the form
  Seeded      \* the phone numbers registered before

Nobody == "nobody"
Phones == Listed \cup Typed

ASSUME SessionAssumption == Nobody \notin Phones /\ Seeded \subseteq Phones

VARIABLES
  registered, \* phone numbers in the engine's table users
  trader,     \* the context's trader, by phone number, or Nobody
  stored,     \* what sessionStorage holds
  path,       \* "landing", "select" or "work", what the router shows
  attempt,    \* attempt |-> its phone number, its form and how far it is
  here,       \* the attempts whose component is still mounted
  rowBusy,    \* busy of TraderSelect
  adding,     \* showAdd
  creating    \* submitting of AddProfileForm

sessionVars == <<registered, trader, stored, path, attempt, here, rowBusy, adding, creating>>

-----------------------------------------------------------------------------
Goes(c, s) == attempt' = [attempt EXCEPT ![c].at = s]

Unmount == here' = {} /\ rowBusy' = Nobody /\ adding' = FALSE /\ creating' = FALSE

\* Mutant: the select page forgets to reset what it shows.
SignInStaying(p) == trader' = p /\ path' = "work" /\ UNCHANGED <<here, rowBusy, adding, creating>>

\* select: with a trader the router shows the workspace, whatever was open.
SignIn(p) == trader' = p /\ path' = "work" /\ Unmount

OnSelectPage == trader = Nobody /\ path = "select"

\* Rows stay clickable while an attempt is on its way.
EnterRow(c, p) ==
  /\ OnSelectPage /\ attempt[c].at = "idle" /\ p \in Listed
  /\ attempt' = [attempt EXCEPT ![c] = [at |-> "looking", phone |-> p, form |-> FALSE]]
  /\ here' = here \cup {c} /\ rowBusy' = p
  /\ UNCHANGED <<registered, trader, stored, path, adding, creating>>

SubmitProfile(c, p) ==
  /\ OnSelectPage /\ adding /\ ~creating /\ attempt[c].at = "idle" /\ p \in Typed
  /\ attempt' = [attempt EXCEPT ![c] = [at |-> "creating", phone |-> p, form |-> TRUE]]
  /\ here' = here \cup {c} /\ creating' = TRUE
  /\ UNCHANGED <<registered, trader, stored, path, rowBusy, adding>>

\* "Cancel" unmounts the form, but not the attempt it has made.
ToggleAdd ==
  /\ OnSelectPage /\ adding' = ~adding /\ creating' = FALSE
  /\ here' = {c \in here : ~attempt[c].form}
  /\ UNCHANGED <<registered, trader, stored, path, attempt, rowBusy>>

Browse(to) ==
  /\ trader = Nobody /\ path # to /\ path' = to /\ Unmount
  /\ UNCHANGED <<registered, trader, stored, attempt>>

-----------------------------------------------------------------------------
(* The engine.  Either answer may be lost, which the page takes for a no.  *)

LookUpServed(c) ==
  /\ attempt[c].at = "looking"
  /\ \/ attempt[c].phone \in registered /\ Goes(c, "known")
     \/ Goes(c, "unknown")
  /\ UNCHANGED <<registered, trader, stored, path, here, rowBusy, adding, creating>>

\* The phone number is UNIQUE: the user and both wallets are made, or nothing.
CreateServed(c) ==
  /\ attempt[c].at \in {"creating", "orphan"}
  /\ \E reply \in {"created", "failed"} :
       /\ reply = "created" => attempt[c].phone \notin registered
       /\ \/ registered' = registered \cup {attempt[c].phone}
          \/ reply = "failed" /\ UNCHANGED registered
       /\ Goes(c, IF attempt[c].at = "orphan" THEN "over" ELSE reply)
  /\ UNCHANGED <<trader, stored, path, here, rowBusy, adding, creating>>

-----------------------------------------------------------------------------
(* The handlers                                                            *)

\* Any failure of the look-up is followed by a registration.
LookUpAnswered(c) ==
  \/ /\ attempt[c].at = "known" /\ Goes(c, "over") /\ SignIn(attempt[c].phone)
     /\ UNCHANGED <<registered, stored>>
  \/ /\ attempt[c].at = "unknown" /\ Goes(c, "creating")
     /\ UNCHANGED <<registered, trader, stored, path, here, rowBusy, adding, creating>>

\* Mutants: a trader is signed in before the registration is answered; a
\* failure leaves the page busy.
AnsweredBeforeServed(c) ==
  /\ attempt[c].at = "creating" /\ Goes(c, "over") /\ SignIn(attempt[c].phone)
  /\ UNCHANGED <<registered, stored>>
AnsweredStillBusy(c) ==
  \/ /\ attempt[c].at = "created" /\ Goes(c, "over") /\ SignIn(attempt[c].phone)
     /\ UNCHANGED <<registered, stored>>
  \/ /\ attempt[c].at = "failed" /\ Goes(c, "over") /\ here' = here \ {c}
     /\ UNCHANGED <<registered, trader, stored, path, rowBusy, adding, creating>>

\* finally resets the flag of the component, if that is still there: busy is one
\* cell, so an attempt also resets it for another one.
CreateAnswered(c) ==
  \/ /\ attempt[c].at = "created" /\ Goes(c, "over") /\ SignIn(attempt[c].phone)
     /\ UNCHANGED <<registered, stored>>
  \/ /\ attempt[c].at = "failed" /\ Goes(c, "over") /\ here' = here \ {c}
     /\ rowBusy' = IF c \in here /\ ~attempt[c].form THEN Nobody ELSE rowBusy
     /\ creating' = (creating /\ ~(c \in here /\ attempt[c].form))
     /\ UNCHANGED <<registered, trader, stored, path, adding>>

-----------------------------------------------------------------------------
(* The session                                                             *)

\* "Switch trader": the path of a workspace page leads to the select page.
Clear ==
  /\ trader # Nobody /\ trader' = Nobody /\ path' = "select" /\ Unmount
  /\ UNCHANGED <<registered, stored, attempt>>

\* The effect that runs after the trader has changed.
Persist ==
  /\ stored # trader /\ stored' = trader
  /\ UNCHANGED <<registered, trader, path, attempt, here, rowBusy, adding, creating>>

\* A page load forgets the handlers, but not what the engine is asked already.
Forgotten(at) ==
  CASE at = "idle" -> "idle"
    [] at \in {"creating", "orphan"} -> "orphan"
    [] OTHER -> "over"

Reload ==
  /\ trader' = stored
  /\ path' = IF stored # Nobody THEN "work" ELSE IF path = "work" THEN "select" ELSE path
  /\ attempt' = [c \in Attempts |-> [attempt[c] EXCEPT !.at = Forgotten(@)]]
  /\ Unmount /\ UNCHANGED <<registered, stored>>

-----------------------------------------------------------------------------
SessionInit ==
  /\ registered = Seeded /\ trader = Nobody /\ stored = Nobody /\ path = "landing"
  /\ attempt = [c \in Attempts |-> [at |-> "idle", phone |-> Nobody, form |-> FALSE]]
  /\ here = {} /\ rowBusy = Nobody /\ adding = FALSE /\ creating = FALSE

SessionNext ==
  \/ \E c \in Attempts :
       \/ \E p \in Phones : EnterRow(c, p) \/ SubmitProfile(c, p)
       \/ LookUpServed(c) \/ CreateServed(c) \/ LookUpAnswered(c) \/ CreateAnswered(c)
  \/ \E to \in {"landing", "select"} : Browse(to)
  \/ ToggleAdd \/ Clear \/ Persist \/ Reload

SessionSpec == SessionInit /\ [][SessionNext]_sessionVars

\* The engine answers, and the event loop runs handlers and effects.
SessionFairness ==
  /\ \A c \in Attempts :
       /\ WF_sessionVars(LookUpServed(c)) /\ WF_sessionVars(CreateServed(c))
       /\ WF_sessionVars(LookUpAnswered(c)) /\ WF_sessionVars(CreateAnswered(c))
  /\ WF_sessionVars(Persist)

-----------------------------------------------------------------------------
(* Properties                                                              *)

\* Types; the flags of the select page are set only while it is there.
SessionTypeOK ==
  /\ registered \subseteq Phones /\ {trader, stored, rowBusy} \subseteq Phones \cup {Nobody}
  /\ path \in {"landing", "select", "work"} /\ here \subseteq Attempts
  /\ attempt \in [Attempts ->
       [at : {"idle", "looking", "known", "unknown", "creating", "created", "failed", "orphan", "over"},
        phone : Phones \cup {Nobody}, form : BOOLEAN]]
  /\ adding \in BOOLEAN /\ creating \in BOOLEAN
  /\ (rowBusy # Nobody \/ adding \/ here # {}) => trader = Nobody /\ path = "select"
  /\ creating => adding

\* Whoever is signed in, or comes back with a reload, is registered: the pages
\* fetch by the id that the engine gave (TraderSelect.tsx enter, AddProfileForm).
SignedInIsRegistered ==
  /\ {trader, stored} \subseteq registered \cup {Nobody}
  /\ trader # Nobody <=> path = "work"

\* The storage comes to hold the trader who is signed in, or nothing when
\* nobody is: a reload brings back nobody who has left (TraderContext.tsx).
InStep == stored = trader
StoredFollows == []<>InStep

\* However attempts overlap and fail, the page does not stay busy.
NoneEntering == rowBusy = Nobody /\ ~creating
EntryEnds == []<>NoneEntering
=============================================================================
