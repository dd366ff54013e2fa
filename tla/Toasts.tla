-------------------------------- MODULE Toasts --------------------------------
(***************************************************************************)
(* The notifications of the dashboard.  Every toast gets the next id and a *)
(* timer; the timer, the toast's button or the Escape key removes it.      *)
(***************************************************************************)
EXTENDS Integers, Sequences, FiniteSets

CONSTANT MaxToasts   \* pushed in a behaviour

ASSUME ToastsAssumption == MaxToasts \in Nat

Tones == {"success", "error", "info"}

VARIABLES
  nextId,
  toasts,  \* the stack: ids, which grow from its bottom to its top, and tones
  timers,  \* ids whose timer is running, in the order they were started
  closed   \* history: the ids that the user has removed

toastVars == <<nextId, toasts, timers, closed>>

Shows(id) == \E t \in toasts : t.id = id

Without(id) == {t \in toasts : t.id # id}

-----------------------------------------------------------------------------
\* Mutant: the id is the toast's place in the stack.
PushByPlace(tone) ==
  /\ nextId <= MaxToasts /\ nextId' = nextId + 1
  /\ toasts' = toasts \cup {[id |-> Cardinality(toasts) + 1, tone |-> tone]}
  /\ timers' = Append(timers, Cardinality(toasts) + 1) /\ UNCHANGED closed

Push(tone) ==
  /\ nextId <= MaxToasts /\ nextId' = nextId + 1
  /\ toasts' = toasts \cup {[id |-> nextId, tone |-> tone]}
  /\ timers' = Append(timers, nextId) /\ UNCHANGED closed

\* All timers run for DEFAULT_DURATION, so the first one started ends first.
TimerFires ==
  /\ timers # <<>> /\ timers' = Tail(timers) /\ toasts' = Without(Head(timers))
  /\ UNCHANGED <<nextId, closed>>

\* The toast's timer goes on.
Dismiss(id) ==
  /\ Shows(id) /\ toasts' = Without(id) /\ closed' = closed \cup {id}
  /\ UNCHANGED <<nextId, timers>>

Escape ==
  /\ toasts # {} /\ toasts' = {}
  /\ closed' = closed \cup {t.id : t \in toasts}
  /\ UNCHANGED <<nextId, timers>>

-----------------------------------------------------------------------------
ToastInit == nextId = 1 /\ toasts = {} /\ timers = <<>> /\ closed = {}

ToastNext ==
  (\E tone \in Tones : Push(tone)) \/ TimerFires \/ Escape \/ (\E id \in 1..MaxToasts : Dismiss(id))

ToastSpec == ToastInit /\ [][ToastNext]_toastVars

ToastFairness == WF_toastVars(TimerFires)

-----------------------------------------------------------------------------
(* Properties                                                              *)

\* A toast whose timer is running is shown, unless the user has closed it: a timer
\* outlives its toast, and must take no other one.  And all but the errors leave
\* when their timers end (ToastProvider.tsx push and dismiss).
TimerTakesItsOwn ==
  /\ \A i \in DOMAIN timers : Shows(timers[i]) \/ timers[i] \in closed
  /\ \A t \in toasts : t.tone # "error" => \E i \in DOMAIN timers : timers[i] = t.id

\* "keep those until closed" (ToastProvider.tsx:55): an error goes away only when
\* the user closes it.  The code sets a timer for every tone.
ErrorsStayUntilClosed ==
  [][\A t \in toasts : t.tone = "error" => t \in toasts' \/ t.id \in closed']_toastVars

\* Every other toast goes away by itself.
OnlyErrorsLeft == \A t \in toasts : t.tone = "error"
ToastsPass == []<>OnlyErrorsLeft
=============================================================================
