----------------------------- MODULE TickClock ------------------------------
(***************************************************************************)
(* The clock of the main loop (start_server, l.1025-1063) and the keep-    *)
(* alives of the demo's tick_callback.  A pass of the loop waits in        *)
(* select() until a descriptor is ready or the timeout ends the wait,      *)
(* calls the tick callback if it is due, and serves what is ready.  Time   *)
(* counts in units of which target_ns is a multiple, and is kept relative  *)
(* to the last tick and the last keep-alive.                               *)
(***************************************************************************)
EXTENDS Integers

CONSTANTS
  target,      \* target_ns: a tick is due when that much time has passed
  timeout,     \* the timeout of select()
  MaxTick,     \* bound: the time a tick callback takes
  MaxServe,    \* bound: the time serving the ready descriptors takes
  KEEP_ALIVE,  \* ticks between two keep-alives (400 in the demo)
  MaxInt       \* INT_MAX: total_ticks is an int

\* Where total_ticks wraps from MaxInt to -MaxInt - 1, two multiples of
\* KEEP_ALIVE are closer than elsewhere (96 ticks for 400 and 32 bits).
ASSUME ClockAssumption ==
  /\ target \in Nat \ {0} /\ timeout \in Nat
  /\ MaxTick \in Nat /\ MaxServe \in Nat
  /\ KEEP_ALIVE \in Nat \ {0} /\ MaxInt \in Nat
  /\ (MaxInt % KEEP_ALIVE) + 1 + ((MaxInt + 1) % KEEP_ALIVE) <= KEEP_ALIVE

VARIABLES
  pc,          \* "select", "check" (select() has returned) or "serve"
  ready,       \* select() returned descriptors
  elapsed,     \* time since start_time
  total_ticks,
  since_alive  \* history: time since a keep-alive was due
vars == <<pc, ready, elapsed, total_ticks, since_alive>>

\* The longest that start_time is ever behind, and that two ticks are apart.
MaxElapsed == target - 1 + MaxServe + timeout
MaxApart == MaxElapsed + MaxTick

TypeOK == /\ pc \in {"select", "check", "serve"}
          /\ ready \in BOOLEAN
          /\ elapsed \in 0 .. MaxElapsed
          /\ total_ticks \in -MaxInt - 1 .. MaxInt
          /\ since_alive \in Nat

Init == /\ pc = "select"
        /\ ready = FALSE
        /\ elapsed = 0
        /\ total_ticks = 0
        /\ since_alive = 0

-----------------------------------------------------------------------------
\* select() comes back early only with a ready descriptor.
Select ==
  /\ pc = "select"
  /\ \E wait \in 0 .. timeout :
       /\ elapsed' = elapsed + wait
       /\ since_alive' = since_alive + wait
       /\ ready' \in IF wait < timeout THEN {TRUE} ELSE BOOLEAN
  /\ pc' = "check"
  /\ UNCHANGED total_ticks

\* Faulty variant: the counter is compared with the period.
KeepAliveDue_Once == total_ticks = KEEP_ALIVE
KeepAliveDue == total_ticks % KEEP_ALIVE = 0

\* The int wraps as the processor's addition does.
NextTick == IF total_ticks = MaxInt THEN -MaxInt - 1 ELSE total_ticks + 1

AfterCheck == IF ready THEN "serve" ELSE "select"

\* Faulty variant: start_time is not reset after the callback.
Tick_NoReset ==
  /\ pc = "check"
  /\ elapsed >= target
  /\ elapsed' = elapsed
  /\ since_alive' = IF KeepAliveDue THEN 0 ELSE since_alive
  /\ total_ticks' = NextTick
  /\ pc' = AfterCheck
  /\ UNCHANGED ready

\* The tick callback takes its time, and start_time is read again after it.
Tick ==
  /\ pc = "check"
  /\ elapsed >= target
  /\ elapsed' = 0
  /\ \E cost \in 0 .. MaxTick :
       since_alive' = cost + (IF KeepAliveDue THEN 0 ELSE since_alive)
  /\ total_ticks' = NextTick
  /\ pc' = AfterCheck
  /\ UNCHANGED ready

NoTick ==
  /\ pc = "check"
  /\ elapsed < target
  /\ pc' = AfterCheck
  /\ UNCHANGED <<ready, elapsed, total_ticks, since_alive>>

Serve ==
  /\ pc = "serve"
  /\ \E cost \in 0 .. MaxServe : /\ elapsed' = elapsed + cost
                                 /\ since_alive' = since_alive + cost
  /\ pc' = "select"
  /\ UNCHANGED <<ready, total_ticks>>

Next == Select \/ Tick \/ NoTick \/ Serve
Spec == Init /\ [][Next]_vars

-----------------------------------------------------------------------------
(* Properties.                                                             *)

\* However the traffic keeps the loop busy, and where the counter wraps too,
\* a keep-alive is due within KEEP_ALIVE times the longest that two ticks
\* can be apart: the clients' own timeout has that much to fear, not more.
KeepAliveOnTime == since_alive <= KEEP_ALIVE * MaxApart
=============================================================================
