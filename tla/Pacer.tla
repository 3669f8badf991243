------------------------------- MODULE Pacer -------------------------------
(***************************************************************************)
(* OllamaPacer (bin/run_daemon.py): the daemon asks it before every cycle  *)
(* and is put to sleep when the cycles of a session or of a week are used  *)
(* up.  Time is counted in hours.  There are two clocks: time.time, which  *)
(* the windows are first started on and the database stamps rows with, and *)
(* time.monotonic, which they are compared and restarted with; skew is the *)
(* distance between them (the epoch's age minus the machine's uptime).     *)
(* A limit of 0 turns it off.                                              *)
(***************************************************************************)
EXTENDS Integers, Sequences, FiniteSets

CONSTANTS
    Session, Week,               \* lengths of the windows
    SessionCycles, WeeklyCycles, \* OLLAMA_CLOUD_SESSION_CYCLES, _WEEKLY_CYCLES
    Skews,                       \* what time.time() - time.monotonic() may be
    MaxPerHour,                  \* bound: attempts stored in an hour
    Horizon                      \* bound: hours the clock runs for

ASSUME PacerAssumption ==
    /\ Session \in Nat \ {0} /\ Week \in Nat \ {0} /\ Session <= Week
    /\ SessionCycles \in Nat /\ WeeklyCycles \in Nat
    /\ Skews \subseteq Nat /\ MaxPerHour \in Nat /\ Horizon \in Nat

VARIABLES
    now,                        \* time.monotonic()
    skew,                       \* time.time() - now
    loop,                         \* "top" of a cycle, "week" or "session" (asleep), "run"
    sessionStart, sessionCount, \* _session_start, _session_count
    weekStart, weekCount,       \* _week_start, _week_count
    wake,                       \* when time.sleep returns
    attempts,                   \* raw.attempts: the hour of run_ts, in that order
    last,                       \* the last row of the cycle that runs, or 0
    recorded                    \* history: the last rows of the cycles record() counted

counters == <<sessionStart, sessionCount, weekStart, weekCount>>
rows == <<attempts, last, recorded>>
pacerVars == <<now, skew, loop, counters, wake, rows>>

Hours   == 0..Horizon
Enabled == SessionCycles > 0 \/ WeeklyCycles > 0

\* How many of the rows S are of the last w hours.
LastHours(S, w) == Cardinality({k \in S : attempts[k] > now - w})

PacerOK ==
    /\ now \in Hours /\ skew \in Skews
    /\ loop \in {"top", "week", "session", "run"}
    /\ sessionStart \in Int /\ sessionCount \in Nat
    /\ weekStart \in Int /\ weekCount \in Nat
    /\ wake \in Nat
    /\ attempts \in Seq(Hours)
    /\ last \in {0} \cup DOMAIN attempts
    /\ recorded \subseteq DOMAIN attempts

PacerInit ==
    /\ now = 0 /\ skew \in Skews /\ loop = "top" /\ wake = 0
    /\ sessionStart = now + skew /\ sessionCount = 0
    /\ weekStart = now + skew /\ weekCount = 0
    /\ attempts = <<>> /\ last = 0 /\ recorded = {}

\* Mutant of Rolled: the counter is reset, the window is not.
RolledInPlace(start, count, length) ==
    IF now - start >= length THEN <<start, 0>> ELSE <<start, count>>

\* A window that has run out starts again, on the monotonic clock.
Rolled(start, count, length) ==
    IF now - start >= length THEN <<now, 0>> ELSE <<start, count>>

Later(n) == IF n > 0 THEN now + n ELSE now   \* time.sleep(max(wait, 0))

\* acquire up to its first sleep, if any.
Acquire ==
    LET week == Rolled(weekStart, weekCount, Week)
        session == Rolled(sessionStart, sessionCount, Session)
    IN  /\ loop = "top" /\ Enabled
        /\ weekStart' = week[1] /\ weekCount' = week[2]
        /\ sessionStart' = session[1] /\ sessionCount' = session[2]
        /\ \/ /\ WeeklyCycles > 0 /\ week[2] >= WeeklyCycles
              /\ loop' = "week"
              /\ wake' = Later(Week - (now - week[1]))
           \/ /\ ~(WeeklyCycles > 0 /\ week[2] >= WeeklyCycles)
              /\ IF SessionCycles > 0 /\ session[2] >= SessionCycles
                 THEN loop' = "session" /\ wake' = Later(Session - (now - session[1]))
                 ELSE loop' = "run" /\ UNCHANGED wake
        /\ UNCHANGED <<now, skew, rows>>

\* The weekly sleep is over; the session may still be used up.
WakeWeek ==
    /\ loop = "week" /\ now >= wake
    /\ weekStart' = now /\ weekCount' = 0
    /\ IF SessionCycles > 0 /\ sessionCount >= SessionCycles
       THEN loop' = "session" /\ wake' = Later(Session - (now - sessionStart))
       ELSE loop' = "run" /\ UNCHANGED wake
    /\ UNCHANGED <<now, skew, sessionStart, sessionCount, rows>>

WakeSession ==
    /\ loop = "session" /\ now >= wake
    /\ sessionStart' = now /\ sessionCount' = 0
    /\ loop' = "run"
    /\ UNCHANGED <<now, skew, weekStart, weekCount, wake, rows>>

\* An attempt is stored, by the run of this cycle or by one the daemon no longer
\* waits for.
Store(mine) ==
    /\ mine => loop = "run"
    /\ LastHours(DOMAIN attempts, 1) < MaxPerHour
    /\ attempts' = Append(attempts, now)
    /\ last' = IF mine THEN Len(attempts) + 1 ELSE last
    /\ UNCHANGED <<now, skew, loop, counters, wake, recorded>>

\* The run is over: record() is for successes only.
Succeed ==
    /\ loop = "run" /\ loop' = "top"
    /\ sessionCount' = sessionCount + 1 /\ weekCount' = weekCount + 1
    /\ recorded' = recorded \cup ({last} \ {0})
    /\ last' = 0
    /\ UNCHANGED <<now, skew, sessionStart, weekStart, wake, attempts>>

Fail ==
    /\ loop = "run" /\ loop' = "top"
    /\ last' = 0
    /\ UNCHANGED <<now, skew, counters, wake, attempts, recorded>>

Tick ==
    /\ now < Horizon /\ now' = now + 1
    /\ UNCHANGED <<skew, loop, counters, wake, rows>>

\* Mutant of Restart: restore_from_db is not called.
RestartAfresh ==
    /\ loop' = "top" /\ wake' = 0 /\ last' = 0
    /\ sessionStart' = now + skew /\ weekStart' = now + skew
    /\ sessionCount' = 0 /\ weekCount' = 0
    /\ UNCHANGED <<now, skew, attempts, recorded>>

\* A new process: fresh windows, counters from the rows of the last hours.
Restart ==
    /\ loop' = "top" /\ wake' = 0 /\ last' = 0
    /\ sessionStart' = now + skew /\ weekStart' = now + skew
    /\ sessionCount' = LastHours(DOMAIN attempts, Session + 1)
    /\ weekCount' = LastHours(DOMAIN attempts, Week + 1)
    /\ UNCHANGED <<now, skew, attempts, recorded>>

PacerNext ==
    \/ Acquire \/ WakeWeek \/ WakeSession \/ Tick \/ Restart
    \/ Succeed \/ Fail \/ \E mine \in BOOLEAN : Store(mine)

PacerSpec == PacerInit /\ [][PacerNext]_pacerVars

-----------------------------------------------------------------------------
FarApart == skew > Horizon   \* the machine is up for less than the epoch's age

\* In no period of the length of a window do more recorded cycles run (dated by
\* their last attempts) than the limit allows, restarts of the daemon included: their windows start over,
\* but the counters are restored from the attempts the cycles stored.  It takes
\* the two clocks to be apart: then the first windows of a process end with
\* the sleep they impose, and never by themselves.
WithinLimits ==
    FarApart =>
        /\ SessionCycles > 0 => LastHours(recorded, Session) <= SessionCycles
        /\ WeeklyCycles > 0 => LastHours(recorded, Week) <= WeeklyCycles

\* The windows are fixed, not sliding: on one clock a period of a window's
\* length may see the end of one window and the start of the next, and so
\* twice the limit, but never more, restarts of the daemon included.
WithinTwiceTheLimits ==
    /\ SessionCycles > 0 => LastHours(recorded, Session) <= 2 * SessionCycles
    /\ WeeklyCycles > 0 => LastHours(recorded, Week) <= 2 * WeeklyCycles
=============================================================================
