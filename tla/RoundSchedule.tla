--------------------------- MODULE RoundSchedule ---------------------------
(***************************************************************************)
(* Who may run a round, and when: the scheduler's tick, the triggers of    *)
(* the admin API, PostgreSQL advisory lock 99001 and the persisted         *)
(* schedule, with shutdown, kill and restart of the service.               *)
(*                                                                         *)
(* The lock belongs to a database session that is idle while a thread does *)
(* the work through connections of its own.  A round, an override or a     *)
(* publication pass is one unit of work here; ScoringRounds has its steps. *)
(* The deployment replaces the service in place: a new process starts only *)
(* after the old one has exited.                                           *)
(***************************************************************************)
EXTENDS Integers

CONSTANTS
    Cadence,      \* settings.scoring_cadence_hours
    Horizon,      \* bound on the clock
    MaxTriggers,  \* bound on accepted API requests
    MaxStops,     \* bound on shutdowns and kills
    MaxLosses     \* bound on lock sessions the database drops

ASSUME ScheduleAssumption ==
    /\ Cadence \in Nat \ {0}
    /\ Horizon \in Nat
    /\ MaxTriggers \in Nat
    /\ MaxStops \in Nat
    /\ MaxLosses \in Nat

Never == -1    \* no row, or no such moment yet

VARIABLES
    now,          \* the clock
    nextDue,      \* round_schedule.next_due_at, Never without a row
    newest,       \* COALESCE(completed_at, started_at) of the newest normal round
    owner,        \* the session that holds the lock: "none", "tick" or "api"
    service,      \* "up", "stopping" (lifespan shutdown) or "down"
    tick,         \* where the scheduler's coroutine is, "gone" if it has ended
    job,          \* what the tick's worker thread runs: "none", "publish", "round"
    api,          \* the API request and its background thread
    apiKind,      \* "normal" round, or "other": an override or a dry run
    \* history and bounds
    scheduled,    \* scheduled rounds started
    consumed,     \* times the schedule was advanced
    lastAdvance,  \* when it was last advanced
    anchor,       \* when it was last reanchored
    triggers, stops, kills, losses

scheduleVars == <<nextDue, newest>>
tickVars == <<tick, job>>
apiVars == <<api, apiKind>>
historyVars == <<scheduled, consumed, lastAdvance, anchor>>
boundVars == <<triggers, stops, kills, losses>>

vars == <<now, scheduleVars, owner, service, tickVars, apiVars, historyVars, boundVars>>

Moments == Nat \union {Never}

Ticks == {"asleep", "publish", "check", "advance", "start", "round", "unlock", "gone"}

TypeOK ==
    /\ now \in Nat
    /\ nextDue \in Moments
    /\ newest \in Moments
    /\ owner \in {"none", "tick", "api"}
    /\ service \in {"up", "stopping", "down"}
    /\ tick \in Ticks
    /\ job \in {"none", "publish", "round"}
    /\ api \in {"none", "reanchor", "start", "running"}
    /\ apiKind \in {"normal", "other"}
    /\ scheduled \in Nat
    /\ consumed \in Nat
    /\ lastAdvance \in Moments
    /\ anchor \in Moments
    /\ triggers \in Nat /\ stops \in Nat /\ kills \in Nat /\ losses \in Nat

\* A fresh database, or one from before the schedule table with a past round.
Init ==
    /\ now = 0
    /\ nextDue = Never
    /\ newest \in {Never, 0}
    /\ owner = "none"
    /\ service = "up"
    /\ tick = "asleep" /\ job = "none"
    /\ api = "none" /\ apiKind = "other"
    /\ scheduled = 0 /\ consumed = 0 /\ lastAdvance = Never /\ anchor = Never
    /\ triggers = 0 /\ stops = 0 /\ kills = 0 /\ losses = 0

-----------------------------------------------------------------------------
(* Helpers. *)

Release(session) == owner' = IF owner = session THEN "none" ELSE owner

\* Work on normal rounds may create the newest row or set its completed_at.
TouchNewest == newest' \in {newest, now}

\* The coroutine goes on if it still awaits the thread.
Resume(from, to) == tick' = IF tick = from THEN to ELSE tick

SeededDue ==
    CASE nextDue # Never -> nextDue
      [] nextDue = Never /\ newest = Never -> now
      [] nextDue = Never /\ newest # Never -> newest + Cadence

-----------------------------------------------------------------------------
(* The scheduler's tick.                                                   *)

\* Lock 99001 is free: take it and publish the due rounds in a thread.
BeginTick ==
    /\ tick = "asleep"
    /\ owner = "none"
    /\ owner' = "tick"
    /\ tick' = "publish"
    /\ job' = "publish"
    /\ UNCHANGED <<now, scheduleVars, service, apiVars, historyVars, boundVars>>

\* Another round is in progress: skip to the next check.
SkipTick ==
    /\ tick = "asleep"
    /\ owner # "none"
    /\ UNCHANGED vars

PublicationReturns ==
    /\ job = "publish"
    /\ job' = "none"
    /\ Resume("publish", "check")
    /\ \/ newest = Never /\ UNCHANGED newest
       \/ newest # Never /\ TouchNewest
    /\ UNCHANGED <<now, nextDue, owner, service, apiVars, historyVars, boundVars>>

\* An exception of the thread ends the tick.
PublicationRaises ==
    /\ job = "publish"
    /\ job' = "none"
    /\ Resume("publish", "unlock")
    /\ UNCHANGED <<now, scheduleVars, owner, service, apiVars, historyVars, boundVars>>

\* Faulty: the very moment that is due is not.
IsRoundDueStrict ==
    /\ tick = "check"
    /\ owner = "tick"
    /\ nextDue' = SeededDue
    /\ \/ now > SeededDue /\ tick' = "advance"
       \/ now <= SeededDue /\ tick' = "unlock"
    /\ UNCHANGED <<now, newest, owner, service, job, apiVars, historyVars, boundVars>>

\* Seed the schedule if it has no row, and compare it with the clock.
IsRoundDue ==
    /\ tick = "check"
    /\ owner = "tick"
    /\ nextDue' = SeededDue
    /\ \/ now >= SeededDue /\ tick' = "advance"
       \/ now < SeededDue /\ tick' = "unlock"
    /\ UNCHANGED <<now, newest, owner, service, job, apiVars, historyVars, boundVars>>

\* Faulty: one missed slot is consumed at a time.
AdvanceByOneSlot ==
    /\ tick = "advance"
    /\ owner = "tick"
    /\ nextDue' = nextDue + Cadence
    /\ consumed' = consumed + 1
    /\ lastAdvance' = now
    /\ tick' = "start"
    /\ UNCHANGED <<now, newest, owner, service, job, apiVars, scheduled, anchor,
                   boundVars>>

\* Faulty: the slot that is due this very moment is not consumed.
AdvanceWhileBefore ==
    /\ tick = "advance"
    /\ owner = "tick"
    /\ \E k \in 0..now :
          /\ nextDue' = nextDue + k * Cadence
          /\ nextDue' >= now
          /\ k = 0 \/ nextDue' < now + Cadence
    /\ consumed' = consumed + 1
    /\ lastAdvance' = now
    /\ tick' = "start"
    /\ UNCHANGED <<now, newest, owner, service, job, apiVars, scheduled, anchor,
                   boundVars>>

\* Every missed slot is consumed: whole cadence periods until the future.
AdvanceSchedule ==
    /\ tick = "advance"
    /\ owner = "tick"
    /\ \E k \in 0..(now + 1) :
          /\ nextDue' = nextDue + k * Cadence
          /\ nextDue' > now
          /\ k = 0 \/ nextDue' <= now + Cadence
    /\ consumed' = consumed + 1
    /\ lastAdvance' = now
    /\ tick' = "start"
    /\ UNCHANGED <<now, newest, owner, service, job, apiVars, scheduled, anchor,
                   boundVars>>

\* The statements on the schedule run in the lock's session: they raise once it
\* is lost.
TickRaises ==
    /\ tick \in {"check", "advance"}
    /\ owner # "tick"
    /\ tick' = "unlock"
    /\ UNCHANGED <<now, scheduleVars, owner, service, job, apiVars, historyVars,
                   boundVars>>

RunScheduledRound ==
    /\ tick = "start"
    /\ tick' = "round"
    /\ job' = "round"
    /\ scheduled' = scheduled + 1
    /\ TouchNewest
    /\ UNCHANGED <<now, nextDue, owner, service, apiVars, consumed, lastAdvance, anchor,
                   boundVars>>

RoundReturns ==
    /\ job = "round"
    /\ job' = "none"
    /\ Resume("round", "unlock")
    /\ TouchNewest
    /\ UNCHANGED <<now, nextDue, owner, service, apiVars, historyVars, boundVars>>

EndTick ==
    /\ tick = "unlock"
    /\ tick' = "asleep"
    /\ Release("tick")
    /\ UNCHANGED <<now, scheduleVars, service, job, apiVars, historyVars, boundVars>>

-----------------------------------------------------------------------------
(* Triggers and overrides through the API. *)

\* Faulty: the request reanchors and starts whoever holds the lock.
TriggerUnlocked(kind, reanchor) ==
    /\ service = "up"
    /\ api = "none"
    /\ triggers < MaxTriggers
    /\ triggers' = triggers + 1
    /\ owner' = "api"
    /\ apiKind' = kind
    /\ api' = IF reanchor THEN "reanchor" ELSE "start"
    /\ UNCHANGED <<now, scheduleVars, service, tickVars, historyVars, stops, kills,
                   losses>>

\* A request that finds the lock held is refused with 409 and changes nothing.
TriggerRound(kind, reanchor) ==
    /\ service = "up"
    /\ api = "none"
    /\ owner = "none"
    /\ triggers < MaxTriggers
    /\ triggers' = triggers + 1
    /\ owner' = "api"
    /\ apiKind' = kind
    /\ api' = IF reanchor THEN "reanchor" ELSE "start"
    /\ UNCHANGED <<now, scheduleVars, service, tickVars, historyVars, stops, kills,
                   losses>>

\* Faulty: the cadence is subtracted.
ReanchorBackwards ==
    /\ api = "reanchor"
    /\ owner = "api"
    /\ nextDue' = now - Cadence
    /\ anchor' = now
    /\ api' = "start"
    /\ UNCHANGED <<now, newest, owner, service, tickVars, apiKind, scheduled, consumed,
                   lastAdvance, boundVars>>

ReanchorSchedule ==
    /\ api = "reanchor"
    /\ owner = "api"
    /\ nextDue' = now + Cadence
    /\ anchor' = now
    /\ api' = "start"
    /\ UNCHANGED <<now, newest, owner, service, tickVars, apiKind, scheduled, consumed,
                   lastAdvance, boundVars>>

StartBackgroundRound ==
    /\ api = "start"
    /\ api' = "running"
    /\ \/ apiKind = "normal" /\ TouchNewest
       \/ apiKind = "other" /\ UNCHANGED newest
    /\ UNCHANGED <<now, nextDue, owner, service, tickVars, apiKind, historyVars,
                   boundVars>>

\* Faulty: only the background thread releases the lock.
TriggerFailsKeepsLock ==
    /\ api \in {"reanchor", "start"}
    /\ api' = "none"
    /\ UNCHANGED <<now, scheduleVars, owner, service, tickVars, apiKind, historyVars,
                   boundVars>>

\* Reanchoring, or starting the thread, raises.
TriggerFails ==
    /\ api \in {"reanchor", "start"}
    /\ api' = "none"
    /\ Release("api")
    /\ UNCHANGED <<now, scheduleVars, service, tickVars, apiKind, historyVars, boundVars>>

BackgroundRoundEnds ==
    /\ api = "running"
    /\ api' = "none"
    /\ Release("api")
    /\ \/ apiKind = "normal" /\ TouchNewest
       \/ apiKind = "other" /\ UNCHANGED newest
    /\ UNCHANGED <<now, nextDue, service, tickVars, apiKind, historyVars, boundVars>>

-----------------------------------------------------------------------------
(* The environment. *)

PassTime ==
    /\ now < Horizon
    /\ now' = now + 1
    /\ UNCHANGED <<scheduleVars, owner, service, tickVars, apiVars, historyVars,
                   boundVars>>

\* The database drops the idle session that holds the lock.
LoseSession ==
    /\ owner # "none"
    /\ losses < MaxLosses
    /\ losses' = losses + 1
    /\ owner' = "none"
    /\ UNCHANGED <<now, scheduleVars, service, tickVars, apiVars, historyVars, triggers,
                   stops, kills>>

\* Faulty: cancellation is taken for the end of the process.
StopStaysUp ==
    /\ service = "up"
    /\ tick \in {"asleep", "publish", "round"}
    /\ api \notin {"reanchor", "start"}
    /\ stops < MaxStops
    /\ stops' = stops + 1
    /\ tick' = "gone"
    /\ Release("tick")
    /\ UNCHANGED <<now, scheduleVars, service, job, apiVars, historyVars, triggers,
                   kills, losses>>

\* Faulty: an await between the advance and the round.
StopBeforeRound ==
    /\ service = "up"
    /\ tick \in {"asleep", "publish", "start", "round"}
    /\ api \notin {"reanchor", "start"}
    /\ stops < MaxStops
    /\ stops' = stops + 1
    /\ service' = "stopping"
    /\ tick' = "gone"
    /\ Release("tick")
    /\ UNCHANGED <<now, scheduleVars, job, apiVars, historyVars, triggers, kills, losses>>

\* Requests in flight end, then the coroutine is cancelled where it awaits: its
\* finally clause releases the lock, while the thread it awaited works on.
Stop ==
    /\ service = "up"
    /\ tick \in {"asleep", "publish", "round"}
    /\ api \notin {"reanchor", "start"}
    /\ stops < MaxStops
    /\ stops' = stops + 1
    /\ service' = "stopping"
    /\ tick' = "gone"
    /\ Release("tick")
    /\ UNCHANGED <<now, scheduleVars, job, apiVars, historyVars, triggers, kills, losses>>

\* The interpreter joins the executor's thread; daemon threads die with it.
Exit ==
    /\ service = "stopping"
    /\ job = "none"
    /\ service' = "down"
    /\ api' = "none"
    /\ owner' = "none"
    /\ UNCHANGED <<now, scheduleVars, tickVars, apiKind, historyVars, boundVars>>

Kill ==
    /\ service # "down"
    /\ stops < MaxStops
    /\ stops' = stops + 1
    /\ kills' = kills + 1
    /\ service' = "down"
    /\ tick' = "gone" /\ job' = "none" /\ api' = "none"
    /\ owner' = "none"
    /\ UNCHANGED <<now, scheduleVars, apiKind, historyVars, triggers, losses>>

Restart ==
    /\ service = "down"
    /\ service' = "up"
    /\ tick' = "asleep"
    /\ UNCHANGED <<now, scheduleVars, owner, job, apiVars, historyVars, boundVars>>

-----------------------------------------------------------------------------

TickSteps ==
    \/ BeginTick \/ PublicationReturns \/ PublicationRaises
    \/ IsRoundDue \/ AdvanceSchedule \/ TickRaises
    \/ RunScheduledRound \/ RoundReturns \/ EndTick

ApiSteps ==
    \/ ReanchorSchedule \/ StartBackgroundRound \/ TriggerFails \/ BackgroundRoundEnds

Next ==
    \/ TickSteps
    \/ SkipTick
    \/ \E reanchor \in BOOLEAN : TriggerRound("normal", reanchor)
    \/ TriggerRound("other", FALSE)
    \/ ApiSteps
    \/ PassTime
    \/ LoseSession
    \/ Stop \/ Exit \/ Kill \/ Restart

Spec == Init /\ [][Next]_vars

\* The event loop and the threads run on, the container is restarted, and not
\* every publication pass raises: one that does ends its tick, so no round is
\* started while they all do.
Fairness ==
    /\ WF_vars(TickSteps)
    /\ SF_vars(PublicationReturns)
    /\ WF_vars(ApiSteps)
    /\ WF_vars(Exit)
    /\ WF_vars(Restart)

FairSpec == Spec /\ Fairness
-----------------------------------------------------------------------------
(* Safety. *)

\* docs/CurrentRoadmap.md:1111: the advisory lock "ensures only one round runs
\* at a time".  The tick's thread and an API thread never work together, also
\* after a shutdown has released the lock under a thread that works on.
RoundsExclusive == job # "none" => api # "running"

\* However the schedule is seeded, advanced and reanchored, the next round is
\* never put off by more than one cadence.
DueWithinCadence == nextDue <= now + Cadence

\* After an outage there is one catch-up round: a slot found due has become due
\* since the schedule was last advanced.
CatchUpOnce == tick = "advance" => nextDue > lastAdvance

\* Restarts, failed rounds and reanchoring never make more scheduled rounds than
\* there are slots in the time elapsed.
NoRoundStorm == scheduled * Cadence <= now + Cadence

\* A slot is consumed without a round only by a kill between the two; failed
\* publications, lost sessions and orderly shutdowns skip none.
SlotSkippedOnlyByKill ==
    consumed <= scheduled + kills + (IF tick = "start" THEN 1 ELSE 0)

\* The schedule never moves back to an earlier moment.
ScheduleMovesForward == [][nextDue' >= nextDue]_vars

\* docs/ScoringOperations.md:122: after a reanchoring trigger the next automated
\* round runs no earlier than one cadence later, even if a tick was under way.
ReanchorIsHonoured ==
    [][job # "round" /\ job' = "round" /\ anchor # Never => now >= anchor + Cadence]_vars

-----------------------------------------------------------------------------
(* Liveness. *)

\* A due slot is consumed although triggers, shutdowns and kills intervene.
DueSlotIsConsumed == nextDue # Never /\ nextDue <= now ~> nextDue > now

\* Whoever takes the lock gives it back, and a thread left behind ends.
LockIsFreed == owner # "none" ~> owner = "none"
=============================================================================
