------------------------ MODULE RoundScheduleProofs ------------------------
(***************************************************************************)
(* Proofs about RoundSchedule for every cadence and every bound.           *)
(*                                                                         *)
(* Calendar is inductive whatever happens to the lock: each slot consumed  *)
(* has moved the schedule on by at least one cadence, and nothing moves it *)
(* back, so the schedule itself counts the rounds.  Locking is inductive   *)
(* while no lock session is lost; what needs the lock is proved from both. *)
(***************************************************************************)
EXTENDS RoundSchedule, TLAPS

\* An unset schedule has no past; a set one lies beyond every slot consumed.
SlotsConsumed ==
    /\ nextDue = Never => consumed = 0 /\ lastAdvance = Never /\ anchor = Never
    /\ nextDue # Never => consumed * Cadence <= nextDue /\ nextDue > lastAdvance
    /\ nextDue # Never /\ anchor # Never => nextDue >= anchor + Cadence

PastMoments == newest <= now /\ lastAdvance <= now

\* The tick advances a schedule it has found due, under the lock it still has.
DueWhenAdvanced ==
    tick = "advance" => nextDue # Never /\ (owner = "tick" => nextDue <= now)

RoundsAreConsumed == scheduled + (IF tick = "start" THEN 1 ELSE 0) <= consumed

\* The coroutine lives as long as requests are taken, its thread until the exit.
ProcessLives ==
    /\ tick = "gone" <=> service # "up"
    /\ service = "down" => job = "none" /\ api = "none"

Calendar ==
    /\ TypeOK
    /\ ProcessLives
    /\ DueWithinCadence
    /\ SlotsConsumed
    /\ PastMoments
    /\ DueWhenAdvanced
    /\ RoundsAreConsumed
    /\ SlotSkippedOnlyByKill

\* The lock is held by whoever works; only a thread left behind by a shutdown
\* works without it, while the process no longer takes requests.
Locking ==
    /\ losses = 0
    /\ tick \notin {"asleep", "gone"} => owner = "tick"
    /\ api # "none" => owner = "api"
    /\ job # "none" => api = "none"
    /\ job # "none" => tick \in {"publish", "round"} \/ service # "up"
    /\ tick = "start" /\ anchor # Never => now >= anchor + Cadence

-----------------------------------------------------------------------------

\* Every step keeps every variable in its type, and threads within their process.
LEMMA TypeStep ==
    ASSUME Calendar, Next
    PROVE  (TypeOK /\ ProcessLives)'
<1> USE ScheduleAssumption DEF Calendar, TypeOK, ProcessLives, Moments, Never,
        Ticks, Release, Resume, TouchNewest, scheduleVars, tickVars, apiVars,
        historyVars, boundVars
<1>1. ASSUME BeginTick PROVE (TypeOK /\ ProcessLives)'
    BY <1>1 DEF BeginTick
<1>2. ASSUME SkipTick PROVE (TypeOK /\ ProcessLives)'
    BY <1>2 DEF SkipTick, vars
<1>3. ASSUME PublicationReturns PROVE (TypeOK /\ ProcessLives)'
    BY <1>3 DEF PublicationReturns
<1>4. ASSUME PublicationRaises PROVE (TypeOK /\ ProcessLives)'
    BY <1>4 DEF PublicationRaises
<1>5. ASSUME IsRoundDue PROVE (TypeOK /\ ProcessLives)'
    BY <1>5 DEF IsRoundDue, SeededDue
<1>6. ASSUME AdvanceSchedule PROVE (TypeOK /\ ProcessLives)'
    BY <1>6 DEF AdvanceSchedule
<1>7. ASSUME TickRaises PROVE (TypeOK /\ ProcessLives)'
    BY <1>7 DEF TickRaises
<1>8. ASSUME RunScheduledRound PROVE (TypeOK /\ ProcessLives)'
    BY <1>8 DEF RunScheduledRound
<1>9. ASSUME RoundReturns PROVE (TypeOK /\ ProcessLives)'
    BY <1>9 DEF RoundReturns
<1>10. ASSUME EndTick PROVE (TypeOK /\ ProcessLives)'
    BY <1>10 DEF EndTick
<1>11. ASSUME NEW kind \in {"normal", "other"}, NEW reanchor \in BOOLEAN,
             TriggerRound(kind, reanchor) PROVE (TypeOK /\ ProcessLives)'
    BY <1>11 DEF TriggerRound
<1>12. ASSUME ReanchorSchedule PROVE (TypeOK /\ ProcessLives)'
    BY <1>12 DEF ReanchorSchedule
<1>13. ASSUME StartBackgroundRound PROVE (TypeOK /\ ProcessLives)'
    BY <1>13 DEF StartBackgroundRound
<1>14. ASSUME TriggerFails PROVE (TypeOK /\ ProcessLives)'
    BY <1>14 DEF TriggerFails
<1>15. ASSUME BackgroundRoundEnds PROVE (TypeOK /\ ProcessLives)'
    BY <1>15 DEF BackgroundRoundEnds
<1>16. ASSUME PassTime PROVE (TypeOK /\ ProcessLives)'
    BY <1>16 DEF PassTime
<1>17. ASSUME LoseSession PROVE (TypeOK /\ ProcessLives)'
    BY <1>17 DEF LoseSession
<1>18. ASSUME Stop PROVE (TypeOK /\ ProcessLives)'
    BY <1>18 DEF Stop
<1>19. ASSUME Exit PROVE (TypeOK /\ ProcessLives)'
    BY <1>19 DEF Exit
<1>20. ASSUME Kill PROVE (TypeOK /\ ProcessLives)'
    BY <1>20 DEF Kill
<1>21. ASSUME Restart PROVE (TypeOK /\ ProcessLives)'
    BY <1>21 DEF Restart
<1>22. QED
    BY <1>1, <1>2, <1>3, <1>4, <1>5, <1>6, <1>7, <1>8, <1>9, <1>10, <1>11,
       <1>12, <1>13, <1>14, <1>15, <1>16, <1>17, <1>18, <1>19, <1>20, <1>21
       DEF Next, TickSteps, ApiSteps

\* Every step keeps the calendar, given its own types before and after.
LEMMA CalendarStep ==
    ASSUME Calendar, TypeOK', Next
    PROVE  (DueWithinCadence /\ SlotsConsumed /\ PastMoments)'
<1> USE ScheduleAssumption DEF Calendar, TypeOK, DueWithinCadence,
        SlotsConsumed, PastMoments, DueWhenAdvanced, Moments, Never, Ticks,
        TouchNewest, scheduleVars, tickVars, apiVars, historyVars, boundVars
<1>1. ASSUME BeginTick
      PROVE  (DueWithinCadence /\ SlotsConsumed /\ PastMoments)'
    BY <1>1 DEF BeginTick
<1>2. ASSUME SkipTick PROVE (DueWithinCadence /\ SlotsConsumed /\ PastMoments)'
    BY <1>2 DEF SkipTick, vars
<1>3. ASSUME PublicationReturns
      PROVE  (DueWithinCadence /\ SlotsConsumed /\ PastMoments)'
    BY <1>3 DEF PublicationReturns
<1>4. ASSUME PublicationRaises
      PROVE  (DueWithinCadence /\ SlotsConsumed /\ PastMoments)'
    BY <1>4 DEF PublicationRaises
<1>5. ASSUME IsRoundDue
      PROVE  (DueWithinCadence /\ SlotsConsumed /\ PastMoments)'
    BY <1>5 DEF IsRoundDue, SeededDue
<1>6. ASSUME AdvanceSchedule
      PROVE  (DueWithinCadence /\ SlotsConsumed /\ PastMoments)'
    BY <1>6 DEF AdvanceSchedule
<1>7. ASSUME TickRaises
      PROVE  (DueWithinCadence /\ SlotsConsumed /\ PastMoments)'
    BY <1>7 DEF TickRaises
<1>8. ASSUME RunScheduledRound
      PROVE  (DueWithinCadence /\ SlotsConsumed /\ PastMoments)'
    BY <1>8 DEF RunScheduledRound
<1>9. ASSUME RoundReturns
      PROVE  (DueWithinCadence /\ SlotsConsumed /\ PastMoments)'
    BY <1>9 DEF RoundReturns
<1>10. ASSUME EndTick PROVE (DueWithinCadence /\ SlotsConsumed /\ PastMoments)'
    BY <1>10 DEF EndTick
<1>11. ASSUME NEW kind \in {"normal", "other"}, NEW reanchor \in BOOLEAN,
             TriggerRound(kind, reanchor)
      PROVE  (DueWithinCadence /\ SlotsConsumed /\ PastMoments)'
    BY <1>11 DEF TriggerRound
<1>12. ASSUME ReanchorSchedule
      PROVE  (DueWithinCadence /\ SlotsConsumed /\ PastMoments)'
    BY <1>12 DEF ReanchorSchedule
<1>13. ASSUME StartBackgroundRound
      PROVE  (DueWithinCadence /\ SlotsConsumed /\ PastMoments)'
    BY <1>13 DEF StartBackgroundRound
<1>14. ASSUME TriggerFails
      PROVE  (DueWithinCadence /\ SlotsConsumed /\ PastMoments)'
    BY <1>14 DEF TriggerFails
<1>15. ASSUME BackgroundRoundEnds
      PROVE  (DueWithinCadence /\ SlotsConsumed /\ PastMoments)'
    BY <1>15 DEF BackgroundRoundEnds
<1>16. ASSUME PassTime
      PROVE  (DueWithinCadence /\ SlotsConsumed /\ PastMoments)'
    BY <1>16 DEF PassTime
<1>17. ASSUME LoseSession
      PROVE  (DueWithinCadence /\ SlotsConsumed /\ PastMoments)'
    BY <1>17 DEF LoseSession
<1>18. ASSUME Stop PROVE (DueWithinCadence /\ SlotsConsumed /\ PastMoments)'
    BY <1>18 DEF Stop
<1>19. ASSUME Exit PROVE (DueWithinCadence /\ SlotsConsumed /\ PastMoments)'
    BY <1>19 DEF Exit
<1>20. ASSUME Kill PROVE (DueWithinCadence /\ SlotsConsumed /\ PastMoments)'
    BY <1>20 DEF Kill
<1>21. ASSUME Restart PROVE (DueWithinCadence /\ SlotsConsumed /\ PastMoments)'
    BY <1>21 DEF Restart
<1>22. QED
    BY <1>1, <1>2, <1>3, <1>4, <1>5, <1>6, <1>7, <1>8, <1>9, <1>10, <1>11,
       <1>12, <1>13, <1>14, <1>15, <1>16, <1>17, <1>18, <1>19, <1>20, <1>21
       DEF Next, TickSteps, ApiSteps

\* Every step keeps what the tick knows and the counts of slots and rounds.
LEMMA CountStep ==
    ASSUME Calendar, TypeOK', Next
    PROVE  (DueWhenAdvanced /\ RoundsAreConsumed /\ SlotSkippedOnlyByKill)'
<1> USE ScheduleAssumption DEF Calendar, TypeOK, ProcessLives,
        DueWhenAdvanced, RoundsAreConsumed, SlotSkippedOnlyByKill, Moments,
        Never, Ticks, Release, Resume, scheduleVars, tickVars, apiVars,
        historyVars, boundVars
<1>1. ASSUME BeginTick
      PROVE  (DueWhenAdvanced /\ RoundsAreConsumed /\ SlotSkippedOnlyByKill)'
    BY <1>1 DEF BeginTick
<1>2. ASSUME SkipTick
      PROVE  (DueWhenAdvanced /\ RoundsAreConsumed /\ SlotSkippedOnlyByKill)'
    BY <1>2 DEF SkipTick, vars
<1>3. ASSUME PublicationReturns
      PROVE  (DueWhenAdvanced /\ RoundsAreConsumed /\ SlotSkippedOnlyByKill)'
    BY <1>3 DEF PublicationReturns
<1>4. ASSUME PublicationRaises
      PROVE  (DueWhenAdvanced /\ RoundsAreConsumed /\ SlotSkippedOnlyByKill)'
    BY <1>4 DEF PublicationRaises
<1>5. ASSUME IsRoundDue
      PROVE  (DueWhenAdvanced /\ RoundsAreConsumed /\ SlotSkippedOnlyByKill)'
    BY <1>5 DEF IsRoundDue, SeededDue
<1>6. ASSUME AdvanceSchedule
      PROVE  (DueWhenAdvanced /\ RoundsAreConsumed /\ SlotSkippedOnlyByKill)'
    BY <1>6 DEF AdvanceSchedule
<1>7. ASSUME TickRaises
      PROVE  (DueWhenAdvanced /\ RoundsAreConsumed /\ SlotSkippedOnlyByKill)'
    BY <1>7 DEF TickRaises
<1>8. ASSUME RunScheduledRound
      PROVE  (DueWhenAdvanced /\ RoundsAreConsumed /\ SlotSkippedOnlyByKill)'
    BY <1>8 DEF RunScheduledRound
<1>9. ASSUME RoundReturns
      PROVE  (DueWhenAdvanced /\ RoundsAreConsumed /\ SlotSkippedOnlyByKill)'
    BY <1>9 DEF RoundReturns
<1>10. ASSUME EndTick
      PROVE  (DueWhenAdvanced /\ RoundsAreConsumed /\ SlotSkippedOnlyByKill)'
    BY <1>10 DEF EndTick
<1>11. ASSUME NEW kind \in {"normal", "other"}, NEW reanchor \in BOOLEAN,
             TriggerRound(kind, reanchor)
      PROVE  (DueWhenAdvanced /\ RoundsAreConsumed /\ SlotSkippedOnlyByKill)'
    BY <1>11 DEF TriggerRound
<1>12. ASSUME ReanchorSchedule
      PROVE  (DueWhenAdvanced /\ RoundsAreConsumed /\ SlotSkippedOnlyByKill)'
    BY <1>12 DEF ReanchorSchedule
<1>13. ASSUME StartBackgroundRound
      PROVE  (DueWhenAdvanced /\ RoundsAreConsumed /\ SlotSkippedOnlyByKill)'
    BY <1>13 DEF StartBackgroundRound
<1>14. ASSUME TriggerFails
      PROVE  (DueWhenAdvanced /\ RoundsAreConsumed /\ SlotSkippedOnlyByKill)'
    BY <1>14 DEF TriggerFails
<1>15. ASSUME BackgroundRoundEnds
      PROVE  (DueWhenAdvanced /\ RoundsAreConsumed /\ SlotSkippedOnlyByKill)'
    BY <1>15 DEF BackgroundRoundEnds
<1>16. ASSUME PassTime
      PROVE  (DueWhenAdvanced /\ RoundsAreConsumed /\ SlotSkippedOnlyByKill)'
    BY <1>16 DEF PassTime
<1>17. ASSUME LoseSession
      PROVE  (DueWhenAdvanced /\ RoundsAreConsumed /\ SlotSkippedOnlyByKill)'
    BY <1>17 DEF LoseSession
<1>18. ASSUME Stop
      PROVE  (DueWhenAdvanced /\ RoundsAreConsumed /\ SlotSkippedOnlyByKill)'
    BY <1>18 DEF Stop
<1>19. ASSUME Exit
      PROVE  (DueWhenAdvanced /\ RoundsAreConsumed /\ SlotSkippedOnlyByKill)'
    BY <1>19 DEF Exit
<1>20. ASSUME Kill
      PROVE  (DueWhenAdvanced /\ RoundsAreConsumed /\ SlotSkippedOnlyByKill)'
    BY <1>20 DEF Kill
<1>21. ASSUME Restart
      PROVE  (DueWhenAdvanced /\ RoundsAreConsumed /\ SlotSkippedOnlyByKill)'
    BY <1>21 DEF Restart
<1>22. QED
    BY <1>1, <1>2, <1>3, <1>4, <1>5, <1>6, <1>7, <1>8, <1>9, <1>10, <1>11,
       <1>12, <1>13, <1>14, <1>15, <1>16, <1>17, <1>18, <1>19, <1>20, <1>21
       DEF Next, TickSteps, ApiSteps

\* Without lost sessions every step keeps the lock with whoever works.
LEMMA LockingStep ==
    ASSUME MaxLosses = 0, Calendar, TypeOK', Locking, Next
    PROVE  Locking'
<1> USE ScheduleAssumption DEF Calendar, TypeOK, ProcessLives, Locking,
        SlotsConsumed, DueWhenAdvanced, Moments, Never, Ticks, Release,
        Resume, scheduleVars, tickVars, apiVars, historyVars, boundVars
<1>1. ASSUME BeginTick PROVE Locking'
    BY <1>1 DEF BeginTick
<1>2. ASSUME SkipTick PROVE Locking'
    BY <1>2 DEF SkipTick, vars
<1>3. ASSUME PublicationReturns PROVE Locking'
    BY <1>3 DEF PublicationReturns
<1>4. ASSUME PublicationRaises PROVE Locking'
    BY <1>4 DEF PublicationRaises
<1>5. ASSUME IsRoundDue PROVE Locking'
    BY <1>5 DEF IsRoundDue, SeededDue
<1>6. ASSUME AdvanceSchedule PROVE Locking'
    BY <1>6 DEF AdvanceSchedule
<1>7. ASSUME TickRaises PROVE Locking'
    BY <1>7 DEF TickRaises
<1>8. ASSUME RunScheduledRound PROVE Locking'
    BY <1>8 DEF RunScheduledRound
<1>9. ASSUME RoundReturns PROVE Locking'
    BY <1>9 DEF RoundReturns
<1>10. ASSUME EndTick PROVE Locking'
    BY <1>10 DEF EndTick
<1>11. ASSUME NEW kind \in {"normal", "other"}, NEW reanchor \in BOOLEAN,
             TriggerRound(kind, reanchor) PROVE Locking'
    BY <1>11 DEF TriggerRound
<1>12. ASSUME ReanchorSchedule PROVE Locking'
    BY <1>12 DEF ReanchorSchedule
<1>13. ASSUME StartBackgroundRound PROVE Locking'
    BY <1>13 DEF StartBackgroundRound
<1>14. ASSUME TriggerFails PROVE Locking'
    BY <1>14 DEF TriggerFails
<1>15. ASSUME BackgroundRoundEnds PROVE Locking'
    BY <1>15 DEF BackgroundRoundEnds
<1>16. ASSUME PassTime PROVE Locking'
    BY <1>16 DEF PassTime
<1>17. ASSUME LoseSession PROVE Locking'
    BY <1>17 DEF LoseSession
<1>18. ASSUME Stop PROVE Locking'
    BY <1>18 DEF Stop
<1>19. ASSUME Exit PROVE Locking'
    BY <1>19 DEF Exit
<1>20. ASSUME Kill PROVE Locking'
    BY <1>20 DEF Kill
<1>21. ASSUME Restart PROVE Locking'
    BY <1>21 DEF Restart
<1>22. QED
    BY <1>1, <1>2, <1>3, <1>4, <1>5, <1>6, <1>7, <1>8, <1>9, <1>10, <1>11,
       <1>12, <1>13, <1>14, <1>15, <1>16, <1>17, <1>18, <1>19, <1>20, <1>21
       DEF Next, TickSteps, ApiSteps

-----------------------------------------------------------------------------

\* The calendar holds from the first state on, whatever happens to the lock.
THEOREM CalendarKept == Spec => []Calendar
<1>1. Init => Calendar
    BY ScheduleAssumption
       DEF Init, Calendar, TypeOK, ProcessLives, DueWithinCadence, SlotsConsumed,
           PastMoments, DueWhenAdvanced, RoundsAreConsumed, SlotSkippedOnlyByKill,
           Moments, Never, Ticks
<1>2. Calendar /\ [Next]_vars => Calendar'
    <2>1. ASSUME Calendar, Next PROVE Calendar'
        BY <2>1, TypeStep, CalendarStep, CountStep DEF Calendar
    <2>2. ASSUME Calendar, UNCHANGED vars PROVE Calendar'
        BY <2>2 DEF Calendar, TypeOK, ProcessLives, DueWithinCadence, SlotsConsumed,
           PastMoments, DueWhenAdvanced, RoundsAreConsumed, SlotSkippedOnlyByKill,
           vars, scheduleVars, tickVars, apiVars, historyVars, boundVars
    <2>3. QED
        BY <2>1, <2>2
<1>3. QED
    BY <1>1, <1>2, PTL DEF Spec

\* Every reachable state is well typed.
THEOREM TypeCorrect == Spec => []TypeOK
<1>1. Calendar => TypeOK
    BY DEF Calendar
<1>2. QED
    BY CalendarKept, <1>1, PTL

\* The next round is never put off by more than one cadence: seeding, advancing
\* and reanchoring all start from a moment that has passed.
THEOREM NeverPutOff == Spec => []DueWithinCadence
<1>1. Calendar => DueWithinCadence
    BY DEF Calendar
<1>2. QED
    BY CalendarKept, <1>1, PTL

\* After an outage there is one catch-up round, for any number of missed slots.
THEOREM OneCatchUp == Spec => []CatchUpOnce
<1>1. Calendar => CatchUpOnce
    BY DEF Calendar, CatchUpOnce, SlotsConsumed, DueWhenAdvanced
<1>2. QED
    BY CalendarKept, <1>1, PTL

\* In any time there are at most as many scheduled rounds as slots, even if lock
\* sessions are lost: each has moved the schedule on by a cadence, and the
\* schedule is at most one cadence ahead of the clock.
THEOREM RateBounded == Spec => []NoRoundStorm
<1>1. ASSUME Calendar PROVE NoRoundStorm
    <2>1. scheduled <= consumed /\ scheduled \in Nat /\ consumed \in Nat
        BY <1>1 DEF Calendar, RoundsAreConsumed, TypeOK
    <2>2. scheduled * Cadence <= consumed * Cadence
        BY <2>1, ScheduleAssumption
    <2>3. CASE nextDue = Never
        BY <1>1, <2>1, <2>3, ScheduleAssumption
           DEF Calendar, SlotsConsumed, NoRoundStorm, TypeOK
    <2>4. CASE nextDue # Never
        BY <1>1, <2>2, <2>1, <2>4, ScheduleAssumption
           DEF Calendar, SlotsConsumed, DueWithinCadence, NoRoundStorm, TypeOK, Moments
    <2>5. QED
        BY <2>3, <2>4
<1>2. QED
    BY CalendarKept, <1>1, PTL

\* A slot is lost only to a kill between the advance and the round.
THEOREM SlotsUsed == Spec => []SlotSkippedOnlyByKill
<1>1. Calendar => SlotSkippedOnlyByKill
    BY DEF Calendar
<1>2. QED
    BY CalendarKept, <1>1, PTL

\* Neither ticks nor triggers ever move the schedule back.
THEOREM NeverMovesBack == Spec => ScheduleMovesForward
<1>1. Calendar /\ [Next]_vars => [nextDue' >= nextDue]_vars
    <2> SUFFICES ASSUME Calendar, Next PROVE nextDue' >= nextDue
        OBVIOUS
    <2> USE ScheduleAssumption
        DEF Calendar, TypeOK, Moments, Never
    <2>1. nextDue \in Int /\ nextDue >= nextDue
        OBVIOUS
    <2>2. ASSUME IsRoundDue PROVE nextDue' >= nextDue
        BY <2>2 DEF IsRoundDue, SeededDue
    <2>3. ASSUME AdvanceSchedule PROVE nextDue' >= nextDue
        BY <2>3 DEF AdvanceSchedule
    <2>4. ASSUME ReanchorSchedule PROVE nextDue' >= nextDue
        BY <2>4 DEF ReanchorSchedule, DueWithinCadence
    <2>5. CASE UNCHANGED nextDue
        BY <2>1, <2>5
    <2>6. QED
        BY <2>2, <2>3, <2>4, <2>5
           DEF Next, TickSteps, ApiSteps, BeginTick, SkipTick, PublicationReturns,
               PublicationRaises, TickRaises, RunScheduledRound, RoundReturns,
               EndTick, TriggerRound, StartBackgroundRound, TriggerFails,
               BackgroundRoundEnds, PassTime, LoseSession, Stop, Exit, Kill,
               Restart, vars, scheduleVars
<1>2. QED
    BY CalendarKept, <1>1, PTL DEF Spec, ScheduleMovesForward

-----------------------------------------------------------------------------

\* While no lock session is lost, whoever works holds the lock.
LEMMA LockingKept ==
    ASSUME MaxLosses = 0
    PROVE  Spec => []Locking
<1>1. Init => Locking
    BY DEF Init, Locking, Never
<1>2. Calendar /\ Calendar' /\ Locking /\ [Next]_vars => Locking'
    <2>1. ASSUME Calendar, Calendar', Locking, Next PROVE Locking'
        BY <2>1, LockingStep DEF Calendar
    <2>2. ASSUME Locking, UNCHANGED vars PROVE Locking'
        BY <2>2 DEF Locking, vars, scheduleVars, tickVars, apiVars, historyVars,
           boundVars
    <2>3. QED
        BY <2>1, <2>2
<1>3. QED
    BY CalendarKept, <1>1, <1>2, PTL DEF Spec

\* While no lock session is lost, two rounds never work together, also after a
\* shutdown has given the lock back under a working thread.
THEOREM LockExcludes ==
    ASSUME MaxLosses = 0
    PROVE  Spec => []RoundsExclusive
<1>1. Locking => RoundsExclusive
    BY DEF Locking, RoundsExclusive
<1>2. QED
    BY LockingKept, <1>1, PTL

\* While no lock session is lost, no scheduled round starts within one cadence
\* of a reanchoring trigger.
THEOREM AnchorHonoured ==
    ASSUME MaxLosses = 0
    PROVE  Spec => ReanchorIsHonoured
<1>1. Locking /\ [Next]_vars
        => [job # "round" /\ job' = "round" /\ anchor # Never
              => now >= anchor + Cadence]_vars
    <2> SUFFICES ASSUME Locking, Next, job # "round", job' = "round", anchor # Never
                 PROVE  now >= anchor + Cadence
        OBVIOUS
    <2>1. tick = "start"
        BY DEF Next, TickSteps, ApiSteps, BeginTick, SkipTick, PublicationReturns,
               PublicationRaises, IsRoundDue, AdvanceSchedule, TickRaises,
               RunScheduledRound, RoundReturns, EndTick, TriggerRound,
               ReanchorSchedule, StartBackgroundRound, TriggerFails,
               BackgroundRoundEnds, PassTime, LoseSession, Stop, Exit, Kill,
               Restart, vars, tickVars
    <2>2. QED
        BY <2>1 DEF Locking
<1>2. QED
    BY LockingKept, <1>1, PTL DEF Spec, ReanchorIsHonoured

=============================================================================
