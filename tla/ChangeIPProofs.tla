--------------------------- MODULE ChangeIPProofs ---------------------------
(***************************************************************************)
(* Proofs about ChangeIP, for every number of attempts, runs and changes   *)
(* of WARP by itself.                                                      *)
(***************************************************************************)
EXTENDS ChangeIP, TLAPS

Beginning == {"precheck", "old_ip", "arm"}

\* The machine has armed its watchdog and not tried to disarm it.
Guarded == {"attempt", "off", "wait_off", "on", "wait_on", "new_ip", "final", "disarm", "settle",
            "recover", "recover_on", "recover_late", "recover_wait", "recover_state",
            "disarm_after"}

\* A watchdog is armed by its own run only, and stays until that run disarms it.
WatchdogInv ==
  /\ stage # "idle" => run \in Runs
  /\ stage \in Beginning => dog[run] = "none"
  /\ stage \in Guarded => dog[run] \notin {"none", "disarmed"}
  /\ \A r \in Runs : r > run => dog[r] = "none"
  /\ \A r \in Runs : Pending(r) => tries[r] >= 1

\* What the machine knows of WARP where it goes on without looking again.
LastlyInv ==
  /\ stage \in Beginning => lastly = "none"
  /\ stage \in {"new_ip", "final", "disarm"} => lastly = "saw_on"
  /\ stage \in {"recover_wait", "recover_state"} => lastly = "on"
  /\ stage = "disarm_after" => lastly # "off"

\* A run that is to disarm once more has named what failed.
ResultInv ==
  /\ Active => ~result.success
  /\ stage = "deferred" => result.errors # {}
  /\ stage = "deferred" /\ lastly = "off" => "recovery" \in result.errors

Reports == LeftOffIsReported /\ ArmedIsDismissedOrReported

ChangeInv == ChangeTypeOK /\ WatchdogInv /\ LastlyInv /\ ResultInv /\ OffIsGuarded /\ Reports

-----------------------------------------------------------------------------
\* The result a run starts with.
LEMMA NoResultFacts == NoResult \in Results /\ ~NoResult.success
BY DEF NoResult, Results

\* A result that names an error is no success, and still names the others.
LEMMA NamesFacts ==
  ASSUME result \in Results, NEW error \in {"arm", "recovery", "watchdog"}
  PROVE  /\ Names(error) \in Results
         /\ ~Names(error).success
         /\ Names(error).errors = result.errors \cup {error}
BY DEF Results, Names

\* A call of Disarm touches the watchdog of its run only, which it can only
\* disarm, and its success is on record.
LEMMA DisarmsFacts ==
  ASSUME ChangeTypeOK, NEW alive \in BOOLEAN, NEW ok \in BOOLEAN, Disarms(alive, ok)
  PROVE  /\ dog' \in [Runs -> Places]
         /\ due' = due /\ tries' = tries
         /\ \A r \in Runs : r # run => dog'[r] = dog[r]
         /\ run \in Runs => dog'[run] \in {dog[run], "disarmed"}
         /\ dismissed' = (dismissed \/ ok)
<1> USE DEF ChangeTypeOK, Runs
<1>1. CASE alive /\ Pending(run)
  <2>1. PICK state \in {"disarmed", dog[run]} :
          dog' = [dog EXCEPT ![run] = state]
    BY <1>1 DEF Disarms
  <2> QED
    BY <1>1, <2>1 DEF Disarms, Pending, Places, AtWork
<1>2. CASE ~(alive /\ Pending(run))
  BY <1>2 DEF Disarms, Pending, Places, AtWork
<1> QED
  BY <1>1, <1>2

\* A step of a watchdog leaves the machine alone, and neither arms nor disarms.
LEMMA WatchdogFacts ==
  ASSUME ChangeInv, NEW r \in Runs, Due(r) \/ WatchdogRuns(r)
  PROVE  /\ UNCHANGED machine
         /\ due' \subseteq Runs
         /\ dog' \in [Runs -> Places]
         /\ tries' \in [Runs -> 0 .. MaxAttempts]
         /\ warp' \in WarpStates /\ drops' \in Nat
         /\ dismissed' = dismissed
         /\ \A q \in Runs : /\ dog'[q] \in {"none", "disarmed"} => dog'[q] = dog[q]
                            /\ dog[q] \in {"none", "disarmed"} => dog'[q] = dog[q]
                            /\ Pending(q)' => Pending(q) /\ tries'[q] >= 1

<1> USE DEF ChangeInv, ChangeTypeOK, WatchdogInv, Pending, Places, AtWork, Runs, machine,
      tunnel, WarpStates
<1> USE ChangeIPAssumption
<1>1. CASE Due(r)
  BY <1>1 DEF Due
<1>2. CASE Fires(r)
  BY <1>2 DEF Fires
<1>3. CASE Check(r)
  BY <1>3 DEF Check, Moves
<1>4. CASE Switch(r)
  <2>1. UNCHANGED <<machine, due, dismissed, drops>> /\ warp' \in WarpStates
    BY <1>4 DEF Switch, TurnsOn
  <2>2. CASE Moves(r, "verify")
    BY <1>4, <2>1, <2>2 DEF Moves, Switch
  <2>3. CASE NextTry(r)
    BY <1>4, <2>1, <2>3 DEF NextTry, Switch
  <2> QED
    BY <1>4, <2>2, <2>3 DEF Switch
<1>5. CASE Verify(r)
  <2>1. UNCHANGED <<machine, due, dismissed, tunnel>>
    BY <1>5 DEF Verify
  <2>2. CASE Moves(r, "done")
    BY <1>5, <2>1, <2>2 DEF Moves, Verify
  <2>3. CASE NextTry(r)
    BY <1>5, <2>1, <2>3 DEF NextTry, Verify
  <2> QED
    BY <1>5, <2>2, <2>3 DEF Verify
<1> QED
  BY <1>1, <1>2, <1>3, <1>4, <1>5 DEF WatchdogRuns

\* The three stages that disarm leave the machine idle with a Disarm that was
\* answered, or with a result that named a failure before.
LEMMA DisarmingFacts ==
  ASSUME ChangeInv, Disarm \/ DisarmAfter \/ Deferred
  PROVE  /\ stage \in {"disarm", "disarm_after", "deferred"}
         /\ UNCHANGED <<run, attempt, lastly, expired, due, tries, tunnel>>
         /\ dog' \in [Runs -> Places]
         /\ \A r \in Runs : r # run => dog'[r] = dog[r]
         /\ dog'[run] \in {dog[run], "disarmed"}
         /\ dismissed' \in BOOLEAN
         /\ result' \in Results
         /\ \/ /\ stage' = "idle"
               /\ report' = "succeeded"
               /\ \/ dismissed'
                  \/ result' = result /\ stage = "deferred"
            \/ /\ stage' = "deferred"
               /\ stage # "deferred"
               /\ report' = report
               /\ ~result'.success /\ result'.errors # {}
         /\ result.errors \subseteq result'.errors
<1> USE DEF ChangeInv, ChangeTypeOK
<1>1. stage \in {"disarm", "disarm_after", "deferred"} /\ run \in Runs
  BY DEF Disarm, DisarmAfter, Deferred, WatchdogInv
<1>2. CASE Disarm
  <2>1. PICK ok \in BOOLEAN :
          /\ Disarms(~expired, ok)
          /\ IF ok THEN Returns([result EXCEPT !.success = TRUE]) ELSE Defers(Names("watchdog"))
    BY <1>2 DEF Disarm
  <2>2. [result EXCEPT !.success = TRUE] \in Results
    BY DEF Results
  <2>3. [result EXCEPT !.success = TRUE].errors = result.errors
    BY DEF Results
  <2> QED
    BY <1>1, <1>2, <2>1, <2>2, <2>3, DisarmsFacts, NamesFacts DEF Disarm, Returns, ReportOf,
       Defers
<1>3. CASE DisarmAfter
  <2>1. PICK ok \in BOOLEAN :
          /\ Disarms(TRUE, ok)
          /\ IF ok THEN Returns(result) ELSE Defers(Names("watchdog"))
    BY <1>3 DEF DisarmAfter
  <2> QED
    BY <1>1, <1>3, <2>1, DisarmsFacts, NamesFacts DEF DisarmAfter, Returns, ReportOf, Defers
<1>4. CASE Deferred
  BY <1>1, <1>4, DisarmsFacts DEF Deferred, Returns, ReportOf
<1> QED
  BY <1>2, <1>3, <1>4

\* The first state satisfies it.
LEMMA ChangeInvStart == ChangeInit => ChangeInv
<1> SUFFICES ASSUME ChangeInit
             PROVE  ChangeInv
  OBVIOUS
<1>1. ChangeTypeOK
  <2>1. result \in Results
    BY NoResultFacts DEF ChangeInit
  <2>2. dog \in [Runs -> Places] /\ tries \in [Runs -> 0 .. MaxAttempts]
    BY ChangeIPAssumption DEF ChangeInit, Places
  <2>3. run \in 0 .. MaxRuns /\ attempt \in 0 .. MaxAttempts /\ drops \in Nat
    BY ChangeIPAssumption DEF ChangeInit
  <2>4. /\ stage \in Stages /\ due \subseteq Runs /\ expired \in BOOLEAN
        /\ dismissed \in BOOLEAN /\ warp \in WarpStates
    BY DEF ChangeInit, Stages
  <2>5. report \in {"none", "succeeded", "failed"} /\ lastly \in {"none", "off", "on", "saw_on"}
    BY DEF ChangeInit
  <2> QED
    BY <2>1, <2>2, <2>3, <2>4, <2>5 DEF ChangeTypeOK
<1> QED
  BY ChangeIPAssumption, <1>1
     DEF ChangeInit, ChangeInv, WatchdogInv, LastlyInv, ResultInv, OffIsGuarded, Reports, NoResult,
         LeftOffIsReported, ArmedIsDismissedOrReported, Runs, Beginning, Guarded, Active, Pending, AtWork

\* Every step keeps the types.
LEMMA TypeStep ==
  ASSUME ChangeInv, [ChangeNext]_change
  PROVE  ChangeTypeOK'
<1> USE ChangeIPAssumption DEF ChangeInv, ChangeTypeOK, Stages, WarpStates, machine,
      watchdog, tunnel
<1>1. CASE Precheck
  BY <1>1 DEF Precheck, Goes, Returns, ReportOf, StatusReads
<1>2. CASE OldIP
  BY <1>2 DEF OldIP, Goes, Returns, ReportOf
<1>3. CASE Arm
  <2>1. PICK ok, effect \in BOOLEAN :
          /\ dog' = [dog EXCEPT ![run] = IF effect THEN "armed" ELSE @]
          /\ tries' = [tries EXCEPT ![run] = MaxAttempts]
          /\ IF ok
             THEN stage' = "attempt" /\ attempt' = 1 /\ UNCHANGED <<run, result, report, expired>>
             ELSE Returns(Names("arm"))
    BY <1>3 DEF Arm
  <2>2. dog' \in [Runs -> Places]
    <3>1. (IF effect THEN "armed" ELSE dog[run]) \in Places
      BY <1>3 DEF Arm, WatchdogInv, Places, AtWork
    <3> QED
      BY <2>1, <3>1
  <2>3. tries' \in [Runs -> 0 .. MaxAttempts]
    <3>1. MaxAttempts \in 0 .. MaxAttempts
      OBVIOUS
    <3> QED
      BY <2>1, <3>1, Zenon
  <2>4. UNCHANGED <<lastly, due, dismissed, tunnel>>
    BY <1>3 DEF Arm
  <2> QED
    BY <2>1, <2>2, <2>3, <2>4, NamesFacts DEF Returns, ReportOf
<1>4. CASE Attempt
  BY <1>4 DEF Attempt, Goes
<1>5. CASE Off
  BY <1>5 DEF Off, Goes, NextAttempt, TurnsOff
<1>6. CASE WaitOff
  BY <1>6 DEF WaitOff, Goes, NextAttempt
<1>7. CASE On
  BY <1>7 DEF On, Goes, NextAttempt, TurnsOn
<1>8. CASE WaitOn
  BY <1>8 DEF WaitOn, Goes, NextAttempt
<1>9. CASE NewIP
  BY <1>9 DEF NewIP, Goes, NextAttempt
<1>10. CASE Final
  BY <1>10 DEF Final, Goes, NextAttempt, StatusReads
<1>11. CASE Settle
  BY <1>11 DEF Settle, Goes, NeedsRecovery, StatusReads
<1>12. CASE Recover
  BY <1>12 DEF Recover, Goes, StatusReads
<1>13. CASE RecoverOn
  BY <1>13, NamesFacts DEF RecoverOn, Goes, Defers, TurnsOn
<1>14. CASE RecoverWait
  BY <1>14, NamesFacts DEF RecoverWait, Goes, Defers
<1>15. CASE RecoverState
  BY <1>15, NamesFacts DEF RecoverState, Goes, Defers, StatusReads
<1>16. CASE Disarm \/ DisarmAfter \/ Deferred
  BY <1>16, DisarmingFacts
<1>17. CASE Begin
  <2>1. result' \in Results /\ run' \in 0 .. MaxRuns /\ attempt' \in 0 .. MaxAttempts
    BY <1>17, NoResultFacts DEF Begin
  <2>2. UNCHANGED <<due, dog, tries, warp, drops>>
    BY <1>17 DEF Begin
  <2>3. dismissed' = FALSE /\ stage' \in Stages /\ report' = "none" /\ lastly' = "none" /\ expired' = FALSE
    BY <1>17 DEF Begin
  <2> QED
    BY <2>1, <2>2, <2>3
<1>18. CASE Expire \/ Crash
  <2>1. CASE Expire
    BY <2>1 DEF Expire
  <2>2. CASE Crash
    BY <2>2 DEF Crash
  <2> QED
    BY <1>18, <2>1, <2>2
<1>19. ASSUME NEW r \in Runs, Due(r) \/ WatchdogRuns(r)
      PROVE  ChangeTypeOK'
  BY <1>19, WatchdogFacts
<1>20. CASE Connects \/ Drops
  BY <1>20 DEF Connects, Drops
<1>21. CASE UNCHANGED change
  BY <1>21 DEF change
<1> QED
  BY <1>1, <1>2, <1>3, <1>4, <1>5, <1>6, <1>7, <1>8, <1>9, <1>10, <1>11, <1>12, <1>13,
     <1>14, <1>15, <1>16, <1>17, <1>18, <1>19, <1>20, <1>21 DEF ChangeNext, Step

\* Every step keeps what is known of the watchdogs.
LEMMA WatchdogStep ==
  ASSUME ChangeInv, [ChangeNext]_change
  PROVE  WatchdogInv' /\ OffIsGuarded'
<1> USE ChangeIPAssumption DEF ChangeInv, WatchdogInv, OffIsGuarded, LastlyInv, ResultInv,
      ChangeTypeOK, Runs, Pending, Places, AtWork, Beginning, Guarded, Active, machine,
      watchdog, tunnel
<1>1. CASE Precheck
  BY <1>1 DEF Precheck, Goes, Returns, ReportOf, StatusReads
<1>2. CASE OldIP
  BY <1>2 DEF OldIP, Goes, Returns, ReportOf
<1>3. CASE Arm
  BY <1>3, NamesFacts DEF Arm, Returns, ReportOf
<1>4. CASE Attempt
  BY <1>4 DEF Attempt, Goes
<1>5. CASE Off
  BY <1>5 DEF Off, Goes, NextAttempt, TurnsOff
<1>6. CASE WaitOff
  BY <1>6 DEF WaitOff, Goes, NextAttempt
<1>7. CASE On
  BY <1>7 DEF On, Goes, NextAttempt, TurnsOn
<1>8. CASE WaitOn
  BY <1>8 DEF WaitOn, Goes, NextAttempt
<1>9. CASE NewIP
  BY <1>9 DEF NewIP, Goes, NextAttempt
<1>10. CASE Final
  BY <1>10 DEF Final, Goes, NextAttempt, StatusReads
<1>11. CASE Settle
  BY <1>11 DEF Settle, Goes, NeedsRecovery, StatusReads
<1>12. CASE Recover
  BY <1>12 DEF Recover, Goes, StatusReads
<1>13. CASE RecoverOn
  BY <1>13, NamesFacts DEF RecoverOn, Goes, Defers, TurnsOn
<1>14. CASE RecoverWait
  BY <1>14, NamesFacts DEF RecoverWait, Goes, Defers
<1>15. CASE RecoverState
  BY <1>15, NamesFacts DEF RecoverState, Goes, Defers, StatusReads
<1>16. CASE Disarm \/ DisarmAfter \/ Deferred
  <2>1. WatchdogInv'
    <3>1. /\ stage' \in {"idle", "deferred"}
          /\ run' = run /\ run \in Runs /\ tries' = tries
          /\ \A r \in Runs : dog'[r] \in {dog[r], "disarmed"}
          /\ \A r \in Runs : r # run => dog'[r] = dog[r]
      BY <1>16, DisarmingFacts
    <3> QED
      BY <3>1
  <2>2. OffIsGuarded'
    BY <1>16, DisarmingFacts
  <2> QED
    BY <2>1, <2>2
<1>17. CASE Begin
  <2>1. /\ run' \in Runs /\ run' = run + 1
        /\ UNCHANGED <<dog, tries>>
        /\ stage' = "precheck" /\ lastly' = "none"
    BY <1>17 DEF Begin
  <2>2. dog'[run'] = "none" /\ \A r \in Runs : r > run' => dog'[r] = "none"
    BY <2>1
  <2> QED
    BY <2>1, <2>2
<1>18. CASE Expire \/ Crash
  BY <1>18 DEF Expire, Crash
<1>19. ASSUME NEW r \in Runs, Due(r) \/ WatchdogRuns(r)
      PROVE  WatchdogInv' /\ OffIsGuarded'
  BY <1>19, WatchdogFacts
<1>20. CASE Connects \/ Drops
  BY <1>20 DEF Connects, Drops
<1>21. CASE UNCHANGED change
  BY <1>21 DEF change
<1> QED
  BY <1>1, <1>2, <1>3, <1>4, <1>5, <1>6, <1>7, <1>8, <1>9, <1>10, <1>11, <1>12, <1>13,
     <1>14, <1>15, <1>16, <1>17, <1>18, <1>19, <1>20, <1>21 DEF ChangeNext, Step

\* Every step keeps what is known of WARP and told by the result.
LEMMA ReportStep ==
  ASSUME ChangeInv, [ChangeNext]_change
  PROVE  LastlyInv' /\ ResultInv' /\ Reports'
<1> USE ChangeIPAssumption DEF ChangeInv, WatchdogInv, LastlyInv, ResultInv, Reports,
      LeftOffIsReported, ArmedIsDismissedOrReported, ChangeTypeOK, Runs, Pending, AtWork,
      Beginning, Guarded, Active, machine, watchdog, tunnel
<1>1. CASE Precheck
  BY <1>1 DEF Precheck, Goes, Returns, ReportOf, StatusReads
<1>2. CASE OldIP
  BY <1>2 DEF OldIP, Goes, Returns, ReportOf
<1>3. CASE Arm
  BY <1>3, NamesFacts DEF Arm, Returns, ReportOf
<1>4. CASE Attempt
  BY <1>4 DEF Attempt, Goes
<1>5. CASE Off
  BY <1>5 DEF Off, Goes, NextAttempt, TurnsOff
<1>6. CASE WaitOff
  BY <1>6 DEF WaitOff, Goes, NextAttempt
<1>7. CASE On
  BY <1>7 DEF On, Goes, NextAttempt, TurnsOn
<1>8. CASE WaitOn
  BY <1>8 DEF WaitOn, Goes, NextAttempt
<1>9. CASE NewIP
  BY <1>9 DEF NewIP, Goes, NextAttempt
<1>10. CASE Final
  BY <1>10 DEF Final, Goes, NextAttempt, StatusReads
<1>11. CASE Settle
  BY <1>11 DEF Settle, Goes, NeedsRecovery, StatusReads
<1>12. CASE Recover
  BY <1>12 DEF Recover, Goes, StatusReads
<1>13. CASE RecoverOn
  BY <1>13, NamesFacts DEF RecoverOn, Goes, Defers, TurnsOn
<1>14. CASE RecoverWait
  BY <1>14, NamesFacts DEF RecoverWait, Goes, Defers
<1>15. CASE RecoverState
  BY <1>15, NamesFacts DEF RecoverState, Goes, Defers, StatusReads
<1>16. CASE Disarm \/ DisarmAfter \/ Deferred
  <2>1. stage' # "idle" \/ dismissed' \/ (result' = result /\ stage = "deferred")
    BY <1>16, DisarmingFacts
  <2>2. ArmedIsDismissedOrReported'
    <3>1. SUFFICES ASSUME stage' = "idle", ~dismissed'
                   PROVE  ~result'.success /\ result'.errors # {} /\ result' \in Results
      BY DEF Results
    <3>2. result' = result /\ stage = "deferred"
      BY <2>1, <3>1
    <3> QED
      BY <3>2
  <2>3. LeftOffIsReported'
    BY <1>16, DisarmingFacts
  <2>4. LastlyInv' /\ ResultInv'
    BY <1>16, DisarmingFacts
  <2> QED
    BY <2>2, <2>3, <2>4
<1>17. CASE Begin
  BY <1>17, NoResultFacts DEF Begin
<1>18. CASE Expire \/ Crash
  BY <1>18 DEF Expire, Crash
<1>19. ASSUME NEW r \in Runs, Due(r) \/ WatchdogRuns(r)
      PROVE  LastlyInv' /\ ResultInv' /\ Reports'
  BY <1>19, WatchdogFacts
<1>20. CASE Connects \/ Drops
  BY <1>20 DEF Connects, Drops
<1>21. CASE UNCHANGED change
  BY <1>21 DEF change
<1> QED
  BY <1>1, <1>2, <1>3, <1>4, <1>5, <1>6, <1>7, <1>8, <1>9, <1>10, <1>11, <1>12, <1>13,
     <1>14, <1>15, <1>16, <1>17, <1>18, <1>19, <1>20, <1>21 DEF ChangeNext, Step

-----------------------------------------------------------------------------
\* ChangeInv holds in every state the code can reach.
THEOREM ChangeInvHolds == ChangeSpec => []ChangeInv
<1>1. ChangeInv /\ [ChangeNext]_change => ChangeInv'
  BY TypeStep, WatchdogStep, ReportStep DEF ChangeInv
<1> QED
  BY <1>1, ChangeInvStart, PTL DEF ChangeSpec

\* The machine and its watchdogs stay within their types.
THEOREM ChangeTypeCorrect == ChangeSpec => []ChangeTypeOK
BY ChangeInvHolds, PTL DEF ChangeInv

\* Whenever change_ip has WARP down, its watchdog is armed, at work or has had its
\* turn, also after a crash.
THEOREM OffIsGuardedHolds == ChangeSpec => []OffIsGuarded
BY ChangeInvHolds, PTL DEF ChangeInv

\* Run never returns with WARP down and no attempt to turn it on, without naming
\* the failed recovery.
THEOREM LeftOffIsReportedHolds == ChangeSpec => []LeftOffIsReported
BY ChangeInvHolds, PTL DEF ChangeInv, Reports

\* A run that armed a watchdog and returns without a Disarm that was answered is no
\* success, and names an error of arming, of disarming or of the recovery.
THEOREM ArmedIsDismissedOrReportedHolds == ChangeSpec => []ArmedIsDismissedOrReported
BY ChangeInvHolds, PTL DEF ChangeInv, Reports
=============================================================================
