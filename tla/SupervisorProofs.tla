-------------------------- MODULE SupervisorProofs --------------------------
(***************************************************************************)
(* Proofs about Supervisor for any set of boards and any number of kill    *)
(* commands that fail.                                                     *)
(***************************************************************************)
EXTENDS Supervisor, TLAPS

(***************************************************************************)
(* The inductive invariant: every orphan is due to a kill command that     *)
(* failed, and (in TypeOK) a running child belongs to a parent that sleeps,*)
(* checks it or is about to kill it.  Without the latter a fork could      *)
(* start a second child beside the first.                                  *)
(***************************************************************************)
IInv == TypeOK /\ orphans <= killFailures

LEMMA Invariance == Spec => []IInv
<1>1. Init => IInv
  <2> SUFFICES ASSUME Init PROVE IInv
    OBVIOUS
  <2>1. orphans = 0 /\ killFailures = 0 /\ 0 \in 0..MaxKillFailures
    BY SupervisorAssumption DEF Init
  <2>2. orphans <= killFailures
    BY DEF Init
  <2>3. chip \in BOOLEAN
    BY DEF Init
  <2>4. link \in [Targets -> PingResults]
    BY DEF Init
  <2>5. QED BY <2>1, <2>2, <2>3, <2>4 DEF Init, IInv, TypeOK
<1>2. IInv /\ [Next]_vars => IInv'
  <2> SUFFICES ASSUME IInv, [Next]_vars PROVE IInv'
    OBVIOUS
  <2> USE SupervisorAssumption DEF IInv, TypeOK
  <2>1. CASE Fork         BY <2>1 DEF Fork
  <2>2. CASE WakeUp       BY <2>2 DEF WakeUp
  <2>3. CASE StillRunning BY <2>3 DEF StillRunning
  <2>4. CASE Ended        BY <2>4 DEF Ended
  <2>5. CASE CheckPassed  BY <2>5 DEF CheckPassed
  <2>6. CASE CheckFailed  BY <2>6 DEF CheckFailed
  <2>7. CASE Kill         BY <2>7 DEF Kill
  <2>8. CASE KillFails    BY <2>8 DEF KillFails
  <2>9. CASE Reset        BY <2>9 DEF Reset
  <2>10. ASSUME NEW how \in {"exited", "crashed"}, End(how) PROVE IInv'
    BY <2>10 DEF End
  <2>11. CASE OrphanEnds  BY <2>11 DEF OrphanEnds
  <2>12. ASSUME NEW t \in Targets, LinkChanges(t) PROVE IInv'
    BY <2>12 DEF LinkChanges
  <2>13. CASE UNCHANGED vars BY <2>13 DEF vars
  <2>14. QED
    BY <2>1, <2>2, <2>3, <2>4, <2>5, <2>6, <2>7, <2>8, <2>9, <2>10, <2>11,
       <2>12, <2>13 DEF Next, Parent
<1>3. QED BY <1>1, <1>2, PTL DEF Spec

\* Every variable keeps its type, for any set of boards and any number of kill
\* commands that fail.
THEOREM TypeCorrect == Spec => []TypeOK
<1>1. IInv => TypeOK BY DEF IInv
<1>2. QED BY <1>1, Invariance, PTL

\* No two children drive the same interfaces unless a kill command failed, and
\* every failed one adds at most one more.
THEOREM ChildrenBounded == Spec => []OneChild
<1>1. IInv => OneChild
  BY SupervisorAssumption DEF IInv, TypeOK, OneChild
<1>2. QED BY <1>1, Invariance, PTL

\* Where the parent is, why it gave the last child up and whether it has reset the
\* chip is known to the parent alone: neither a child that ends, by itself or
\* as an orphan, nor a board whose answers change has a part in it.
LEMMA ParentAlone ==
  ASSUME [Next]_vars, ~Parent
  PROVE  UNCHANGED <<at, cause, chip>>
BY DEF Next, End, OrphanEnds, LinkChanges, vars

\* After a network failure the parent kills, then resets the chip, and only then
\* comes back to the fork, which forgets the cause.
FailureIsHandled ==
    cause = "network" => at \in {"kill", "reset"} \/ (at = "fork" /\ chip)

\* The steps of the parent that find no failure, and those by which it is handled.
LEMMA ParentHandles ==
  ASSUME FailureIsHandled, child \in {"none", "running", "exited", "crashed"}, Parent
  PROVE  FailureIsHandled'
<1>1. CASE Fork \/ Ended
  BY <1>1 DEF Fork, Ended, FailureIsHandled
<1>2. CASE WakeUp \/ StillRunning \/ CheckPassed
  BY <1>2 DEF WakeUp, StillRunning, CheckPassed, FailureIsHandled
<1>3. CASE CheckFailed \/ Kill \/ KillFails \/ Reset
  BY <1>3 DEF CheckFailed, Kill, KillFails, Reset, FailureIsHandled
<1>4. QED BY <1>1, <1>2, <1>3 DEF Parent

\* restart_op has run between a network failure and the next child, whether or
\* not the kill command succeeded.
THEOREM ResetComesFirst == Spec => ResetBeforeRestart
<1>1. Init => FailureIsHandled
  BY DEF Init, FailureIsHandled
<1>2. ASSUME TypeOK, FailureIsHandled, [Next]_vars
      PROVE  FailureIsHandled'
  <2>1. Parent => FailureIsHandled' BY <1>2, ParentHandles DEF TypeOK
  <2>2. ~Parent => FailureIsHandled' BY <1>2, ParentAlone DEF FailureIsHandled
  <2>3. QED BY <2>1, <2>2
\* At the fork a network failure means that the chip was reset.
<1>3. FailureIsHandled
        => [at = "fork" /\ at' # "fork" /\ cause = "network" => chip]_vars
  BY DEF FailureIsHandled
<1>4. QED
  BY <1>1, <1>2, <1>3, TypeCorrect, PTL DEF Spec, ResetBeforeRestart
=============================================================================
