----------------------------- MODULE Supervisor -----------------------------
(***************************************************************************)
(* The parent process that keeps the tests running                         *)
(* (interface_group_operator.c: execute_func_in_subproc, restart_check,    *)
(* restart_op).                                                            *)
(*                                                                         *)
(* It forks the child that tests and listens, then wakes up every          *)
(* RESTART_CHECK_TIME_SPEC seconds, asks waitpid whether the child has     *)
(* ended, and if not pings the boards; when a board does not answer, it    *)
(* kills the child, resets the switch chip and forks again.                *)
(*                                                                         *)
(* The branch for waitpid returning -1 is left out: the child it asks for  *)
(* is never reaped before, so the call cannot fail.                        *)
(***************************************************************************)
EXTENDS Integers

CONSTANTS
    Targets,          \* the pinged addresses
    MaxKillFailures   \* bound: "sudo kill" commands that fail

ASSUME SupervisorAssumption == MaxKillFailures \in Nat

VARIABLES
    at,            \* where the parent is
    child,         \* the process the parent last forked
    orphans,       \* earlier children that still run
    killFailures,
    link,          \* what ping says of each target
    \* history variables
    cause,         \* why the last child was given up
    chip           \* whether restart_op has run since then

vars == <<at, child, orphans, killFailures, link, cause, chip>>

\* system() of a ping: 0; 256 when nobody answers; anything else, such as 512
\* or 32512, when ping itself fails or is not found.
PingResults == {"answer", "noAnswer", "pingFails"}

Init ==
    /\ at = "fork" /\ child = "none" /\ orphans = 0 /\ killFailures = 0
    /\ link \in [Targets -> PingResults]
    /\ cause = "none" /\ chip = FALSE

-----------------------------------------------------------------------------
(* The parent.                                                             *)

\* A fork that fails is tried again after a second.
Fork ==
    /\ at = "fork"
    /\ child' = "running"
    /\ at' = "asleep"
    /\ cause' = "none" /\ chip' = FALSE
    /\ UNCHANGED <<orphans, killFailures, link>>

WakeUp ==
    /\ at = "asleep"
    /\ at' = "awake"
    /\ UNCHANGED <<child, orphans, killFailures, link, cause, chip>>

\* waitpid(pid, &status, WNOHANG) = 0.
StillRunning ==
    /\ at = "awake" /\ child = "running"
    /\ at' = "check"
    /\ UNCHANGED <<child, orphans, killFailures, link, cause, chip>>

\* Mutant: only a normal exit is taken for the end of the child.
EndedWell ==
    /\ at = "awake" /\ child \in {"none", "exited"}
    /\ at' = "fork"
    /\ cause' = child
    /\ child' = "none"
    /\ UNCHANGED <<orphans, killFailures, link, chip>>

\* waitpid = pid: "sub proc finished correctly", however it ended.
Ended ==
    /\ at = "awake" /\ child # "running"
    /\ at' = "fork"
    /\ cause' = child
    /\ child' = "none"
    /\ UNCHANGED <<orphans, killFailures, link, chip>>

\* Mutant: one board that answers is enough.
RestartCheckAll == \A t \in Targets : link[t] = "noAnswer"

\* restart_check returns 0 at the first ping with 256.
RestartCheck == \E t \in Targets : link[t] = "noAnswer"

CheckPassed ==
    /\ at = "check" /\ ~RestartCheck
    /\ at' = "asleep"
    /\ UNCHANGED <<child, orphans, killFailures, link, cause, chip>>

CheckFailed ==
    /\ at = "check" /\ RestartCheck
    /\ at' = "kill"
    /\ cause' = "network"
    /\ UNCHANGED <<child, orphans, killFailures, link, chip>>

\* Mutant: the child is left to end by itself.
KillNot ==
    /\ at = "kill"
    /\ at' = "reset"
    /\ child' = "none"
    /\ orphans' = IF child = "running" THEN orphans + 1 ELSE orphans
    /\ UNCHANGED <<killFailures, link, cause, chip>>

\* Mutant: the chip is reset under the running child.
KillLater ==
    /\ at = "kill"
    /\ at' = "reset"
    /\ UNCHANGED <<child, orphans, killFailures, link, cause, chip>>

\* The killed child is never waited for: it stays a zombie.
Kill ==
    /\ at = "kill"
    /\ at' = "reset"
    /\ child' = "none"
    /\ UNCHANGED <<orphans, killFailures, link, cause, chip>>

\* "sudo kill" may be refused; nobody looks at its result.
KillFails ==
    /\ at = "kill" /\ child = "running"
    /\ killFailures < MaxKillFailures
    /\ killFailures' = killFailures + 1
    /\ at' = "reset"
    /\ child' = "none" /\ orphans' = orphans + 1
    /\ UNCHANGED <<link, cause, chip>>

\* Mutant: the chip is not reset.
ResetNot ==
    /\ at = "reset"
    /\ at' = "fork"
    /\ UNCHANGED <<child, orphans, killFailures, link, cause, chip>>

\* restart_op.
Reset ==
    /\ at = "reset"
    /\ at' = "fork"
    /\ chip' = TRUE
    /\ UNCHANGED <<child, orphans, killFailures, link, cause>>

-----------------------------------------------------------------------------
(* The child and the boards.                                               *)

\* The child is killed by a signal, or exits.
End(how) ==
    /\ child = "running"
    /\ child' = how
    /\ UNCHANGED <<at, orphans, killFailures, link, cause, chip>>

OrphanEnds ==
    /\ orphans > 0
    /\ orphans' = orphans - 1
    /\ UNCHANGED <<at, child, killFailures, link, cause, chip>>

LinkChanges(t) ==
    /\ \E r \in PingResults : link' = [link EXCEPT ![t] = r]
    /\ UNCHANGED <<at, child, orphans, killFailures, cause, chip>>

Parent ==
    \/ Fork
    \/ WakeUp
    \/ StillRunning
    \/ Ended
    \/ CheckPassed
    \/ CheckFailed
    \/ Kill
    \/ KillFails
    \/ Reset

Next ==
    \/ Parent
    \/ \E how \in {"exited", "crashed"} : End(how)
    \/ OrphanEnds
    \/ \E t \in Targets : LinkChanges(t)

Spec == Init /\ [][Next]_vars

\* The parent runs a loop of calls that return; forks do not fail for ever.
FairSpec == Spec /\ WF_vars(Parent)

-----------------------------------------------------------------------------
\* Every variable has its type.
TypeOK ==
    /\ at \in {"fork", "asleep", "awake", "check", "kill", "reset"}
    /\ child \in {"none", "running", "exited", "crashed"}
    /\ orphans \in 0..MaxKillFailures /\ killFailures \in 0..MaxKillFailures
    /\ link \in [Targets -> PingResults]
    /\ cause \in {"none", "network", "exited", "crashed"} /\ chip \in BOOLEAN
    /\ child = "running" => at \in {"asleep", "awake", "check", "kill"}

\* Two children never drive the same interfaces, as long as the kill commands
\* succeed; every failed one adds at most one more.
OneChild ==
    orphans + (IF child = "running" THEN 1 ELSE 0) <= 1 + killFailures
    /\ (killFailures = 0 => orphans = 0)

\* After a network failure no child is started before the chip was reset.
ResetBeforeRestart ==
    [][at = "fork" /\ at' # "fork" /\ cause = "network" => chip]_vars

\* Whatever ends the child, another one is started.
ChildComesBack == child # "running" ~> child = "running"

\* While a board stays silent and the child does not end by itself, the chip is
\* reset again and again.  A child that ends before every check would hide the
\* failure: the pings are skipped then.
SilenceIsReset ==
    \A t \in Targets :
        <>[](link[t] = "noAnswer" /\ child \in {"running", "none"}) => []<>(at = "reset")

\* interface_group_operator.c:696 resets the chip "when exited abnormally".
CrashIsReset ==
    [][at = "fork" /\ at' # "fork" /\ cause = "crashed" => chip]_vars
=============================================================================
