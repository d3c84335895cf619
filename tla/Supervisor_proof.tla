---------------------------- MODULE Supervisor_proof ----------------------------
(***************************************************************************)
(* Proofs about Supervisor.  SonsAreOurs, DeathNotLost and NoOrphans are   *)
(* inductive together.  What the exit code tells, and how much time a son  *)
(* was given, depends on how the parent came to where it is: SignalOrder   *)
(* and Timekeeping keep that.                                              *)
(***************************************************************************)
EXTENDS Supervisor, TLAPS

\* A SIGINT that came first is still the reason while nothing has failed; a death
\* that came first is still to be read until main_wait has looked at it.
SignalOrder ==
  /\ "main" \in interrupted => first # "none"
  /\ first = "SIGCHLD" =>
       \/ sigchld
       \/ pc \in {"interrupt", "sons_wait", "reap", "check", "exited"}
       \/ pc = "terminate" /\ return_code = -1
  /\ pc \in {"interrupt", "sons_wait", "reap", "check"} /\ return_code = 0 =>
       first = "SIGINT" /\ "main" \in interrupted
  /\ pc = "terminate" \/ killed # {} => result = -1 \/ return_code = -1
  /\ pc = "main_wait" /\ sons = {} => result = -1

\* The time given to select and the time gone make up the timeout, and sons_wait has
\* a timeout only for sons that were interrupted.
Timekeeping ==
  /\ left + elapsed >= timeout
  /\ pc \in {"sons_wait", "reap", "check"} /\ timeout # 0 => sons \subseteq interrupted
  /\ pc = "check" => timeout = Patience /\ (sons = {} \/ left = 0 \/ wait_failed)

\* The inductive invariant.
ParentInv ==
  /\ TypeOK /\ SonsAreOurs /\ DeathNotLost /\ NoOrphans
  /\ SignalOrder /\ Timekeeping /\ ExitCodeHonest

\* What a step does to the sons: one is born, dies or is reaped, or nothing happens.
LEMMA SonsStep ==
  ASSUME TypeOK, NEW s \in Sons, NEW p \in {"unborn", "running", "zombie", "reaped"},
         process' = [process EXCEPT ![s] = p]
  PROVE  /\ process' \in [Sons -> {"unborn", "running", "zombie", "reaped"}]
         /\ Living' = IF p \in {"running", "zombie"} THEN Living \cup {s}
                       ELSE Living \ {s}
         /\ Running' = IF p = "running" THEN Running \cup {s} ELSE Running \ {s}
BY DEF TypeOK, Living, Running

\* A new wait has all its time left.
LEMMA BeginWaitTypes ==
  ASSUME PatienceAssumption, NEW t \in {0, Patience}, BeginWait(t)
  PROVE  /\ timeout' \in {0, Patience} /\ left' \in 0..timeout'
         /\ elapsed' \in 0..(timeout' + 1) /\ wait_failed' \in BOOLEAN
<1>1. timeout' = t /\ left' = t /\ elapsed' = 0 /\ wait_failed' = FALSE
  BY DEF BeginWait
<1>2. t \in Nat
  BY DEF PatienceAssumption
<1>3. t \in 0..t /\ 0 \in 0..(t + 1)
  BY <1>2
<1> QED BY <1>1, <1>3

\* Every step keeps the types: no time given to select is negative.
LEMMA ParentTypeStep ==
  ASSUME PatienceAssumption, TypeOK, [Next]_vars
  PROVE  TypeOK'
<1> USE DEF world, kernel, clock, First
<1>1. CASE ServiceFails
  BY <1>1 DEF ServiceFails, TypeOK
<1>2. CASE ForkServer
  BY SonsStep, <1>2 DEF ForkServer, Fork, Sons, TypeOK
<1>3. CASE ForkClient
  BY SonsStep, <1>3 DEF ForkClient, Fork, Sons, TypeOK
<1>4. CASE ForkClientFails
  BY <1>4 DEF ForkClientFails, KillAll, TypeOK
<1>5. CASE NoSons
  BY <1>5 DEF NoSons, TypeOK
<1>6. CASE WaitFails
  BY <1>6 DEF WaitFails, KillAll, TypeOK
<1>7. CASE Wake
  <2>1. CASE sigchld /\ return_code' = -1 /\ BeginWait(0) /\ pc' = "sons_wait"
    BY <1>7, <2>1, BeginWaitTypes DEF Wake, TypeOK
  <2>2. CASE UNCHANGED clock /\ UNCHANGED return_code /\ pc' = "interrupt"
    BY <1>7, <2>2 DEF Wake, TypeOK
  <2> QED BY <1>7, <2>1, <2>2 DEF Wake
<1>8. CASE InterruptAndWait
  <2>1. BeginWait(Patience)
    BY <1>8 DEF InterruptAndWait
  <2>2. /\ timeout' \in {0, Patience} /\ left' \in 0..timeout'
        /\ elapsed' \in 0..(timeout' + 1) /\ wait_failed' \in BOOLEAN
    BY <2>1, PatienceAssumption, BeginWaitTypes
  <2> QED BY <1>8, <2>2 DEF InterruptAndWait, InterruptSons, TypeOK
<1>9. CASE ReadSigchld
  BY <1>9 DEF ReadSigchld, Waiting, TypeOK
<1>10. CASE ReapDone
  BY PatienceAssumption, <1>10 DEF ReapDone, LeftNow, TypeOK
<1>11. CASE WaitEnds
  BY <1>11 DEF WaitEnds, TypeOK
<1>12. CASE Check
  BY <1>12 DEF Check, KillAll, TypeOK
<1>13. CASE Terminated
  BY <1>13 DEF Terminated, SonsInit, TypeOK
<1>14. ASSUME NEW s \in Sons, ReapSon(s) PROVE TypeOK'
  BY SonsStep, <1>14 DEF ReapSon, Reap, AfterReap, TypeOK
<1>15. ASSUME NEW s \in Sons, TerminateReap(s) PROVE TypeOK'
  BY SonsStep, <1>15 DEF TerminateReap, Reap, TypeOK
<1>16. ASSUME NEW s \in Sons, Die(s) PROVE TypeOK'
  BY SonsStep, <1>16 DEF Die, TypeOK
<1>17. ASSUME NEW ps \in SUBSET (Sons \cup {"main"}), Signal(ps) PROVE TypeOK'
  BY <1>17 DEF Signal, TypeOK
<1>18. CASE Tick
  BY PatienceAssumption, <1>18 DEF Tick, TypeOK
<1>19. CASE UNCHANGED vars
  BY <1>19 DEF vars, TypeOK
<1>20. Running \subseteq Sons
  BY DEF Running
<1>21. CASE WaitError
  BY <1>21 DEF WaitError, Waiting, TypeOK
<1> QED BY <1>1, <1>2, <1>3, <1>4, <1>5, <1>6, <1>7, <1>8, <1>9, <1>10, <1>11, <1>12,
            <1>13, <1>14, <1>15, <1>16, <1>17, <1>18, <1>19, <1>20, <1>21 DEF Next, Parent

\* struct sons changes together with the sons: at the forks, and for each son reaped.
LEMMA SonsAreOursStep ==
  ASSUME TypeOK, SonsAreOurs, [Next]_vars
  PROVE  SonsAreOurs'
<1> USE DEF world, kernel, clock, First
<1>1. CASE ServiceFails
  BY <1>1 DEF ServiceFails, SonsAreOurs, Living
<1>2. CASE ForkServer
  BY SonsStep, <1>2 DEF ForkServer, Fork, Sons, SonsAreOurs, Living
<1>3. CASE ForkClient
  BY SonsStep, <1>3 DEF ForkClient, Fork, Sons, SonsAreOurs, Living
<1>4. CASE ForkClientFails
  BY <1>4 DEF ForkClientFails, KillAll, SonsAreOurs, Living
<1>5. CASE NoSons
  BY <1>5 DEF NoSons, SonsAreOurs, Living
<1>6. CASE WaitFails
  BY <1>6 DEF WaitFails, KillAll, SonsAreOurs, Living
<1>7. CASE Wake
  BY <1>7 DEF Wake, BeginWait, SonsAreOurs, Living
<1>8. CASE InterruptAndWait
  BY <1>8 DEF InterruptAndWait, BeginWait, InterruptSons, SonsAreOurs, Living
<1>9. CASE ReadSigchld
  BY <1>9 DEF ReadSigchld, Waiting, SonsAreOurs, Living
<1>10. CASE ReapDone
  BY <1>10 DEF ReapDone, SonsAreOurs, Living
<1>11. CASE WaitEnds
  BY <1>11 DEF WaitEnds, SonsAreOurs, Living
<1>12. CASE Check
  BY <1>12 DEF Check, KillAll, SonsAreOurs, Living
<1>13. CASE Terminated
  BY <1>13 DEF Terminated, SonsInit, SonsAreOurs, Living
<1>14. ASSUME NEW s \in Sons, ReapSon(s) PROVE SonsAreOurs'
  BY SonsStep, <1>14 DEF ReapSon, Reap, AfterReap, SonsAreOurs, Living
<1>15. ASSUME NEW s \in Sons, TerminateReap(s) PROVE SonsAreOurs'
  BY SonsStep, <1>15 DEF TerminateReap, Reap, SonsAreOurs, Living
<1>16. ASSUME NEW s \in Sons, Die(s) PROVE SonsAreOurs'
  BY SonsStep, <1>16 DEF Die, SonsAreOurs, Living
<1>17. ASSUME NEW ps \in SUBSET (Sons \cup {"main"}), Signal(ps) PROVE SonsAreOurs'
  BY <1>17 DEF Signal, SonsAreOurs, Living
<1>18. CASE Tick
  BY <1>18 DEF Tick, SonsAreOurs, Living
<1>19. CASE UNCHANGED vars
  BY <1>19 DEF vars, SonsAreOurs, Living
<1>20. Running \subseteq Sons
  BY DEF Running
<1>21. CASE WaitError
  BY <1>21 DEF WaitError, Waiting, SonsAreOurs, Living
<1> QED BY <1>1, <1>2, <1>3, <1>4, <1>5, <1>6, <1>7, <1>8, <1>9, <1>10, <1>11, <1>12,
            <1>13, <1>14, <1>15, <1>16, <1>17, <1>18, <1>19, <1>20, <1>21 DEF Next, Parent

\* A zombie is made together with its SIGCHLD, and no SIGCHLD is read without the
\* parent reaping until there is no zombie.
LEMMA DeathNotLostStep ==
  ASSUME TypeOK, DeathNotLost, [Next]_vars
  PROVE  DeathNotLost'
<1> USE DEF world, kernel, clock, First
<1>1. CASE ServiceFails
  BY <1>1 DEF ServiceFails, DeathNotLost, TypeOK, Living, Running
<1>2. CASE ForkServer
  BY <1>2 DEF ForkServer, Fork, Sons, DeathNotLost, TypeOK, Living, Running
<1>3. CASE ForkClient
  BY <1>3 DEF ForkClient, Fork, Sons, DeathNotLost, TypeOK, Living, Running
<1>4. CASE ForkClientFails
  BY <1>4 DEF ForkClientFails, KillAll, DeathNotLost, TypeOK, Living, Running
<1>5. CASE NoSons
  BY <1>5 DEF NoSons, DeathNotLost, TypeOK, Living, Running
<1>6. CASE WaitFails
  BY <1>6 DEF WaitFails, KillAll, DeathNotLost, TypeOK, Living, Running
<1>7. CASE Wake
  BY <1>7 DEF Wake, BeginWait, DeathNotLost, TypeOK, Living, Running
<1>8. CASE InterruptAndWait
  BY <1>8 DEF InterruptAndWait, BeginWait, InterruptSons, DeathNotLost, TypeOK,
              Living, Running
<1>9. CASE ReadSigchld
  BY <1>9 DEF ReadSigchld, Waiting, DeathNotLost, TypeOK, Living, Running
<1>10. CASE ReapDone
  BY <1>10 DEF ReapDone, DeathNotLost, TypeOK, Living, Running
<1>11. CASE WaitEnds
  BY <1>11 DEF WaitEnds, DeathNotLost, TypeOK, Living, Running
<1>12. CASE Check
  BY <1>12 DEF Check, KillAll, DeathNotLost, TypeOK, Living, Running
<1>13. CASE Terminated
  BY <1>13 DEF Terminated, SonsInit, DeathNotLost, TypeOK, Living, Running
<1>14. ASSUME NEW s \in Sons, ReapSon(s) PROVE DeathNotLost'
  BY <1>14 DEF ReapSon, Reap, AfterReap, DeathNotLost, TypeOK, Living, Running
<1>15. ASSUME NEW s \in Sons, TerminateReap(s) PROVE DeathNotLost'
  BY <1>15 DEF TerminateReap, Reap, DeathNotLost, TypeOK, Living, Running
<1>16. ASSUME NEW s \in Sons, Die(s) PROVE DeathNotLost'
  BY <1>16 DEF Die, DeathNotLost, TypeOK, Living, Running
<1>17. ASSUME NEW ps \in SUBSET (Sons \cup {"main"}), Signal(ps) PROVE DeathNotLost'
  BY <1>17 DEF Signal, DeathNotLost, TypeOK, Living, Running
<1>18. CASE Tick
  BY <1>18 DEF Tick, DeathNotLost, TypeOK, Living, Running
<1>19. CASE UNCHANGED vars
  BY <1>19 DEF vars, DeathNotLost, TypeOK, Living, Running
<1>20. Running \subseteq Sons
  BY DEF Running
<1>21. CASE WaitError
  BY <1>21 DEF WaitError, Waiting, DeathNotLost, TypeOK, Living, Running
<1> QED BY <1>1, <1>2, <1>3, <1>4, <1>5, <1>6, <1>7, <1>8, <1>9, <1>10, <1>11, <1>12,
            <1>13, <1>14, <1>15, <1>16, <1>17, <1>18, <1>19, <1>20, <1>21 DEF Next, Parent

\* The parent leaves with nobody left: by SonsAreOurs an empty struct sons means no
\* sons, and sons_terminate waits for everybody.
LEMMA NoOrphansStep ==
  ASSUME TypeOK, SonsAreOurs, NoOrphans, [Next]_vars
  PROVE  NoOrphans'
<1> USE DEF world, kernel, clock, First
<1>1. CASE ServiceFails
  BY <1>1 DEF ServiceFails, NoOrphans, SonsAreOurs, Living
<1>2. CASE ForkServer
  BY SonsStep, <1>2 DEF ForkServer, Fork, Sons, NoOrphans, SonsAreOurs, Living
<1>3. CASE ForkClient
  BY SonsStep, <1>3 DEF ForkClient, Fork, Sons, NoOrphans, SonsAreOurs, Living
<1>4. CASE ForkClientFails
  BY <1>4 DEF ForkClientFails, KillAll, NoOrphans, SonsAreOurs, Living
<1>5. CASE NoSons
  BY <1>5 DEF NoSons, NoOrphans, SonsAreOurs, Living
<1>6. CASE WaitFails
  BY <1>6 DEF WaitFails, KillAll, NoOrphans, SonsAreOurs, Living
<1>7. CASE Wake
  BY <1>7 DEF Wake, BeginWait, NoOrphans, SonsAreOurs, Living
<1>8. CASE InterruptAndWait
  BY <1>8 DEF InterruptAndWait, BeginWait, InterruptSons, NoOrphans, SonsAreOurs, Living
<1>9. CASE ReadSigchld
  BY <1>9 DEF ReadSigchld, Waiting, NoOrphans, SonsAreOurs, Living
<1>10. CASE ReapDone
  BY <1>10 DEF ReapDone, NoOrphans, SonsAreOurs, Living
<1>11. CASE WaitEnds
  BY <1>11 DEF WaitEnds, NoOrphans, SonsAreOurs, Living
<1>12. CASE Check
  BY <1>12 DEF Check, KillAll, NoOrphans, SonsAreOurs, Living
<1>13. CASE Terminated
  BY <1>13 DEF Terminated, SonsInit, NoOrphans, SonsAreOurs, Living
<1>14. ASSUME NEW s \in Sons, ReapSon(s) PROVE NoOrphans'
  BY SonsStep, <1>14 DEF ReapSon, Reap, AfterReap, NoOrphans, SonsAreOurs, Living
<1>15. ASSUME NEW s \in Sons, TerminateReap(s) PROVE NoOrphans'
  BY SonsStep, <1>15 DEF TerminateReap, Reap, NoOrphans, SonsAreOurs, Living
<1>16. ASSUME NEW s \in Sons, Die(s) PROVE NoOrphans'
  BY SonsStep, <1>16 DEF Die, NoOrphans, SonsAreOurs, Living
<1>17. ASSUME NEW ps \in SUBSET (Sons \cup {"main"}), Signal(ps) PROVE NoOrphans'
  BY <1>17 DEF Signal, NoOrphans, SonsAreOurs, Living
<1>18. CASE Tick
  BY <1>18 DEF Tick, NoOrphans, SonsAreOurs, Living
<1>19. CASE UNCHANGED vars
  BY <1>19 DEF vars, NoOrphans, SonsAreOurs, Living
<1>20. Running \subseteq Sons
  BY DEF Running
<1>21. CASE WaitError
  BY <1>21 DEF WaitError, Waiting, NoOrphans, SonsAreOurs, Living
<1> QED BY <1>1, <1>2, <1>3, <1>4, <1>5, <1>6, <1>7, <1>8, <1>9, <1>10, <1>11, <1>12,
            <1>13, <1>14, <1>15, <1>16, <1>17, <1>18, <1>19, <1>20, <1>21 DEF Next, Parent

\* What came first is the reason for which the parent goes where it goes.
LEMMA SignalOrderStep ==
  ASSUME TypeOK, SonsAreOurs, SignalOrder, [Next]_vars
  PROVE  SignalOrder'
<1> USE DEF world, kernel, clock, First
<1>1. CASE ServiceFails
  BY <1>1 DEF ServiceFails, SignalOrder, TypeOK
<1>2. CASE ForkServer
  BY <1>2 DEF ForkServer, Fork, SignalOrder, TypeOK
<1>3. CASE ForkClient
  BY <1>3 DEF ForkClient, Fork, SignalOrder, TypeOK
<1>4. CASE ForkClientFails
  BY <1>4 DEF ForkClientFails, KillAll, SignalOrder, TypeOK
<1>5. CASE NoSons
  BY <1>5 DEF NoSons, SignalOrder, TypeOK
<1>6. CASE WaitFails
  BY <1>6 DEF WaitFails, KillAll, SignalOrder, TypeOK
<1>7. CASE Wake
  BY <1>7 DEF Wake, BeginWait, SignalOrder, TypeOK
<1>8. CASE InterruptAndWait
  BY <1>8 DEF InterruptAndWait, BeginWait, InterruptSons, Sons, SignalOrder, TypeOK
<1>9. CASE ReadSigchld
  BY <1>9 DEF ReadSigchld, Waiting, SignalOrder, TypeOK
<1>10. CASE ReapDone
  BY <1>10 DEF ReapDone, SignalOrder, TypeOK
<1>11. CASE WaitEnds
  BY <1>11 DEF WaitEnds, SignalOrder, TypeOK
<1>12. CASE Check
  BY <1>12 DEF Check, KillAll, SignalOrder, TypeOK
<1>13. CASE Terminated
  BY <1>13 DEF Terminated, SonsInit, SignalOrder, TypeOK
<1>14. ASSUME NEW s \in Sons, ReapSon(s) PROVE SignalOrder'
  BY <1>14 DEF ReapSon, Reap, AfterReap, SignalOrder, TypeOK
<1>15. ASSUME NEW s \in Sons, TerminateReap(s) PROVE SignalOrder'
  BY <1>15 DEF TerminateReap, Reap, SignalOrder, TypeOK
<1>16. ASSUME NEW s \in Sons, Die(s) PROVE SignalOrder'
  BY <1>16 DEF Die, SignalOrder, TypeOK
<1>17. ASSUME NEW ps \in SUBSET (Sons \cup {"main"}), Signal(ps) PROVE SignalOrder'
  BY <1>17 DEF Signal, SignalOrder, TypeOK
<1>18. CASE Tick
  BY <1>18 DEF Tick, SignalOrder, TypeOK
<1>19. CASE UNCHANGED vars
  BY <1>19 DEF vars, SignalOrder, TypeOK
<1>20. Running \subseteq Sons
  BY DEF Running
<1>21. CASE WaitError
  BY <1>21 DEF WaitError, Waiting, SignalOrder, TypeOK
<1> QED BY <1>1, <1>2, <1>3, <1>4, <1>5, <1>6, <1>7, <1>8, <1>9, <1>10, <1>11, <1>12,
            <1>13, <1>14, <1>15, <1>16, <1>17, <1>18, <1>19, <1>20, <1>21 DEF Next, Parent

\* Each second is taken from what is left, and left is computed anew from the same
\* clock.
LEMMA TimekeepingStep ==
  ASSUME PatienceAssumption, TypeOK, Timekeeping, [Next]_vars
  PROVE  Timekeeping'
<1> USE DEF world, kernel, clock, First
<1>1. CASE ServiceFails
  BY <1>1 DEF ServiceFails, Timekeeping, TypeOK
<1>2. CASE ForkServer
  BY <1>2 DEF ForkServer, Fork, Timekeeping, TypeOK
<1>3. CASE ForkClient
  BY <1>3 DEF ForkClient, Fork, Timekeeping, TypeOK
<1>4. CASE ForkClientFails
  BY <1>4 DEF ForkClientFails, KillAll, Timekeeping, TypeOK
<1>5. CASE NoSons
  BY <1>5 DEF NoSons, Timekeeping, TypeOK
<1>6. CASE WaitFails
  BY <1>6 DEF WaitFails, KillAll, Timekeeping, TypeOK
<1>7. CASE Wake
  BY PatienceAssumption, <1>7 DEF Wake, BeginWait, Timekeeping, TypeOK
<1>8. CASE InterruptAndWait
  BY PatienceAssumption, <1>8 DEF InterruptAndWait, BeginWait, InterruptSons,
                                  Timekeeping, TypeOK
<1>9. CASE ReadSigchld
  BY <1>9 DEF ReadSigchld, Waiting, Timekeeping, TypeOK
<1>10. CASE ReapDone
  BY PatienceAssumption, <1>10 DEF ReapDone, LeftNow, Timekeeping, TypeOK
<1>11. CASE WaitEnds
  BY PatienceAssumption, <1>11 DEF WaitEnds, Timekeeping, TypeOK
<1>12. CASE Check
  BY <1>12 DEF Check, KillAll, Timekeeping, TypeOK
<1>13. CASE Terminated
  BY <1>13 DEF Terminated, SonsInit, Timekeeping, TypeOK
<1>14. ASSUME NEW s \in Sons, ReapSon(s) PROVE Timekeeping'
  BY <1>14 DEF ReapSon, Reap, AfterReap, Timekeeping, TypeOK
<1>15. ASSUME NEW s \in Sons, TerminateReap(s) PROVE Timekeeping'
  BY <1>15 DEF TerminateReap, Reap, Timekeeping, TypeOK
<1>16. ASSUME NEW s \in Sons, Die(s) PROVE Timekeeping'
  BY <1>16 DEF Die, Timekeeping, TypeOK
<1>17. ASSUME NEW ps \in SUBSET (Sons \cup {"main"}), Signal(ps) PROVE Timekeeping'
  BY <1>17 DEF Signal, Timekeeping, TypeOK
<1>18. CASE Tick
  BY <1>18 DEF Tick, Timekeeping, TypeOK
<1>19. CASE UNCHANGED vars
  BY <1>19 DEF vars, Timekeeping, TypeOK
<1>20. Running \subseteq Sons
  BY DEF Running
<1>21. CASE WaitError
  BY <1>21 DEF WaitError, Waiting, Timekeeping, TypeOK
<1> QED BY <1>1, <1>2, <1>3, <1>4, <1>5, <1>6, <1>7, <1>8, <1>9, <1>10, <1>11, <1>12,
            <1>13, <1>14, <1>15, <1>16, <1>17, <1>18, <1>19, <1>20, <1>21 DEF Next, Parent

\* The exit code is settled when the parent leaves; SignalOrder says what it means.
LEMMA ExitCodeStep ==
  ASSUME TypeOK, SignalOrder, ExitCodeHonest, [Next]_vars
  PROVE  ExitCodeHonest'
<1> USE DEF world, kernel, clock, First
<1>1. CASE ServiceFails
  BY <1>1 DEF ServiceFails, ExitCodeHonest, ExitCode, SignalOrder, TypeOK
<1>2. CASE ForkServer
  BY <1>2 DEF ForkServer, Fork, ExitCodeHonest, ExitCode, SignalOrder, TypeOK
<1>3. CASE ForkClient
  BY <1>3 DEF ForkClient, Fork, ExitCodeHonest, ExitCode, SignalOrder, TypeOK
<1>4. CASE ForkClientFails
  BY <1>4 DEF ForkClientFails, KillAll, ExitCodeHonest, ExitCode, SignalOrder, TypeOK
<1>5. CASE NoSons
  BY <1>5 DEF NoSons, ExitCodeHonest, ExitCode, SignalOrder, TypeOK
<1>6. CASE WaitFails
  BY <1>6 DEF WaitFails, KillAll, ExitCodeHonest, ExitCode, SignalOrder, TypeOK
<1>7. CASE Wake
  BY <1>7 DEF Wake, BeginWait, ExitCodeHonest, ExitCode, SignalOrder, TypeOK
<1>8. CASE InterruptAndWait
  BY <1>8 DEF InterruptAndWait, BeginWait, InterruptSons, ExitCodeHonest, ExitCode,
              SignalOrder, TypeOK
<1>9. CASE ReadSigchld
  BY <1>9 DEF ReadSigchld, Waiting, ExitCodeHonest, ExitCode, SignalOrder, TypeOK
<1>10. CASE ReapDone
  BY <1>10 DEF ReapDone, ExitCodeHonest, ExitCode, SignalOrder, TypeOK
<1>11. CASE WaitEnds
  BY <1>11 DEF WaitEnds, ExitCodeHonest, ExitCode, SignalOrder, TypeOK
<1>12. CASE Check
  BY <1>12 DEF Check, KillAll, ExitCodeHonest, ExitCode, SignalOrder, TypeOK
<1>13. CASE Terminated
  BY <1>13 DEF Terminated, SonsInit, ExitCodeHonest, ExitCode, SignalOrder, TypeOK
<1>14. ASSUME NEW s \in Sons, ReapSon(s) PROVE ExitCodeHonest'
  BY <1>14 DEF ReapSon, Reap, AfterReap, ExitCodeHonest, ExitCode, SignalOrder, TypeOK
<1>15. ASSUME NEW s \in Sons, TerminateReap(s) PROVE ExitCodeHonest'
  BY <1>15 DEF TerminateReap, Reap, ExitCodeHonest, ExitCode, SignalOrder, TypeOK
<1>16. ASSUME NEW s \in Sons, Die(s) PROVE ExitCodeHonest'
  BY <1>16 DEF Die, ExitCodeHonest, ExitCode, SignalOrder, TypeOK
<1>17. ASSUME NEW ps \in SUBSET (Sons \cup {"main"}), Signal(ps) PROVE ExitCodeHonest'
  BY <1>17 DEF Signal, ExitCodeHonest, ExitCode, SignalOrder, TypeOK
<1>18. CASE Tick
  BY <1>18 DEF Tick, ExitCodeHonest, ExitCode, SignalOrder, TypeOK
<1>19. CASE UNCHANGED vars
  BY <1>19 DEF vars, ExitCodeHonest, ExitCode, SignalOrder, TypeOK
<1>20. Running \subseteq Sons
  BY DEF Running
<1>21. CASE WaitError
  BY <1>21 DEF WaitError, Waiting, ExitCodeHonest, ExitCode, SignalOrder, TypeOK
<1> QED BY <1>1, <1>2, <1>3, <1>4, <1>5, <1>6, <1>7, <1>8, <1>9, <1>10, <1>11, <1>12,
            <1>13, <1>14, <1>15, <1>16, <1>17, <1>18, <1>19, <1>20, <1>21 DEF Next, Parent

-----------------------------------------------------------------------------
(***************************************************************************)
(* The theorems.                                                           *)
(***************************************************************************)

\* The program begins without sons, signals or failures.
LEMMA ParentInvInit ==
  ASSUME PatienceAssumption, Init
  PROVE  ParentInv
<1>1. Living = {} /\ Running = {} /\ sons = {} /\ killed = {} /\ pc = "service"
  BY DEF Init, Living, Running
<1>2. TypeOK
  <2>1. process \in [Sons -> {"unborn", "running", "zombie", "reaped"}]
    BY DEF Init
  <2>2. timeout \in {0, Patience} /\ left \in 0..timeout /\ elapsed \in 0..(timeout + 1)
    BY DEF Init
  <2>3. proxy \in BOOLEAN /\ stubborn \subseteq Sons /\ sigchld \in BOOLEAN
    BY DEF Init
  <2> QED BY <2>1, <2>2, <2>3 DEF Init, TypeOK
<1>3. SonsAreOurs /\ DeathNotLost /\ NoOrphans /\ ExitCodeHonest
  BY <1>1 DEF SonsAreOurs, DeathNotLost, NoOrphans, ExitCodeHonest
<1>4. SignalOrder
  BY <1>1 DEF Init, SignalOrder
<1>5. Timekeeping
  BY <1>1 DEF Init, Timekeeping
<1> QED BY <1>2, <1>3, <1>4, <1>5 DEF ParentInv

\* The parent always has the invariant.
LEMMA ParentInvAlways ==
  ASSUME PatienceAssumption
  PROVE  Spec => []ParentInv
<1>1. Init => ParentInv
  BY ParentInvInit
<1>2. ParentInv /\ [Next]_vars => ParentInv'
  BY ParentTypeStep, SonsAreOursStep, DeathNotLostStep, NoOrphansStep, SignalOrderStep,
     TimekeepingStep, ExitCodeStep DEF ParentInv
<1> QED BY <1>1, <1>2, PTL DEF Spec

\* For every patience: the parent's fields keep to their types, and select in
\* sons_wait is never given a negative time.
THEOREM ParentTypeCorrect ==
  ASSUME PatienceAssumption PROVE Spec => []TypeOK
<1>1. ParentInv => TypeOK
  BY DEF ParentInv
<1> QED BY <1>1, ParentInvAlways, PTL

\* sons_kill never signals a pid that is not a son's any more.
THEOREM OnlySonsSignalled ==
  ASSUME PatienceAssumption PROVE Spec => []SonsAreOurs
<1>1. ParentInv => SonsAreOurs
  BY DEF ParentInv
<1> QED BY <1>1, ParentInvAlways, PTL

\* Two deaths that share a SIGCHLD, or a death while another is reaped, wake the
\* parent all the same.
THEOREM WakeUpsNotLost ==
  ASSUME PatienceAssumption PROVE Spec => []DeathNotLost
<1>1. ParentInv => DeathNotLost
  BY DEF ParentInv
<1> QED BY <1>1, ParentInvAlways, PTL

\* Whatever failed, the parent does not exit before its sons.
THEOREM NobodyLeftBehind ==
  ASSUME PatienceAssumption PROVE Spec => []NoOrphans
<1>1. ParentInv => NoOrphans
  BY DEF ParentInv
<1> QED BY <1>1, ParentInvAlways, PTL

\* An exit code of 0 is given only to a program that was interrupted first.
THEOREM ZeroMeansInterrupted ==
  ASSUME PatienceAssumption PROVE Spec => []ExitCodeHonest
<1>1. ParentInv => ExitCodeHonest
  BY DEF ParentInv
<1> QED BY <1>1, ParentInvAlways, PTL

\* Sons are killed for being stubborn only after all their time, however often it
\* was computed anew.
THEOREM PatienceIsKept ==
  ASSUME PatienceAssumption PROVE Spec => KillOnlyStubborn
<1> DEFINE Late == pc = "check" /\ killed' # killed =>
                     sons \subseteq interrupted /\ (elapsed >= Patience \/ wait_failed)
<1>1. ASSUME ParentInv, Next, pc = "check", killed' # killed
      PROVE  sons \subseteq interrupted /\ (elapsed >= Patience \/ wait_failed)
  <2>1. TypeOK /\ Timekeeping /\ Check
    BY <1>1 DEF ParentInv, Next, Parent, ServiceFails, ForkServer, ForkClient,
                ForkClientFails, NoSons, WaitFails, Wake, InterruptAndWait, ReadSigchld,
                ReapDone, WaitEnds, Terminated, ReapSon, TerminateReap, Die, Signal, Tick,
                WaitError, kernel
  <2>2. sons # {}
    BY <1>1, <2>1 DEF Check
  <2>3. /\ timeout = Patience /\ (left = 0 \/ wait_failed)
        /\ left + elapsed >= timeout /\ timeout # 0
    BY <1>1, <2>1, <2>2, PatienceAssumption DEF Timekeeping, PatienceAssumption
  <2>4. elapsed >= Patience \/ wait_failed
    BY <2>1, <2>3 DEF TypeOK
  <2> QED BY <1>1, <2>1, <2>3, <2>4 DEF Timekeeping
<1>2. ParentInv /\ [Next]_vars => [Late]_vars
  BY <1>1
<1> QED BY <1>2, ParentInvAlways, PTL DEF Spec, KillOnlyStubborn
===============================================================================
