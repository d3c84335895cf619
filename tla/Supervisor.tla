------------------------------ MODULE Supervisor ------------------------------
(***************************************************************************)
(* The parent process: it connects to the radio, forks the server process  *)
(* and, with -P, the client process, waits for SIGINT or for the death of  *)
(* a son, interrupts the sons that are left, gives them a minute and kills *)
(* those that are still there.                                             *)
(*                                                                         *)
(* SIGINT and SIGCHLD are blocked before the first fork and looked at      *)
(* through signalfd: a signal that comes twice is pending once, and stays  *)
(* pending until it is read.  SIGINT is never read, by nobody.             *)
(*                                                                         *)
(* A son may end at any moment, for reasons of its own; a stubborn one     *)
(* does not end when it is interrupted.  Time is counted in seconds.       *)
(*                                                                         *)
(* (X_Y is a plausible mistake in X; it is used only to see that a         *)
(* property notices it.)                                                   *)
(***************************************************************************)
EXTENDS Integers

CONSTANT Patience \* 60, seconds that interrupted sons are given

ASSUME PatienceAssumption == Patience \in Nat \ {0}

Sons == {"server", "client"}

VARIABLES
  proxy,       \* -P was given: there is a client process
  stubborn,    \* the sons that ignore SIGINT
  process,     \* of each son: unborn, running, zombie or reaped
  interrupted, \* the processes with a SIGINT pending
  killed,      \* the sons sent SIGKILL
  sigchld,     \* a SIGCHLD is pending in the parent
  pc,          \* where the parent is
  sons,        \* the pids in struct sons
  timeout,     \* argument of sons_wait
  left,        \* seconds until its select gives up
  elapsed,     \* seconds since sons_wait began
  wait_failed, \* result of sons_wait is ERROR
  result,      \* of run_proxy_service
  return_code, \* of main_wait
  first        \* history: the signal that came first, "none" before

world == <<proxy, stubborn>>
kernel == <<process, interrupted, killed, sigchld, first>>
clock == <<timeout, left, elapsed, wait_failed>>
vars == <<world, kernel, pc, sons, clock, result, return_code>>

ExitCode == IF result = 0 /\ return_code = 0 THEN 0 ELSE 1

First(signal) == IF first = "none" THEN signal ELSE first
Living == {s \in Sons : process[s] \in {"running", "zombie"}}

-----------------------------------------------------------------------------
(***************************************************************************)
(* run_proxy_service.                                                      *)
(***************************************************************************)

\* The pipe, the connection, the negotiation or the fork fails; a SIGINT that
\* comes meanwhile is one of the reasons.
ServiceFails ==
  /\ pc = "service" /\ pc' = "main_wait" /\ result' = -1
  /\ UNCHANGED <<world, kernel, sons, clock, return_code>>

\* A son is born without the pending signals of its parent.
Fork(s) == process' = [process EXCEPT ![s] = "running"] /\ sons' = sons \cup {s}

ForkServer ==
  /\ pc = "service" /\ Fork("server")
  /\ pc' = IF proxy THEN "fork_client" ELSE "main_wait"
  /\ UNCHANGED <<world, interrupted, killed, sigchld, first, clock, result, return_code>>

ForkClient ==
  /\ pc = "fork_client" /\ Fork("client") /\ pc' = "main_wait"
  /\ UNCHANGED <<world, interrupted, killed, sigchld, first, clock, result, return_code>>

\* sons_kill(SIGKILL), the first half of sons_terminate.
KillAll_Nobody == UNCHANGED killed
KillAll == killed' = killed \cup sons

ForkClientFails_Leave ==
  /\ pc = "fork_client" /\ result' = -1 /\ sons' = {} /\ pc' = "main_wait"
  /\ UNCHANGED <<world, kernel, clock, return_code>>
ForkClientFails ==
  /\ pc = "fork_client" /\ result' = -1 /\ KillAll /\ pc' = "terminate"
  /\ UNCHANGED <<world, process, interrupted, sigchld, first, sons, clock, return_code>>

-----------------------------------------------------------------------------
(***************************************************************************)
(* main_wait.                                                              *)
(***************************************************************************)
NoSons ==
  /\ pc = "main_wait" /\ sons = {} /\ pc' = "exited"
  /\ UNCHANGED <<world, kernel, sons, clock, result, return_code>>

\* signalfd or select fails.
WaitFails ==
  /\ pc = "main_wait" /\ sons # {}
  /\ return_code' = -1 /\ KillAll /\ pc' = "terminate"
  /\ UNCHANGED <<world, process, interrupted, sigchld, first, sons, clock, result>>

\* sons_wait begins.
BeginWait(t) == timeout' = t /\ left' = t /\ elapsed' = 0 /\ wait_failed' = FALSE

\* select returns; a son's death is looked at first.
Wake_IgnoreDeath ==
  /\ pc = "main_wait" /\ sons # {} /\ (sigchld \/ "main" \in interrupted)
  /\ \/ sigchld /\ "main" \notin interrupted
        /\ return_code' = -1 /\ BeginWait(0) /\ pc' = "sons_wait"
     \/ "main" \in interrupted /\ pc' = "interrupt" /\ UNCHANGED <<return_code, clock>>
  /\ UNCHANGED <<world, kernel, sons, result>>
Wake ==
  /\ pc = "main_wait" /\ sons # {} /\ (sigchld \/ "main" \in interrupted)
  /\ \/ sigchld /\ return_code' = -1 /\ BeginWait(0) /\ pc' = "sons_wait"
     \/ ~sigchld /\ pc' = "interrupt" /\ UNCHANGED <<return_code, clock>>
  /\ UNCHANGED <<world, kernel, sons, result>>

\* sons_kill(SIGINT); a zombie does not mind.
InterruptSons_Nobody == UNCHANGED interrupted
InterruptSons == interrupted' = interrupted \cup sons

InterruptAndWait ==
  /\ pc = "interrupt" /\ InterruptSons
  /\ BeginWait(Patience) /\ pc' = "sons_wait"
  /\ UNCHANGED <<world, process, killed, sigchld, first, sons, result, return_code>>

\* sons_wait goes on.
Waiting == pc = "sons_wait" /\ sons # {} /\ ~wait_failed

\* select in sons_wait: a SIGCHLD is read, which clears it.
ReadSigchld ==
  /\ Waiting /\ sigchld
  /\ sigchld' = FALSE /\ pc' = "reap"
  /\ UNCHANGED <<world, process, interrupted, killed, first, sons, clock, result,
                 return_code>>

\* select fails, or the read of the signal; main_wait does not look at the result.
WaitError ==
  /\ Waiting /\ wait_failed' = TRUE
  /\ UNCHANGED <<world, kernel, pc, sons, timeout, left, elapsed, result, return_code>>

\* waitpid and sons_remove.
Reap(s) ==
  /\ process[s] = "zombie"
  /\ process' = [process EXCEPT ![s] = "reaped"]
  /\ UNCHANGED <<world, interrupted, killed, sigchld, first, clock, result, return_code>>

\* One signal may stand for two deaths: waitpid is called until nobody is left.
AfterReap_OncePerSignal == pc' = "sons_wait"
AfterReap == UNCHANGED pc

ReapSon(s) == pc = "reap" /\ Reap(s) /\ sons' = sons \ {s} /\ AfterReap

\* What is left of the timeout when the clock has been read again.
LeftNow_OffByOne  == IF elapsed < timeout + 2 THEN timeout - elapsed ELSE 0
LeftNow == IF elapsed < timeout + 1 THEN timeout - elapsed ELSE 0

ReapDone ==
  /\ pc = "reap" /\ \A s \in Sons : process[s] # "zombie"
  /\ left' = LeftNow /\ pc' = "sons_wait"
  /\ UNCHANGED <<world, kernel, sons, timeout, elapsed, wait_failed, result, return_code>>

\* sons_wait returns: nobody is left, the time is up, or something failed.
WaitEnds ==
  /\ pc = "sons_wait" /\ (sons = {} \/ (~sigchld /\ left = 0) \/ wait_failed)
  /\ pc' = IF timeout = 0 THEN "interrupt" ELSE "check"
  /\ UNCHANGED <<world, kernel, sons, clock, result, return_code>>

Check ==
  /\ pc = "check"
  /\ \/ sons = {} /\ pc' = "exited" /\ UNCHANGED <<killed, return_code>>
     \/ sons # {} /\ KillAll /\ return_code' = -1 /\ pc' = "terminate"
  /\ UNCHANGED <<world, process, interrupted, sigchld, first, sons, clock, result>>

\* The second half of sons_terminate: wait for everybody, then sons_init.
SonsInit_Skipped == UNCHANGED sons
SonsInit == sons' = {}

TerminateReap(s) == pc = "terminate" /\ Reap(s) /\ UNCHANGED <<sons, pc>>

Terminated ==
  /\ pc = "terminate" /\ Living = {} /\ SonsInit
  /\ pc' = IF return_code = 0 THEN "main_wait" ELSE "exited"
  /\ UNCHANGED <<world, kernel, clock, result, return_code>>

Parent == \/ ServiceFails \/ ForkServer \/ ForkClient \/ ForkClientFails
          \/ NoSons \/ WaitFails \/ Wake \/ InterruptAndWait
          \/ ReadSigchld \/ WaitError \/ ReapDone \/ WaitEnds \/ Check \/ Terminated
          \/ \E s \in Sons : ReapSon(s) \/ TerminateReap(s)

-----------------------------------------------------------------------------
(***************************************************************************)
(* The sons, the user and the clock.                                       *)
(***************************************************************************)
Die(s) ==
  /\ process[s] = "running"
  /\ process' = [process EXCEPT ![s] = "zombie"]
  /\ sigchld' = TRUE /\ first' = First("SIGCHLD")
  /\ UNCHANGED <<world, interrupted, killed, pc, sons, clock, result, return_code>>

\* A son that has to end: it was killed, or it obeys its SIGINT.
Doomed(s) == s \in killed \/ (s \in interrupted /\ s \notin stubborn)

\* kill -INT of the parent, or Ctrl-C, which reaches the whole group.
Running == {s \in Sons : process[s] = "running"}
Signal(ps) ==
  /\ pc # "exited" /\ ~(ps \subseteq interrupted)
  /\ interrupted' = interrupted \cup ps /\ first' = First("SIGINT")
  /\ UNCHANGED <<world, process, killed, sigchld, pc, sons, clock, result, return_code>>

\* A second passes; it is of interest only to sons_wait.
Tick ==
  /\ pc \in {"sons_wait", "reap"} /\ elapsed <= timeout
  /\ elapsed' = elapsed + 1
  /\ left' = IF pc = "sons_wait" /\ left > 0 THEN left - 1 ELSE left
  /\ UNCHANGED <<world, kernel, pc, sons, timeout, wait_failed, result, return_code>>

Init ==
  /\ proxy \in BOOLEAN /\ stubborn \in SUBSET Sons
  /\ process = [s \in Sons |-> "unborn"]
  /\ interrupted = {} /\ killed = {} /\ sigchld = FALSE /\ first = "none"
  /\ pc = "service" /\ sons = {}
  /\ timeout = 0 /\ left = 0 /\ elapsed = 0 /\ wait_failed = FALSE
  /\ result = 0 /\ return_code = 0

Next == \/ Parent
        \/ \E s \in Sons : Die(s)
        \/ Signal({"main"}) \/ Signal({"main"} \cup Running)
        \/ Tick

Spec == Init /\ [][Next]_vars

\* The parent and its sons are scheduled, and the clock does not stop.
FairSpec ==
  /\ Spec /\ WF_vars(Parent) /\ WF_vars(Tick)
  /\ \A s \in Sons : WF_vars(Doomed(s) /\ Die(s))

-----------------------------------------------------------------------------
(***************************************************************************)
(* Safety.                                                                 *)
(***************************************************************************)

\* Types; the time given to select is never negative.
TypeOK ==
  /\ proxy \in BOOLEAN /\ stubborn \subseteq Sons
  /\ process \in [Sons -> {"unborn", "running", "zombie", "reaped"}]
  /\ interrupted \subseteq Sons \cup {"main"} /\ killed \subseteq Sons
  /\ sigchld \in BOOLEAN /\ first \in {"none", "SIGINT", "SIGCHLD"}
  /\ pc \in {"service", "fork_client", "main_wait", "interrupt", "sons_wait",
             "reap", "check", "terminate", "exited"}
  /\ sons \subseteq Sons
  /\ timeout \in {0, Patience} /\ left \in 0..timeout /\ elapsed \in 0..(timeout + 1)
  /\ wait_failed \in BOOLEAN
  /\ result \in {-1, 0} /\ return_code \in {-1, 0}

\* struct sons names the sons that are not reaped yet and nobody else, so that a
\* signal reaches a son and never the next owner of its pid.
SonsAreOurs == pc # "terminate" => sons = Living

\* The wake-up of a death is never lost: there is a SIGCHLD to read as long as
\* there is a zombie, except while the parent reaps.
DeathNotLost ==
  Living # Running => sigchld \/ pc \in {"reap", "terminate", "exited"}

\* Nobody is left behind, neither running nor as a zombie.
NoOrphans == pc = "exited" => Living = {}

\* The exit code 0 means that the parent was interrupted before any of its sons
\* ended, and that none of them had to be killed.
ExitCodeHonest ==
  pc = "exited" /\ ExitCode = 0 => first = "SIGINT" /\ killed = {} /\ "main" \in interrupted

\* A son is interrupted, and unless the waiting failed given all its time, before it
\* is killed for being stubborn.
KillOnlyStubborn ==
  [][pc = "check" /\ killed' # killed =>
       sons \subseteq interrupted /\ (elapsed >= Patience \/ wait_failed)]_vars

-----------------------------------------------------------------------------
(***************************************************************************)
(* Liveness, under FairSpec.                                               *)
(***************************************************************************)

\* SIGINT, and the end of any process of the proxy, end the whole program, whatever it is
\* doing and however stubborn its sons.
AllEnd == ("main" \in interrupted \/ Living # Running) ~> pc = "exited"

-----------------------------------------------------------------------------
(***************************************************************************)
(* What the documentation says and the code does not do.                   *)
(***************************************************************************)

\* radio-proxy.c:188 and Task.md:139: a program that is interrupted, and whose
\* sons all obey the same signal, ends with the code 0.
Obeyed(s) == process[s] # "unborn" => s \in interrupted \ killed
InterruptedEndsWell ==
  pc = "exited" /\ first = "SIGINT" /\ result = 0 /\ (\A s \in Sons : Obeyed(s)) =>
    ExitCode = 0
===============================================================================
