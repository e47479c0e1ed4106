-------------------------- MODULE LifecycleProofs ---------------------------
(***************************************************************************)
(* What holds of Lifecycle for every choice of who may ask for the end and *)
(* of the steps that may hang, and for every number of answers stored:     *)
(* VRChat has its own yt-dlp again before any part is stopped, the file of *)
(* the cache only advances, an undisturbed shutdown leaves every answer in *)
(* it, and the end is at most 35 steps of the program's own away.          *)
(***************************************************************************)
EXTENDS Lifecycle, FiniteSetTheorems, TLAPS

Phases == {"none", "restore", "unpublish", "collect", "steps", "done"}
Stopping == {"steps", "done"}

(* An execution of the shutdown, with any steps left to do. *)
IsExec(e) == e \in [phase : Phases, fast : BOOLEAN, early : BOOLEAN, cut : BOOLEAN,
                    back : BOOLEAN, todo : {e.todo}]

LifeTypes ==
    /\ IsExec(exec)
    /\ patcher \in [ticking : BOOLEAN, restored : BOOLEAN, failed : BOOLEAN, applied : BOOLEAN]

(* Nobody installs the wrapper once it was told to have been removed. *)
NativeOnceRestored == patcher.restored /\ ~patcher.failed => hook = "native"

RestoredFirst == exec.phase \notin {"none", "restore"} => patcher.restored

(* What is stopped is stopped by a step, or by one that was left behind. *)
StoppedBySteps ==
    /\ stopped # {} \/ exec.cut => exec.phase \in Stopping
    /\ proc = "returned" => exec.phase = "done"

LifeInv == LifeTypes /\ NativeOnceRestored /\ RestoredFirst /\ StoppedBySteps

LEMMA LifeInvImplies == LifeInv => NativeBeforeStop
BY DEF LifeInv, NativeOnceRestored, RestoredFirst, StoppedBySteps, Stopping, NativeBeforeStop

LEMMA InitLifeInv == Init => LifeInv
<1> SUFFICES ASSUME Init PROVE LifeInv
    OBVIOUS
<1>1. IsExec(exec)
    BY DEF Init, Phases, IsExec
<1>2. patcher \in [ticking : BOOLEAN, restored : BOOLEAN, failed : BOOLEAN, applied : BOOLEAN]
    BY DEF Init
<1>3. ~patcher.restored /\ exec.phase = "none" /\ stopped = {} /\ ~exec.cut /\ proc = "up"
    BY DEF Init
<1> QED BY <1>1, <1>2, <1>3 DEF LifeInv, LifeTypes, NativeOnceRestored, RestoredFirst, StoppedBySteps

-----------------------------------------------------------------------------
(* The wrapper and who restored it stay as they are, and nothing is stopped *)
(* that was not.                                                           *)
Untouched ==
    /\ hook' = hook /\ stopped' = stopped /\ proc' \in {proc, "killed"}
    /\ patcher' = patcher

LEMMA LifeUntouched ==
    ASSUME LifeInv, Untouched, IsExec(exec'),
           exec'.phase = exec.phase, exec'.cut = exec.cut
    PROVE  LifeInv'
BY DEF LifeInv, LifeTypes, Untouched, IsExec, NativeOnceRestored, RestoredFirst,
       StoppedBySteps, Stopping

LEMMA BeginKeeps ==
    ASSUME LifeInv, NEW fast \in BOOLEAN, Begin(fast), Untouched
    PROVE  LifeInv'
<1>1. CASE exec.phase # "none"
    BY <1>1, LifeUntouched DEF Begin, LifeInv, LifeTypes, IsExec
<1>2. CASE exec.phase = "none"
  <2> DEFINE early == main < Started
             e == [exec EXCEPT !.phase = "restore", !.fast = fast, !.early = early]
  <2>1. early \in BOOLEAN /\ exec' = e
    BY <1>2 DEF Begin
  <2> HIDE DEF early
  <2>2. IsExec(e) /\ e.phase = "restore" /\ e.cut = exec.cut
    BY <2>1 DEF LifeInv, LifeTypes, IsExec, Phases
  <2> HIDE DEF e
  <2>3. stopped = {} /\ ~exec.cut
    BY <1>2 DEF LifeInv, StoppedBySteps, Stopping
  <2>4. proc # "returned"
    BY <1>2 DEF LifeInv, StoppedBySteps
  <2> QED BY <2>1, <2>2, <2>3, <2>4
      DEF LifeInv, LifeTypes, IsExec, Untouched, NativeOnceRestored, RestoredFirst, StoppedBySteps
<1> QED BY <1>1, <1>2

(* A later phase, once the original was put back. *)
LEMMA PhaseKeeps ==
    ASSUME LifeInv, proc = "up", proc' = proc, hook' = hook, patcher' = patcher,
           exec.phase \notin {"none", "restore"},
           IsExec(exec'), exec'.phase \notin {"none", "restore"},
           stopped' # {} \/ exec'.cut => exec'.phase \in Stopping
    PROVE  LifeInv'
BY DEF LifeInv, LifeTypes, IsExec, NativeOnceRestored, RestoredFirst, StoppedBySteps

LEMMA MainKeeps ==
    ASSUME LifeInv, MainStep
    PROVE  LifeInv'
<1>t. IsExec(exec)
    BY DEF LifeInv, LifeTypes, IsExec
<1>1. CASE InstallShutdown \/ PutPart \/ StartPart \/ StartRelay
    BY <1>t, <1>1, LifeUntouched DEF InstallShutdown, PutPart, StartPart, StartRelay, Untouched
<1>2. CASE Recover
    BY <1>2 DEF Recover, LifeInv, LifeTypes, NativeOnceRestored, RestoredFirst, StoppedBySteps
<1>3. CASE StartPatcher
  <2>1. CASE patcher' = [patcher EXCEPT !.ticking = ~patcher.restored] /\ exec' = exec
    <3> DEFINE ticking == ~patcher.restored
               p == [patcher EXCEPT !.ticking = ticking]
    <3>1. ticking \in BOOLEAN /\ patcher' = p
      BY <2>1
    <3> HIDE DEF ticking
    <3>2. /\ p \in [ticking : BOOLEAN, restored : BOOLEAN, failed : BOOLEAN, applied : BOOLEAN]
          /\ p.restored = patcher.restored /\ p.failed = patcher.failed
      BY <3>1 DEF LifeInv, LifeTypes
    <3> HIDE DEF p
    <3> QED BY <1>3, <2>1, <3>1, <3>2
        DEF StartPatcher, LifeInv, LifeTypes, NativeOnceRestored, RestoredFirst, StoppedBySteps
  <2>2. CASE Begin(FALSE) /\ patcher' = patcher
    BY <1>3, <2>2, BeginKeeps DEF StartPatcher, Untouched
  <2> QED BY <1>3, <2>1, <2>2 DEF StartPatcher
<1>4. CASE WaitEnds
    BY <1>4, BeginKeeps DEF WaitEnds, Untouched
<1>5. CASE Returns
    BY <1>5 DEF Returns, LifeInv, LifeTypes, NativeOnceRestored, RestoredFirst, StoppedBySteps
<1> QED BY <1>1, <1>2, <1>3, <1>4, <1>5 DEF MainStep

LEMMA AskKeeps ==
    ASSUME LifeInv, Quits \/ CtrlC \/ Close \/ CloseReturns
    PROVE  LifeInv'
<1>1. Untouched
    BY DEF Quits, CtrlC, Close, CloseReturns, Untouched
<1>2. CASE exec' = exec
    BY <1>1, <1>2, LifeUntouched DEF LifeInv, LifeTypes, IsExec
<1>3. CASE \E fast \in BOOLEAN : Begin(fast)
    BY <1>1, <1>3, BeginKeeps
<1> QED BY <1>2, <1>3 DEF Quits, CtrlC, Close, CloseReturns

LEMMA ExecKeeps ==
    ASSUME LifeInv, ExecStep \/ \E s \in Services : LateStep(s)
    PROVE  LifeInv'
<1>t. IsExec(exec)
    BY DEF LifeInv, LifeTypes, IsExec
<1>n. exec.phase \notin Stopping => stopped = {} /\ ~exec.cut
    BY DEF LifeInv, StoppedBySteps
<1>1. CASE RestoreTools
  <2>1. PICK failed \in {patcher.failed, TRUE} :
           /\ patcher' = [patcher EXCEPT !.restored = TRUE, !.failed = failed]
           /\ hook' = "native" \/ failed
    <3>1. CASE hook' = "native" /\ patcher' = [patcher EXCEPT !.restored = TRUE]
      <4>1. [patcher EXCEPT !.restored = TRUE]
              = [patcher EXCEPT !.restored = TRUE, !.failed = patcher.failed]
        BY DEF LifeInv, LifeTypes
      <4> QED BY <3>1, <4>1
    <3>2. CASE patcher' = [patcher EXCEPT !.restored = TRUE, !.failed = TRUE]
      BY <3>2
    <3> QED BY <1>1, <3>1, <3>2 DEF RestoreTools
  <2> DEFINE p == [patcher EXCEPT !.restored = TRUE, !.failed = failed]
             e == [exec EXCEPT !.phase = "unpublish"]
  <2>2. /\ p \in [ticking : BOOLEAN, restored : BOOLEAN, failed : BOOLEAN, applied : BOOLEAN]
        /\ p.restored /\ p.failed = failed
    BY DEF LifeInv, LifeTypes
  <2>3. IsExec(e) /\ e.phase = "unpublish" /\ e.cut = exec.cut
    BY <1>t DEF IsExec, Phases
  <2>4. patcher' = p /\ exec' = e /\ stopped' = stopped /\ proc' = proc /\ proc = "up"
        /\ exec.phase \notin Stopping
    BY <1>1, <2>1 DEF RestoreTools, Stopping
  <2> HIDE DEF p, e
  <2> QED BY <1>n, <2>1, <2>2, <2>3, <2>4
      DEF LifeInv, LifeTypes, IsExec, NativeOnceRestored, RestoredFirst, StoppedBySteps
<1>2. CASE Unpublish
  <2> DEFINE phase == IF exec.fast THEN "done" ELSE "collect"
             e == [exec EXCEPT !.phase = phase]
  <2>1. phase \in Phases /\ phase \notin {"none", "restore"} /\ exec' = e
    BY <1>2 DEF Unpublish, Phases
  <2> HIDE DEF phase
  <2>2. IsExec(e) /\ e.phase = phase /\ e.cut = exec.cut
    BY <1>t, <2>1 DEF IsExec
  <2> HIDE DEF e
  <2> QED BY <1>2, <1>n, <2>1, <2>2, PhaseKeeps DEF Unpublish, Stopping
<1>3. CASE Collect
  <2> DEFINE todo == {i \in Steps : StepOrder[i] \in parts}
             e == [exec EXCEPT !.phase = "steps", !.todo = todo]
  <2>2. exec' = e
    BY <1>3 DEF Collect
  <2> HIDE DEF todo
  <2>3. IsExec(e) /\ e.phase = "steps"
    BY <1>t DEF IsExec, Phases
  <2> HIDE DEF e
  <2> QED BY <1>3, <2>2, <2>3, PhaseKeeps DEF Collect, Stopping
<1>4. CASE BeginFlush \/ \E s \in Services : LateStep(s)
  <2>1. proc = "up" /\ proc' = proc /\ hook' = hook /\ patcher' = patcher /\ exec' = exec
        /\ exec.phase \in Stopping
    BY <1>4 DEF BeginFlush, LateStep, InSteps, Stopping, LifeInv, StoppedBySteps
  <2> QED BY <1>t, <2>1, PhaseKeeps DEF Stopping
<1>5. CASE StepWorks \/ StepTimesOut
  <2>1. PICK cut \in BOOLEAN : NextStep(cut)
    BY <1>5 DEF StepWorks, StepTimesOut
  <2> DEFINE todo == exec.todo \ {Min(exec.todo)}
             was == exec.cut \/ cut
             e == [exec EXCEPT !.todo = todo, !.cut = was]
  <2>3. was \in BOOLEAN /\ exec' = e
    BY <2>1 DEF NextStep
  <2> HIDE DEF todo, was
  <2>4. IsExec(e) /\ e.phase = exec.phase
    BY <1>t, <2>3 DEF IsExec
  <2> HIDE DEF e
  <2>5. proc = "up" /\ proc' = proc /\ hook' = hook /\ patcher' = patcher /\ exec.phase = "steps"
    BY <1>5 DEF StepWorks, StepTimesOut, InSteps
  <2> QED BY <2>3, <2>4, <2>5, PhaseKeeps DEF Stopping
<1>6. CASE StepsEnd
  <2> DEFINE e == [exec EXCEPT !.phase = "done", !.todo = {}]
  <2>1. IsExec(e) /\ e.phase = "done"
    BY <1>t DEF IsExec, Phases
  <2>2. exec' = e
    BY <1>6 DEF StepsEnd
  <2> HIDE DEF e
  <2> QED BY <1>6, <2>1, <2>2, PhaseKeeps DEF StepsEnd, InSteps, Stopping
<1> QED BY <1>1, <1>2, <1>3, <1>4, <1>5, <1>6 DEF ExecStep

LEMMA PartsKeep ==
    ASSUME LifeInv, Tick \/ UseCache \/ Flush \/ Closer \/ Engage \/ Release
    PROVE  LifeInv'
<1>t. IsExec(exec)
    BY DEF LifeInv, LifeTypes, IsExec
<1>1. CASE Tick
  <2>1. CASE patcher.restored
    <3>1. /\ [patcher EXCEPT !.ticking = FALSE] \in
                  [ticking : BOOLEAN, restored : BOOLEAN, failed : BOOLEAN, applied : BOOLEAN]
          /\ [patcher EXCEPT !.ticking = FALSE].restored
          /\ [patcher EXCEPT !.ticking = FALSE].failed = patcher.failed
      BY <2>1 DEF LifeInv, LifeTypes
    <3> QED BY <1>1, <2>1, <3>1
        DEF Tick, LifeInv, LifeTypes, NativeOnceRestored, RestoredFirst, StoppedBySteps
  <2>2. CASE ~patcher.restored
    <3>1. /\ [patcher EXCEPT !.applied = TRUE] \in
                  [ticking : BOOLEAN, restored : BOOLEAN, failed : BOOLEAN, applied : BOOLEAN]
          /\ ~[patcher EXCEPT !.applied = TRUE].restored
      BY <2>2 DEF LifeInv, LifeTypes
    <3> QED BY <1>1, <2>2, <3>1
        DEF Tick, LifeInv, LifeTypes, NativeOnceRestored, RestoredFirst, StoppedBySteps
  <2> QED BY <2>1, <2>2
<1>2. CASE UseCache \/ Flush \/ Closer \/ Engage
    BY <1>t, <1>2, LifeUntouched DEF UseCache, Flush, Closer, Engage, lifeVars, Untouched
<1>3. CASE Release
  <2> DEFINE back == exec.phase # "none"
             e == [exec EXCEPT !.back = back]
  <2>1. back \in BOOLEAN /\ exec' = e
    BY <1>3 DEF Release
  <2> HIDE DEF back
  <2>2. IsExec(e) /\ e.phase = exec.phase /\ e.cut = exec.cut
    BY <1>t, <2>1 DEF IsExec
  <2> HIDE DEF e
  <2> QED BY <1>3, <2>1, <2>2, LifeUntouched DEF Release, Untouched
<1> QED BY <1>1, <1>2, <1>3

LEMMA NextKeepsLife == LifeInv /\ [Next]_vars => LifeInv'
<1> SUFFICES ASSUME LifeInv, [Next]_vars PROVE LifeInv'
    OBVIOUS
<1>1. CASE Next
    BY <1>1, MainKeeps, AskKeeps, ExecKeeps, PartsKeep DEF Next
<1>2. CASE UNCHANGED vars
    BY <1>2 DEF vars, lifeVars, LifeInv, LifeTypes, NativeOnceRestored, RestoredFirst, StoppedBySteps
<1> QED BY <1>1, <1>2

(* Core::run, PatchManager::start: VRChat has its own yt-dlp again before   *)
(* any part is stopped, whoever asks for the end and whichever steps hang.  *)
THEOREM NativeAlwaysBeforeStop == Spec => []NativeBeforeStop
BY InitLifeInv, NextKeepsLife, LifeInvImplies, PTL DEF Spec

-----------------------------------------------------------------------------
(* The port file.  A shutdown that begins after the start-up finds it, and  *)
(* nobody publishes it after that but a new session of VRChat's.            *)

PortsPut == 8       \* the step of StartUp that puts it

ShutdownFindsPorts ==
    /\ main \in 1 .. Closing
    /\ main > PortsPut => "ports" \in parts
    /\ exec.phase # "none" /\ ~exec.early => main >= Started

PortsStayGone ==
    exec.phase \notin {"none", "restore", "unpublish"} /\ ~exec.early /\ ~exec.back
        => ~ports.published

PortsTyped == ports \in [published : BOOLEAN, bypassed : BOOLEAN]

PortsInv == ShutdownFindsPorts /\ PortsStayGone /\ PortsTyped

LEMMA StartUpOrder ==
    /\ Started = 18 /\ Closing = 19
    /\ StartUp[PortsPut] = <<"put", "ports">>
    /\ \A i \in 1 .. PortsPut : StartUp[i][1] \notin {"patch", "start"}
<1>1. Len(StartUp) = 17
    BY DEF StartUp
<1>2. /\ StartUp[1][1] = "install" /\ StartUp[2][1] = "recover" /\ StartUp[3][1] = "put"
      /\ StartUp[4][1] = "put" /\ StartUp[5][1] = "up" /\ StartUp[6][1] = "put"
      /\ StartUp[7][1] = "up" /\ StartUp[8] = <<"put", "ports">>
    BY DEF StartUp
<1>3. \A i \in 1 .. 8 : i = 1 \/ i = 2 \/ i = 3 \/ i = 4 \/ i = 5 \/ i = 6 \/ i = 7 \/ i = 8
    OBVIOUS
<1>4. StartUp[8][1] = "put"
    BY <1>2
<1> HIDE DEF StartUp
<1>5. \A i \in 1 .. 8 : StartUp[i][1] \notin {"patch", "start"}
    BY <1>2, <1>3, <1>4
<1> QED BY <1>1, <1>2, <1>5 DEF Started, Closing, PortsPut

LEMMA InitPortsInv == Init => PortsInv
<1> SUFFICES ASSUME Init PROVE PortsInv
    OBVIOUS
<1>1. main = 1 /\ exec.phase = "none"
    BY DEF Init
<1>2. PortsTyped
    BY DEF Init, PortsTyped
<1>3. main \in 1 .. Closing /\ ~(main > PortsPut)
    BY <1>1, StartUpOrder DEF PortsPut
<1> QED BY <1>1, <1>2, <1>3 DEF PortsInv, ShutdownFindsPorts, PortsStayGone

(* The shutdown begins only where nothing is behind it. *)
LEMMA BeginKeepsPorts ==
    ASSUME LifeInv, PortsInv, NEW fast \in BOOLEAN, Begin(fast), ports' = ports,
           parts' = parts, main' \in {main, Closing}, main' = Closing => main > PortsPut
    PROVE  PortsInv'
<1>t. main \in 1 .. 19 /\ Started = 18 /\ Closing = 19 /\ PortsPut = 8
    BY StartUpOrder DEF PortsInv, ShutdownFindsPorts, PortsPut
<1>1. main' \in 1 .. 19 /\ main' >= main /\ (main' > 8 => main > 8)
    BY <1>t
<1>2. CASE exec.phase # "none"
  <2>1. exec' = exec
    BY <1>2 DEF Begin
  <2> QED BY <1>t, <1>1, <2>1 DEF PortsInv, ShutdownFindsPorts, PortsStayGone, PortsTyped
<1>3. CASE exec.phase = "none"
  <2> DEFINE early == main < Started
             e == [exec EXCEPT !.phase = "restore", !.fast = fast, !.early = early]
  <2>1. exec' = e
    BY <1>3 DEF Begin
  <2> HIDE DEF early
  <2>2. e.phase = "restore" /\ e.early = early
    BY DEF LifeInv, LifeTypes, IsExec
  <2> HIDE DEF e
  <2>3. ~early => main >= Started
    BY <1>t DEF early
  <2>4. ~exec'.early => main' >= Started
    BY <1>t, <1>1, <2>1, <2>2, <2>3
  <2> QED BY <1>t, <1>1, <2>1, <2>2, <2>4 DEF PortsInv, ShutdownFindsPorts, PortsStayGone, PortsTyped
<1> QED BY <1>2, <1>3

(* During the start-up no shutdown is under way but an early one. *)
LEMMA StartUpKeepsPorts ==
    ASSUME PortsInv, NEW op, At(op), main' = main + 1, exec' = exec, PortsTyped',
           parts \subseteq parts', main = PortsPut => "ports" \in parts'
    PROVE  PortsInv'
<1>t. main \in 1 .. 19 /\ Started = 18 /\ Closing = 19 /\ PortsPut = 8 /\ main < 18
    BY StartUpOrder DEF PortsInv, ShutdownFindsPorts, PortsPut, At
<1>1. main' \in 1 .. 19 /\ (main' > 8 => main > 8 \/ main = 8)
    BY <1>t
<1>2. exec.phase # "none" => exec.early
    BY <1>t DEF PortsInv, ShutdownFindsPorts
<1> QED BY <1>t, <1>1, <1>2 DEF PortsInv, ShutdownFindsPorts, PortsStayGone

LEMMA MainKeepsPorts ==
    ASSUME LifeInv, PortsInv, MainStep
    PROVE  PortsInv'
<1>t. main \in 1 .. 19 /\ Started = 18 /\ Closing = 19 /\ PortsPut = 8
    BY StartUpOrder DEF PortsInv, ShutdownFindsPorts, PortsPut
<1>o. ASSUME NEW op, At(op), main = PortsPut PROVE op = "put"
    BY <1>o, StartUpOrder DEF At
<1>1. CASE InstallShutdown
    BY <1>1, <1>o, StartUpKeepsPorts DEF InstallShutdown, Advances, PortsInv, PortsTyped
<1>2. CASE Recover
    BY <1>2, <1>o, StartUpKeepsPorts DEF Recover, Advances, PortsInv, PortsTyped
<1>3. CASE PutPart
  <2>1. parts \subseteq parts'
    BY <1>3 DEF PutPart
  <2>2. ASSUME main = PortsPut PROVE "ports" \in parts'
    <3>1. StartUp[main][2] = "ports"
      BY <2>2, StartUpOrder
    <3> QED BY <1>3, <3>1 DEF PutPart
  <2> QED BY <1>3, <2>1, <2>2, StartUpKeepsPorts DEF PutPart, Advances, PortsInv, PortsTyped
<1>4. CASE StartPart
    BY <1>4, <1>o, StartUpKeepsPorts DEF StartPart, Advances, PortsInv, PortsTyped
<1>5. CASE StartRelay
  <2>1. PortsTyped'
    BY <1>5 DEF StartRelay, PortsInv, PortsTyped
  <2> QED BY <1>5, <1>o, <2>1, StartUpKeepsPorts DEF StartRelay, Advances
<1>6. CASE StartPatcher
  <2>1. CASE Advances /\ exec' = exec
    BY <1>6, <1>o, <2>1, StartUpKeepsPorts DEF StartPatcher, Advances, PortsInv, PortsTyped
  <2>2. CASE Begin(FALSE) /\ main' = Closing
    <3>1. main > PortsPut
      <4>1. StartUp[main][1] = "patch"
        BY <1>6 DEF StartPatcher, At
      <4>2. main \notin 1 .. PortsPut
        BY <4>1, StartUpOrder
      <4> QED BY <1>t, <4>2
    <3> QED BY <1>6, <2>2, <3>1, BeginKeepsPorts DEF StartPatcher
  <2> QED BY <1>6, <2>1, <2>2 DEF StartPatcher
<1>7. CASE WaitEnds
  <2>1. /\ Begin(FALSE) /\ main = Started /\ main' = Closing
        /\ ports' = ports /\ parts' = parts
    BY <1>7 DEF WaitEnds
  <2>2. main > PortsPut
    BY <1>t, <2>1
  <2> QED BY <2>1, <2>2, BeginKeepsPorts
<1>8. CASE Returns
    BY <1>8 DEF Returns, PortsInv, ShutdownFindsPorts, PortsStayGone, PortsTyped
<1> QED BY <1>1, <1>2, <1>3, <1>4, <1>5, <1>6, <1>7, <1>8 DEF MainStep

(* Any step that publishes nothing and begins nothing. *)
LEMMA OthersKeepPorts ==
    ASSUME PortsInv, main' = main, "ports" \in parts => "ports" \in parts',
           ports' = ports, exec'.early = exec.early, exec'.back = exec.back,
           exec'.phase # "none" => exec.phase # "none",
           exec.phase = "none" \/ exec.phase = "restore" \/ exec.phase = "unpublish" =>
               exec'.phase = exec.phase \/ exec'.phase = "unpublish"
    PROVE  PortsInv'
BY DEF PortsInv, ShutdownFindsPorts, PortsStayGone, PortsTyped

LEMMA ExecKeepsPorts ==
    ASSUME LifeInv, PortsInv, ExecStep \/ \E s \in Services : LateStep(s)
    PROVE  PortsInv'
<1>t. IsExec(exec)
    BY DEF LifeInv, LifeTypes
<1>f. ASSUME NEW phase, NEW todo, NEW cut
      PROVE  /\ LET e == [exec EXCEPT !.phase = phase]
                IN  e.phase = phase /\ e.early = exec.early /\ e.back = exec.back
             /\ LET e == [exec EXCEPT !.phase = phase, !.todo = todo]
                IN  e.phase = phase /\ e.early = exec.early /\ e.back = exec.back
             /\ LET e == [exec EXCEPT !.todo = todo, !.cut = cut]
                IN  e.phase = exec.phase /\ e.early = exec.early /\ e.back = exec.back
    BY <1>t DEF IsExec
<1>1. CASE RestoreTools
    BY <1>1, <1>f, OthersKeepPorts DEF RestoreTools
<1>2. CASE Unpublish
  <2>1. PICK phase \in {"done", "collect"} : exec' = [exec EXCEPT !.phase = phase]
    BY <1>2 DEF Unpublish
  <2>2. exec'.phase = phase /\ exec'.early = exec.early /\ exec'.back = exec.back
    BY <1>f, <2>1
  <2> DEFINE published == ports.published /\ "ports" \notin parts
             p == [ports EXCEPT !.published = published]
  <2>3. published \in BOOLEAN /\ ports' = p
    BY <1>2 DEF Unpublish
  <2>4. published => ~(main > PortsPut)
    BY DEF PortsInv, ShutdownFindsPorts
  <2> HIDE DEF published
  <2>5. p.published = published /\ p \in [published : BOOLEAN, bypassed : BOOLEAN]
    BY <2>3 DEF PortsInv, PortsTyped
  <2> HIDE DEF p
  <2>6. main' = main /\ parts' = parts /\ exec.phase = "unpublish"
    BY <1>2 DEF Unpublish
  <2>7. ~exec.early => main >= Started
    BY <2>6 DEF PortsInv, ShutdownFindsPorts
  <2>8. main >= Started => main > PortsPut
    BY StartUpOrder DEF PortsPut, PortsInv, ShutdownFindsPorts
  <2> QED BY <2>2, <2>3, <2>4, <2>5, <2>6, <2>7, <2>8
      DEF PortsInv, ShutdownFindsPorts, PortsStayGone, PortsTyped
<1>3. CASE Collect
  <2>1. PICK todo : exec' = [exec EXCEPT !.phase = "steps", !.todo = todo]
    BY <1>3 DEF Collect
  <2>2. exec'.phase = "steps" /\ exec'.early = exec.early /\ exec'.back = exec.back
    BY <1>f, <2>1
  <2> QED BY <1>3, <2>2, OthersKeepPorts DEF Collect
<1>4. CASE BeginFlush \/ \E s \in Services : LateStep(s)
    BY <1>4, OthersKeepPorts DEF BeginFlush, LateStep
<1>5. CASE StepWorks \/ StepTimesOut
  <2>1. PICK todo, cut : exec' = [exec EXCEPT !.todo = todo, !.cut = cut]
    BY <1>5 DEF StepWorks, StepTimesOut, NextStep
  <2>2. exec'.phase = exec.phase /\ exec'.early = exec.early /\ exec'.back = exec.back
    BY <1>f, <2>1
  <2> QED BY <1>5, <2>2, OthersKeepPorts DEF StepWorks, StepTimesOut
<1>6. CASE StepsEnd
  <2>1. exec'.phase = "done" /\ exec'.early = exec.early /\ exec'.back = exec.back
    BY <1>6, <1>f DEF StepsEnd
  <2> QED BY <1>6, <2>1, OthersKeepPorts DEF StepsEnd, InSteps
<1> QED BY <1>1, <1>2, <1>3, <1>4, <1>5, <1>6 DEF ExecStep

LEMMA AskKeepsPorts ==
    ASSUME LifeInv, PortsInv, Quits \/ CtrlC \/ Close \/ CloseReturns
    PROVE  PortsInv'
<1>1. main' = main /\ parts' = parts /\ ports' = ports
    BY DEF Quits, CtrlC, Close, CloseReturns
<1>2. CASE exec' = exec
    BY <1>1, <1>2, OthersKeepPorts
<1>3. CASE \E fast \in BOOLEAN : Begin(fast)
  <2>1. main = Closing => main > PortsPut
    BY StartUpOrder DEF PortsPut
  <2> QED BY <1>1, <1>3, <2>1, BeginKeepsPorts
<1> QED BY <1>2, <1>3 DEF Quits, CtrlC, Close, CloseReturns

LEMMA PartsKeepPorts ==
    ASSUME LifeInv, PortsInv, Tick \/ UseCache \/ Flush \/ Closer \/ Engage \/ Release
    PROVE  PortsInv'
<1>1. CASE Tick \/ UseCache \/ Flush \/ Closer
    BY <1>1, OthersKeepPorts DEF Tick, UseCache, Flush, Closer, lifeVars
<1>2. CASE Engage
    BY <1>2 DEF Engage, PortsInv, ShutdownFindsPorts, PortsStayGone, PortsTyped
<1>3. CASE Release
  <2> DEFINE back == exec.phase # "none"
             e == [exec EXCEPT !.back = back]
  <2>1. exec' = e /\ (exec.phase # "none" => back)
    BY <1>3 DEF Release
  <2> HIDE DEF back
  <2>2. e.phase = exec.phase /\ e.early = exec.early /\ e.back = back
    BY DEF LifeInv, LifeTypes, IsExec
  <2> HIDE DEF e
  <2> QED BY <1>3, <2>1, <2>2 DEF Release, PortsInv, ShutdownFindsPorts, PortsStayGone, PortsTyped
<1> QED BY <1>1, <1>2, <1>3

LEMMA NextKeepsPorts == LifeInv /\ PortsInv /\ [Next]_vars => PortsInv'
<1> SUFFICES ASSUME LifeInv, PortsInv, [Next]_vars PROVE PortsInv'
    OBVIOUS
<1>1. CASE Next
    BY <1>1, MainKeepsPorts, AskKeepsPorts, ExecKeepsPorts, PartsKeepPorts DEF Next
<1>2. CASE UNCHANGED vars
    BY <1>2, OthersKeepPorts DEF vars, lifeVars
<1> QED BY <1>1, <1>2

LEMMA PortsInvImplies == LifeInv /\ PortsInv => GoneWhenStopped
BY DEF LifeInv, StoppedBySteps, PortsInv, PortsStayGone, GoneWhenStopped

(* install_shutdown, Core::run: the port file is gone when main returns,    *)
(* with the two exceptions the property names.                              *)
THEOREM PortsAlwaysGone == Spec => []GoneWhenStopped
BY InitLifeInv, NextKeepsLife, InitPortsInv, NextKeepsPorts, PortsInvImplies, PTL DEF Spec

-----------------------------------------------------------------------------
(* The file of the cache.  While two saves have not met, one writer at the   *)
(* most is between its copy and its rename, and nobody renames its file.     *)

OneSaves == \A w, o \in Writers : Saving(w) /\ Saving(o) => w = o

CopyIsAhead ==
    /\ disk \in Versions /\ disk <= mem
    /\ \A w \in Writers : Saving(w) =>
          /\ disk <= saver[w].copy /\ saver[w].copy <= mem
          /\ saver[w].at = "tmp"
          /\ saver[w].pc = "rename" => tmp = saver[w].copy

CacheInv == CacheTypeOK /\ ("overlap" \notin mishap => OneSaves /\ CopyIsAhead)

(* What is not dirty is in the file, or about to be. *)
WrittenOrSaving ==
    mishap = {} /\ ~dirty =>
        disk = mem \/ \E w \in Writers : Saving(w) /\ saver[w].copy = mem

(* An undisturbed shutdown finds the parts that fill the cache, stops them,  *)
(* and only then writes it.                                                 *)
Filling == {2, 3, 4}        \* their steps: tickers, logmon and ipc
Flushing == 7               \* the step of the cache
Undisturbed == ~exec.fast /\ ~exec.early /\ ~exec.cut

PartsArePut ==
    /\ main \in 1 .. Closing /\ exec.todo \subseteq Steps
    /\ exec.phase # "none" /\ ~exec.early => main >= Started
    /\ exec.phase = "none" \/ (~exec.early /\ exec.phase \notin Stopping) =>
        \A i \in 1 .. Len(StartUp) :
            i < main /\ StartUp[i][1] = "put" /\ StartUp[i][2] # "relay" => StartUp[i][2] \in parts

StepsToTake ==
    Undisturbed /\ exec.phase \in Stopping =>
        /\ \A i \in Filling : i \in exec.todo \/ StepOrder[i] \notin up
        /\ Flushing \in exec.todo \/ "cache" \in stopped

CacheIsLast ==
    Undisturbed /\ exec.phase \in Stopping =>
        /\ "cache" \in stopped =>
              /\ exec.todo \subseteq {Flushing}
              /\ saver["closer"].pc = "copy" \/ ~dirty
        /\ Flushing \notin exec.todo => saver["closer"].pc = "idle"
        /\ exec.phase = "done" => exec.todo = {}

AnswersInv == PartsArePut /\ StepsToTake /\ CacheIsLast

SaverRecord == [pc : {"idle", "copy", "open", "fill", "rename"}, copy : Versions,
                at : {"tmp", "disk", "gone"}]

LEMMA CacheTypes ==
    ASSUME CacheTypeOK
    PROVE  /\ MaxChanges \in Nat /\ SavesFail \in BOOLEAN
           /\ mem \in Versions /\ dirty \in BOOLEAN /\ due \in BOOLEAN /\ thread \in BOOLEAN
           /\ saver \in [Writers -> SaverRecord] /\ \A w \in Writers : saver[w] \in SaverRecord
           /\ tmp \in Versions \cup {Absent, Torn} /\ disk \in Versions \cup {Absent, Torn}
           /\ mishap \in SUBSET {"failed", "overlap"}
           /\ Versions \subseteq Nat /\ Torn \notin Versions
BY CacheAssumption DEF CacheTypeOK, SaverRecord, Versions, Torn

LEMMA SaverMoves ==
    ASSUME CacheTypeOK, NEW w \in Writers, NEW pc \in {"idle", "copy", "open", "fill", "rename"},
           saver' = [saver EXCEPT ![w].pc = pc]
    PROVE  /\ saver' \in [Writers -> SaverRecord]
           /\ saver'[w].pc = pc /\ saver'[w].copy = saver[w].copy /\ saver'[w].at = saver[w].at
           /\ \A o \in Writers \ {w} : saver'[o] = saver[o]
<1>1. saver \in [Writers -> SaverRecord] /\ saver[w] \in SaverRecord
    BY CacheTypes
<1>2. saver' = [saver EXCEPT ![w] = [saver[w] EXCEPT !.pc = pc]]
    BY <1>1
<1>3. /\ [saver[w] EXCEPT !.pc = pc] \in SaverRecord
      /\ [saver[w] EXCEPT !.pc = pc].pc = pc
      /\ [saver[w] EXCEPT !.pc = pc].copy = saver[w].copy
      /\ [saver[w] EXCEPT !.pc = pc].at = saver[w].at
    BY <1>1 DEF SaverRecord
<1> QED BY <1>1, <1>2, <1>3

LEMMA SaverEnds ==
    ASSUME CacheTypeOK, NEW w \in Writers, NEW place \in {"disk", "gone"}, Ends(w, place)
    PROVE  /\ saver' \in [Writers -> SaverRecord]
           /\ saver'[w].pc = "idle"
           /\ \A o \in Writers \ {w} :
                 /\ saver'[o].pc = saver[o].pc /\ saver'[o].copy = saver[o].copy
                 /\ saver[o].pc # "fill" => saver'[o] = saver[o]
<1>1. saver \in [Writers -> SaverRecord] /\ \A o \in Writers : saver[o] \in SaverRecord
    BY CacheTypes
<1>2. \A o \in Writers :
        /\ [saver[o] EXCEPT !.pc = "idle"] \in SaverRecord
        /\ [saver[o] EXCEPT !.pc = "idle"].pc = "idle"
        /\ [saver[o] EXCEPT !.at = place] \in SaverRecord
        /\ [saver[o] EXCEPT !.at = place].pc = saver[o].pc
        /\ [saver[o] EXCEPT !.at = place].copy = saver[o].copy
    BY <1>1 DEF SaverRecord
<1>3. saver'[w] = [saver[w] EXCEPT !.pc = "idle"]
    BY DEF Ends
<1>4. \A o \in Writers \ {w} :
        \/ saver'[o] = [saver[o] EXCEPT !.at = place] /\ saver[o].pc = "fill"
        \/ saver'[o] = saver[o]
    BY DEF Ends
<1>5. \A o \in Writers : saver'[o] \in SaverRecord
    BY <1>1, <1>2, <1>3, <1>4
<1>6. saver' = [o \in Writers |-> saver'[o]]
    BY DEF Ends
<1>7. saver' \in [Writers -> SaverRecord]
    BY <1>5, <1>6
<1> QED BY <1>2, <1>3, <1>4, <1>7

-----------------------------------------------------------------------------
(* Every step of the cache, whoever makes it. *)

CacheStep == Change \/ LoadDrops \/ FlushDue \/ FlusherEnds \/ \E w \in Writers : SaverStep(w)
CloserBegins ==
    /\ saver["closer"].pc = "idle"
    /\ saver' = [saver EXCEPT !["closer"].pc = "copy"]
    /\ UNCHANGED <<memVars, tmp, disk, mishap>>

FileAdvances ==
    "overlap" \notin mishap' =>
        disk' # Torn /\ (disk \in Versions => disk' \in Versions /\ disk' >= disk)

LEMMA CacheChanges ==
    ASSUME CacheInv, WrittenOrSaving, Change \/ LoadDrops
    PROVE  CacheInv' /\ WrittenOrSaving' /\ FileAdvances
<1>t. CacheTypeOK
    BY DEF CacheInv
<1>1. /\ mem < MaxChanges /\ mem' = mem + 1 /\ dirty' = TRUE /\ UNCHANGED fileVars
      /\ due' \in BOOLEAN /\ thread' \in BOOLEAN
    BY <1>t, CacheTypes DEF Change, LoadDrops, Marked, Schedule
<1>2. mem' \in Versions /\ mem <= mem'
    BY <1>t, <1>1, CacheTypes DEF Versions
<1>3. CacheTypeOK'
    BY <1>t, <1>1, <1>2 DEF CacheTypeOK, fileVars
<1>4. CopyIsAhead => CopyIsAhead'
  <2> SUFFICES ASSUME CopyIsAhead PROVE CopyIsAhead'
    OBVIOUS
  <2>1. \A w \in Writers : Saving(w)' <=> Saving(w)
    BY <1>1 DEF fileVars, Saving
  <2>2. \A w \in Writers : saver[w].copy \in Nat /\ mem \in Nat /\ disk \in Nat /\ mem' \in Nat
    BY <1>t, <1>2, CacheTypes DEF CopyIsAhead, SaverRecord
  <2>3. \A w \in Writers : Saving(w) => saver[w].copy <= mem'
    BY <1>2, <2>2 DEF CopyIsAhead
  <2>4. disk \in Nat /\ disk <= mem'
    BY <1>t, <1>2, CacheTypes DEF CopyIsAhead
  <2> QED BY <1>1, <2>1, <2>3, <2>4 DEF CopyIsAhead, fileVars
<1>5. CacheInv' /\ WrittenOrSaving'
    BY <1>1, <1>3, <1>4 DEF CacheInv, OneSaves, Saving, fileVars, WrittenOrSaving
<1>6. FileAdvances
    BY <1>t, <1>1, CacheTypes DEF CacheInv, CopyIsAhead, fileVars, FileAdvances
<1> QED BY <1>5, <1>6

(* A step that only moves the places where the writers are outside a save,   *)
(* or the thread.                                                            *)
LEMMA CachePlaces ==
    ASSUME CacheInv, WrittenOrSaving, CacheTypeOK', UNCHANGED <<mem, dirty, tmp, disk, mishap>>,
           \A w \in Writers : saver'[w].copy = saver[w].copy /\ saver'[w].at = saver[w].at,
           \A w \in Writers : (Saving(w)' <=> Saving(w)) /\ (saver'[w].pc = "rename" => saver[w].pc = "rename")
    PROVE  CacheInv' /\ WrittenOrSaving' /\ FileAdvances
<1>1. CacheInv' /\ WrittenOrSaving'
    BY DEF CacheInv, OneSaves, CopyIsAhead, WrittenOrSaving
<1>2. FileAdvances
    BY CacheTypes DEF CacheInv, CopyIsAhead, FileAdvances
<1> QED BY <1>1, <1>2

LEMMA CacheSchedules ==
    ASSUME CacheInv, WrittenOrSaving, FlushDue \/ FlusherEnds \/ CloserBegins
    PROVE  CacheInv' /\ WrittenOrSaving' /\ FileAdvances
<1>t. CacheTypeOK /\ {"flusher", "closer"} = Writers
    BY DEF CacheInv, Writers
<1>1. CASE FlusherEnds
  <2>1. CacheTypeOK'
    BY <1>t, <1>1 DEF FlusherEnds, CacheTypeOK, fileVars
  <2> QED BY <1>1, <2>1, CachePlaces DEF FlusherEnds, fileVars, Saving
<1>2. ASSUME NEW w \in Writers, saver[w].pc = "idle", saver' = [saver EXCEPT ![w].pc = "copy"],
             UNCHANGED <<mem, dirty, thread, tmp, disk, mishap>>, due' \in BOOLEAN
      PROVE  CacheInv' /\ WrittenOrSaving' /\ FileAdvances
  <2>1. /\ saver' \in [Writers -> SaverRecord]
        /\ saver'[w].pc = "copy" /\ saver'[w].copy = saver[w].copy /\ saver'[w].at = saver[w].at
        /\ \A o \in Writers \ {w} : saver'[o] = saver[o]
    BY <1>t, <1>2, SaverMoves
  <2>2. CacheTypeOK'
    BY <1>t, <1>2, <2>1 DEF CacheTypeOK, SaverRecord
  <2>3. \A o \in Writers : saver'[o].copy = saver[o].copy /\ saver'[o].at = saver[o].at
    BY <2>1
  <2>4. \A o \in Writers : (Saving(o)' <=> Saving(o)) /\ (saver'[o].pc = "rename" => saver[o].pc = "rename")
    BY <1>2, <2>1 DEF Saving
  <2> QED BY <1>2, <2>2, <2>3, <2>4, CachePlaces
<1>3. CASE FlushDue
    BY <1>t, <1>2, <1>3 DEF FlushDue, Goto
<1>4. CASE CloserBegins
    BY <1>t, <1>2, <1>4, CacheTypes DEF CloserBegins, memVars
<1> QED BY <1>1, <1>3, <1>4

LEMMA CacheCopies ==
    ASSUME CacheInv, WrittenOrSaving, NEW w \in Writers, Copy(w)
    PROVE  CacheInv' /\ WrittenOrSaving' /\ FileAdvances
<1>t. CacheTypeOK
    BY DEF CacheInv
<1>1. CASE ~dirty
  <2>1. /\ saver[w].pc = "copy" /\ saver' = [saver EXCEPT ![w].pc = "idle"]
        /\ dirty' = dirty /\ UNCHANGED <<mem, due, thread, tmp, disk, mishap>>
    BY <1>t, <1>1, CacheTypes DEF Copy, Goto
  <2>2. /\ saver' \in [Writers -> SaverRecord]
        /\ saver'[w].pc = "idle" /\ saver'[w].copy = saver[w].copy /\ saver'[w].at = saver[w].at
        /\ \A o \in Writers \ {w} : saver'[o] = saver[o]
    BY <1>t, <2>1, SaverMoves
  <2>3. CacheTypeOK'
    BY <1>t, <2>1, <2>2 DEF CacheTypeOK, SaverRecord
  <2>4. \A o \in Writers : saver'[o].copy = saver[o].copy /\ saver'[o].at = saver[o].at
    BY <2>2
  <2>5. \A o \in Writers : (Saving(o)' <=> Saving(o)) /\ (saver'[o].pc = "rename" => saver[o].pc = "rename")
    BY <2>1, <2>2 DEF Saving
  <2> QED BY <2>1, <2>3, <2>4, <2>5, CachePlaces
<1>2. CASE dirty
  <2> DEFINE s == [pc |-> "open", copy |-> mem, at |-> "tmp"]
  <2>1. /\ saver' = [saver EXCEPT ![w] = s] /\ saver[w].pc = "copy" /\ dirty' = FALSE
        /\ mishap' = IF \E o \in Writers \ {w} : Saving(o) THEN mishap \cup {"overlap"} ELSE mishap
        /\ UNCHANGED <<mem, due, thread, tmp, disk>>
    BY <1>2 DEF Copy
  <2>2. s \in SaverRecord /\ s.pc = "open" /\ s.copy = mem /\ s.at = "tmp"
    BY <1>t, CacheTypes DEF SaverRecord
  <2> HIDE DEF s
  <2>3. saver'[w] = s /\ \A o \in Writers \ {w} : saver'[o] = saver[o]
    BY <1>t, <2>1, CacheTypes
  <2>4. CacheTypeOK'
    <3>1. saver' \in [Writers -> SaverRecord]
      BY <1>t, <2>1, <2>2, CacheTypes
    <3>2. mishap' \in SUBSET {"failed", "overlap"}
      BY <1>t, <2>1, CacheTypes
    <3> QED BY <1>t, <2>1, <3>1, <3>2 DEF CacheTypeOK, SaverRecord
  <2>5. ASSUME "overlap" \notin mishap'
        PROVE  OneSaves' /\ CopyIsAhead' /\ disk' = disk /\ CopyIsAhead
    <3>1. CopyIsAhead /\ \A o \in Writers \ {w} : ~Saving(o)
      BY <2>1, <2>5 DEF CacheInv
    <3>2. \A o \in Writers : Saving(o)' <=> o = w
      BY <2>2, <2>3, <3>1 DEF Saving
    <3>3. OneSaves'
      BY <3>2 DEF OneSaves
    <3>4. mem \in Nat /\ disk \in Nat
      BY <1>t, <3>1, CacheTypes DEF CopyIsAhead
    <3> QED BY <2>1, <2>2, <2>3, <3>1, <3>2, <3>3, <3>4 DEF CopyIsAhead
  <2>6. WrittenOrSaving'
    BY <2>1, <2>2, <2>3 DEF WrittenOrSaving, Saving
  <2>7. FileAdvances
    BY <1>t, <2>5, CacheTypes DEF CopyIsAhead, FileAdvances
  <2> QED BY <2>4, <2>5, <2>6, <2>7 DEF CacheInv
<1> QED BY <1>1, <1>2

(* save_file, from the opening of the temporary file to its end.             *)
LEMMA CacheWrites ==
    ASSUME CacheInv, WrittenOrSaving, NEW w \in Writers, Open(w) \/ Fill(w)
    PROVE  CacheInv' /\ WrittenOrSaving' /\ FileAdvances
<1>t. CacheTypeOK
    BY DEF CacheInv
<1>1. /\ Saving(w) /\ saver[w].pc # "rename" /\ UNCHANGED <<memVars, mishap>>
      /\ Open(w) => disk' = disk /\ tmp' = Torn /\ Goto(w, "fill")
      /\ Fill(w) => Goto(w, "rename") /\ saver[w].pc = "fill"
    BY DEF Open, Fill, Saving
<1>2. /\ saver' \in [Writers -> SaverRecord]
      /\ saver'[w].pc \in {"fill", "rename"} /\ saver'[w].copy = saver[w].copy /\ saver'[w].at = saver[w].at
      /\ \A o \in Writers \ {w} : saver'[o] = saver[o]
    BY <1>t, <1>1, SaverMoves DEF Goto
<1>3. ASSUME Fill(w)
      PROVE  \E text \in Versions \cup {Torn} :
                /\ disk' = IF saver[w].at = "disk" THEN text ELSE disk
                /\ tmp' = IF saver[w].at = "tmp" THEN text ELSE tmp
                /\ (\A o \in Writers \ {w} : ~Saving(o)) => text = saver[w].copy
    BY <1>t, <1>3, CacheTypes DEF Fill, Left, SaverRecord, Saving
<1>4. CacheTypeOK'
  <2>1. tmp' \in Versions \cup {Absent, Torn} /\ disk' \in Versions \cup {Absent, Torn}
    BY <1>t, <1>1, <1>3, CacheTypes
  <2> QED BY <1>t, <1>1, <1>2, <2>1 DEF CacheTypeOK, SaverRecord, memVars
<1>5. \A o \in Writers : Saving(o)' <=> Saving(o)
    BY <1>1, <1>2 DEF Saving
<1>6. ASSUME "overlap" \notin mishap
      PROVE  /\ OneSaves' /\ CopyIsAhead' /\ disk' = disk /\ CopyIsAhead
  <2>1. CopyIsAhead /\ OneSaves /\ saver[w].at = "tmp" /\ \A o \in Writers \ {w} : ~Saving(o)
    BY <1>1, <1>6 DEF CacheInv, OneSaves, CopyIsAhead
  <2>2. disk' = disk /\ (Fill(w) => tmp' = saver[w].copy)
    BY <1>1, <1>3, <2>1
  <2>3. OneSaves'
    BY <1>5, <2>1 DEF OneSaves
  <2>4. saver'[w].pc = "rename" => Fill(w)
    <3>1. CASE Open(w)
      BY <1>t, <1>1, <3>1, SaverMoves DEF Goto
    <3> QED BY <3>1
  <2>5. CopyIsAhead'
    <3> SUFFICES ASSUME NEW o \in Writers, Saving(o)'
                 PROVE  /\ disk <= saver'[o].copy /\ saver'[o].copy <= mem
                        /\ saver'[o].at = "tmp"
                        /\ saver'[o].pc = "rename" => tmp' = saver'[o].copy
      BY <1>1, <2>1, <2>2 DEF CopyIsAhead, memVars
    <3>1. o = w /\ Saving(w)
      BY <1>5, <2>1
    <3> QED BY <1>2, <2>1, <2>2, <2>4, <3>1 DEF CopyIsAhead
  <2> QED BY <2>1, <2>2, <2>3, <2>5
<1>7. WrittenOrSaving'
  <2> SUFFICES ASSUME mishap = {}, ~dirty
               PROVE  disk' = mem \/ \E o \in Writers : Saving(o)' /\ saver'[o].copy = mem
    BY <1>1 DEF WrittenOrSaving, memVars
  <2>1. disk' = disk
    BY <1>6
  <2>2. disk = mem \/ \E o \in Writers : Saving(o) /\ saver[o].copy = mem
    BY DEF WrittenOrSaving
  <2> QED BY <1>2, <1>5, <2>1, <2>2
<1>8. FileAdvances
    BY <1>t, <1>1, <1>6, CacheTypes DEF CopyIsAhead, FileAdvances
<1> QED BY <1>1, <1>4, <1>6, <1>7, <1>8 DEF CacheInv

LEMMA CacheSaved ==
    ASSUME CacheInv, WrittenOrSaving, NEW w \in Writers, Rename(w) \/ SaveFails(w)
    PROVE  CacheInv' /\ WrittenOrSaving' /\ FileAdvances
<1>t. CacheTypeOK
    BY DEF CacheInv
<1>1. /\ Saving(w) /\ tmp' = Absent /\ UNCHANGED memVars
      /\ Rename(w) => saver[w].pc = "rename" /\ disk' = tmp /\ tmp # Absent /\ mishap' = mishap
      /\ SaveFails(w) => disk' = disk /\ mishap' = mishap \cup {"failed"}
      /\ \E place \in {"disk", "gone"} : Ends(w, place)
    BY DEF Rename, SaveFails, Saving
<1>2. /\ saver' \in [Writers -> SaverRecord] /\ saver'[w].pc = "idle"
      /\ \A o \in Writers \ {w} :
            /\ saver'[o].pc = saver[o].pc /\ saver'[o].copy = saver[o].copy
            /\ saver[o].pc # "fill" => saver'[o] = saver[o]
    BY <1>t, <1>1, SaverEnds
<1>3. CacheTypeOK'
    BY <1>t, <1>1, <1>2 DEF CacheTypeOK, SaverRecord, memVars
<1>4. \A o \in Writers : Saving(o)' => Saving(o) /\ o # w
    BY <1>2 DEF Saving
<1>5. ASSUME "overlap" \notin mishap
      PROVE  OneSaves' /\ CopyIsAhead' /\ CopyIsAhead /\ disk' \in Versions /\ disk <= disk'
  <2>1. CopyIsAhead /\ OneSaves /\ \A o \in Writers \ {w} : ~Saving(o)
    BY <1>1, <1>5 DEF CacheInv, OneSaves
  <2>2. \A o \in Writers : ~Saving(o)'
    BY <1>4, <2>1
  <2>3. disk \in Nat /\ mem \in Nat /\ saver[w].copy \in Versions
    BY <1>t, <2>1, CacheTypes DEF CopyIsAhead, SaverRecord
  <2>4. disk' \in {disk, saver[w].copy}
    BY <1>1, <2>1 DEF CopyIsAhead
  <2>5. disk' \in Versions /\ disk <= disk' /\ disk' <= mem
    BY <1>1, <2>1, <2>3, <2>4 DEF CopyIsAhead
  <2> QED BY <1>1, <2>1, <2>2, <2>5 DEF OneSaves, CopyIsAhead, memVars
<1>6. WrittenOrSaving'
  <2> SUFFICES ASSUME mishap' = {}, ~dirty PROVE disk' = mem
    BY <1>1 DEF WrittenOrSaving, memVars
  <2>1. Rename(w) /\ mishap = {}
    BY <1>1
  <2>2. OneSaves /\ CopyIsAhead
    BY <2>1 DEF CacheInv
  <2>3. disk' = saver[w].copy
    BY <1>1, <2>1, <2>2 DEF CopyIsAhead
  <2>4. disk = mem \/ \E o \in Writers : Saving(o) /\ saver[o].copy = mem
    BY <2>1 DEF WrittenOrSaving
  <2>5. disk = mem => saver[w].copy = mem
    BY <1>t, <1>1, <2>2, CacheTypes DEF CopyIsAhead, SaverRecord
  <2> QED BY <1>1, <2>2, <2>3, <2>4, <2>5 DEF OneSaves
<1>7. FileAdvances
    BY <1>t, <1>1, <1>5, CacheTypes DEF FileAdvances
<1> QED BY <1>1, <1>3, <1>5, <1>6, <1>7 DEF CacheInv

LEMMA CacheKeeps ==
    ASSUME CacheInv, WrittenOrSaving, CacheStep \/ CloserBegins \/ UNCHANGED cacheVars
    PROVE  CacheInv' /\ WrittenOrSaving' /\ FileAdvances
<1>1. CASE Change \/ LoadDrops
    BY <1>1, CacheChanges
<1>2. CASE FlushDue \/ FlusherEnds \/ CloserBegins
    BY <1>2, CacheSchedules
<1>3. CASE \E w \in Writers : SaverStep(w)
    BY <1>3, CacheCopies, CacheWrites, CacheSaved DEF SaverStep
<1>4. CASE UNCHANGED cacheVars
  <2>1. CacheTypeOK'
    BY <1>4 DEF CacheInv, CacheTypeOK, cacheVars, memVars, fileVars
  <2> QED BY <1>4, <2>1, CachePlaces DEF cacheVars, memVars, fileVars, Saving
<1> QED BY <1>1, <1>2, <1>3, <1>4 DEF CacheStep

LEMMA NextIsCacheStep ==
    ASSUME [Next]_vars
    PROVE  CacheStep \/ CloserBegins \/ UNCHANGED cacheVars
<1>1. CASE UseCache \/ Flush \/ Closer
    BY <1>1 DEF UseCache, Flush, Closer, FlusherStep, CacheStep, Writers
<1>2. CASE MainStep \/ Quits \/ CtrlC \/ Close \/ CloseReturns \/ Tick \/ Engage \/ Release
    BY <1>2 DEF MainStep, InstallShutdown, Recover, PutPart, StartPart, StartRelay, StartPatcher,
       WaitEnds, Returns, Quits, CtrlC, Close, CloseReturns, Tick, Engage, Release
<1>3. CASE ExecStep \/ \E s \in Services : LateStep(s)
    BY <1>3 DEF ExecStep, RestoreTools, Unpublish, Collect, BeginFlush, StepWorks, StepTimesOut,
       StepsEnd, LateStep, CloserBegins
<1>4. CASE UNCHANGED vars
    BY <1>4 DEF vars
<1> QED BY <1>1, <1>2, <1>3, <1>4 DEF Next

LEMMA InitCacheInv == Init => CacheInv /\ WrittenOrSaving
<1> SUFFICES ASSUME CacheInit PROVE CacheInv /\ WrittenOrSaving
    BY DEF Init
<1>1. CacheTypeOK
  <2>1. 0 \in Versions
    BY CacheAssumption DEF Versions
  <2>2. [pc |-> "idle", copy |-> 0, at |-> "tmp"] \in SaverRecord
    BY <2>1 DEF SaverRecord
  <2>3. saver \in [Writers -> SaverRecord]
    BY <2>2 DEF CacheInit
  <2> QED BY <2>1, <2>3 DEF CacheInit, CacheTypeOK, SaverRecord
<1>2. \A w \in Writers : ~Saving(w)
    BY DEF CacheInit, Saving
<1> QED BY <1>1, <1>2, CacheAssumption DEF CacheInit, CacheInv, OneSaves, CopyIsAhead, Versions, WrittenOrSaving

LEMMA AlwaysCacheInv == Spec => [](CacheInv /\ WrittenOrSaving)
<1>1. CacheInv /\ WrittenOrSaving /\ [Next]_vars => (CacheInv /\ WrittenOrSaving)'
    BY CacheKeeps, NextIsCacheStep
<1> QED BY <1>1, InitCacheInv, PTL DEF Spec

(* flush_now, save_file: unless two saves have met, the file is never a      *)
(* part of a copy and never goes back to older entries, whichever saves fail.*)
THEOREM FileAlwaysAdvances == Spec => FileOnlyAdvances
<1>1. CacheInv /\ WrittenOrSaving /\ [Next]_vars => [FileAdvances]_disk
    BY CacheKeeps, NextIsCacheStep
<1>2. Spec => [][FileAdvances]_disk
    BY <1>1, AlwaysCacheInv, PTL DEF Spec
<1> QED BY <1>2 DEF FileOnlyAdvances, FileAdvances

-----------------------------------------------------------------------------
(* The shutdown and the cache. *)

LEMMA StepOrderFacts ==
    /\ Steps = 1 .. 7
    /\ StepOrder[2] = "tickers" /\ StepOrder[3] = "logmon" /\ StepOrder[4] = "ipc"
    /\ StepOrder[7] = "cache"
    /\ \A i \in 1 .. 7 : StepOrder[i] = "cache" => i = 7
<1>1. /\ StepOrder[1] = "terminal" /\ StepOrder[2] = "tickers" /\ StepOrder[3] = "logmon"
      /\ StepOrder[4] = "ipc" /\ StepOrder[5] = "relay" /\ StepOrder[6] = "mesh"
      /\ StepOrder[7] = "cache"
    BY DEF StepOrder
<1>2. Steps = 1 .. 7
    BY DEF Steps, StepOrder
<1>3. \A i \in 1 .. 7 : i = 1 \/ i = 2 \/ i = 3 \/ i = 4 \/ i = 5 \/ i = 6 \/ i = 7
    OBVIOUS
<1>4. \A i \in 1 .. 7 : StepOrder[i] = "cache" => i = 7
    BY <1>1, <1>3
<1> QED BY <1>1, <1>2, <1>4

LEMMA FirstStep ==
    ASSUME NEW S \in SUBSET (1 .. 7), S # {}
    PROVE  Min(S) \in S /\ \A i \in S : Min(S) <= i
<1>1. \E m \in S : \A i \in S : m <= i
  <2>1. CASE 1 \in S
    BY <2>1
  <2>2. CASE 1 \notin S /\ 2 \in S
    BY <2>2
  <2>3. CASE 1 \notin S /\ 2 \notin S /\ 3 \in S
    BY <2>3
  <2>4. CASE 1 \notin S /\ 2 \notin S /\ 3 \notin S /\ 4 \in S
    BY <2>4
  <2>5. CASE 1 \notin S /\ 2 \notin S /\ 3 \notin S /\ 4 \notin S /\ 5 \in S
    BY <2>5
  <2>6. CASE S \cap (1 .. 5) = {} /\ 6 \in S
    BY <2>6
  <2>7. CASE S \cap (1 .. 5) = {} /\ 6 \notin S
    <3>1. \A i \in S : i = 7
      BY <2>7
    <3>2. PICK m \in S : TRUE
      OBVIOUS
    <3> QED BY <3>1, <3>2
  <2> QED BY <2>1, <2>2, <2>3, <2>4, <2>5, <2>6, <2>7
<1> QED BY <1>1 DEF Min

LEMMA PutsInOrder ==
    /\ Len(StartUp) = 17 /\ Started = 18 /\ Closing = 19
    /\ StartUp[4] = <<"put", "cache">> /\ StartUp[6] = <<"put", "ipc">>
    /\ StartUp[12] = <<"put", "logmon">> /\ StartUp[15] = <<"put", "tickers">>
<1>1. /\ Len(StartUp) = 17
      /\ StartUp[4] = <<"put", "cache">> /\ StartUp[6] = <<"put", "ipc">>
      /\ StartUp[12] = <<"put", "logmon">> /\ StartUp[15] = <<"put", "tickers">>
    BY DEF StartUp
<1> QED BY <1>1 DEF Started, Closing

(* The start-up goes on: no shutdown is under way but an early one.         *)
LEMMA StartUpKeepsAnswers ==
    ASSUME AnswersInv, NEW op, At(op), main' = main + 1, exec' = exec, parts \subseteq parts',
           StartUp[main][1] = "put" /\ StartUp[main][2] # "relay" => StartUp[main][2] \in parts'
    PROVE  AnswersInv'
<1>1. main \in 1 .. 17 /\ Started = 18 /\ Closing = 19 /\ Len(StartUp) = 17
    BY PutsInOrder DEF At, AnswersInv, PartsArePut
<1>2. exec.phase = "none" \/ exec.early
    BY <1>1 DEF AnswersInv, PartsArePut
<1>3. PartsArePut'
  <2>1. ASSUME exec.phase = "none", NEW i \in 1 .. 17, i < main', StartUp[i][1] = "put", StartUp[i][2] # "relay"
        PROVE  StartUp[i][2] \in parts'
    <3>1. i < main \/ i = main
      BY <1>1, <2>1
    <3> QED BY <1>1, <2>1, <3>1 DEF AnswersInv, PartsArePut
  <2>2. main' \in 1 .. Closing
    BY <1>1
  <2> QED BY <1>1, <1>2, <2>1, <2>2 DEF AnswersInv, PartsArePut
<1>4. StepsToTake' /\ CacheIsLast'
    BY <1>2 DEF StepsToTake, CacheIsLast, Undisturbed, Stopping
<1> QED BY <1>3, <1>4 DEF AnswersInv

LEMMA BeginKeepsAnswers ==
    ASSUME LifeInv, AnswersInv, NEW fast \in BOOLEAN, Begin(fast), main' \in {main, Closing},
           UNCHANGED <<parts, up, stopped, cacheVars>>
    PROVE  AnswersInv'
<1>1. main \in 1 .. 19 /\ Started = 18 /\ Closing = 19 /\ Len(StartUp) = 17
    BY PutsInOrder DEF AnswersInv, PartsArePut
<1>2. saver' = saver /\ dirty' = dirty
    BY DEF cacheVars, memVars, fileVars
<1>3. \A i \in 1 .. 17 : main >= 18 => i < main
    BY <1>1
<1>4. CASE exec.phase # "none"
  <2>1. exec' = exec
    BY <1>4 DEF Begin
  <2>2. PartsArePut'
    BY <1>1, <1>3, <1>4, <2>1 DEF AnswersInv, PartsArePut
  <2> QED BY <1>2, <2>1, <2>2 DEF AnswersInv, StepsToTake, CacheIsLast, Undisturbed
<1>5. CASE exec.phase = "none"
  <2> DEFINE early == main < Started
             e == [exec EXCEPT !.phase = "restore", !.fast = fast, !.early = early]
  <2>1. exec' = e
    BY <1>5 DEF Begin
  <2>2. e.phase = "restore" /\ (e.early <=> main < 18) /\ e.todo = exec.todo
    BY <1>1 DEF LifeInv, LifeTypes, IsExec
  <2> HIDE DEF e
  <2>3. PartsArePut'
    BY <1>1, <1>3, <1>5, <2>1, <2>2 DEF AnswersInv, PartsArePut
  <2>4. StepsToTake' /\ CacheIsLast'
    BY <2>1, <2>2 DEF StepsToTake, CacheIsLast, Stopping
  <2> QED BY <2>3, <2>4 DEF AnswersInv
<1> QED BY <1>4, <1>5

(* A step that only lets dirty fall.                                        *)
LEMMA OthersKeepAnswers ==
    ASSUME AnswersInv, main' = main, parts' = parts, up' = up, stopped' = stopped,
           exec'.phase = exec.phase, exec'.todo = exec.todo, exec'.early = exec.early,
           exec'.fast = exec.fast, exec'.cut = exec.cut,
           dirty' => dirty,
           \/ saver'["closer"].pc = saver["closer"].pc
           \/ saver["closer"].pc # "idle" /\ ~dirty'
    PROVE  AnswersInv'
<1>1. PartsArePut' /\ StepsToTake'
    BY DEF AnswersInv, PartsArePut, StepsToTake, Undisturbed
<1>2. CacheIsLast'
    BY DEF AnswersInv, CacheIsLast, Undisturbed
<1> QED BY <1>1, <1>2 DEF AnswersInv

LEMMA MainKeepsAnswers ==
    ASSUME LifeInv, AnswersInv, MainStep
    PROVE  AnswersInv'
<1>o. ASSUME NEW op, At(op), op # "put" PROVE ~(StartUp[main][1] = "put" /\ StartUp[main][2] # "relay")
    BY <1>o DEF At
<1>1. CASE InstallShutdown
    BY <1>1, <1>o, StartUpKeepsAnswers DEF InstallShutdown, Advances
<1>2. CASE Recover
    BY <1>2, <1>o, StartUpKeepsAnswers DEF Recover, Advances
<1>3. CASE PutPart
  <2>1. /\ parts \subseteq parts'
        /\ StartUp[main][2] # "relay" => StartUp[main][2] \in parts'
    BY <1>3 DEF PutPart
  <2> QED BY <1>3, <2>1, StartUpKeepsAnswers DEF PutPart, Advances
<1>4. CASE StartPart
    BY <1>4, <1>o, StartUpKeepsAnswers DEF StartPart, Advances
<1>5. CASE StartRelay
    BY <1>5, <1>o, StartUpKeepsAnswers DEF StartRelay, Advances
<1>6. CASE StartPatcher
    BY <1>6, <1>o, StartUpKeepsAnswers, BeginKeepsAnswers DEF StartPatcher, Advances
<1>7. CASE WaitEnds
    BY <1>7, BeginKeepsAnswers DEF WaitEnds
<1>8. CASE Returns
    BY <1>8, OthersKeepAnswers DEF Returns, cacheVars, memVars, fileVars
<1> QED BY <1>1, <1>2, <1>3, <1>4, <1>5, <1>6, <1>7, <1>8 DEF MainStep

LEMMA AskKeepsAnswers ==
    ASSUME LifeInv, AnswersInv, Quits \/ CtrlC \/ Close \/ CloseReturns
    PROVE  AnswersInv'
<1>1. main' = main /\ UNCHANGED <<parts, up, stopped, cacheVars>>
    BY DEF Quits, CtrlC, Close, CloseReturns
<1>2. CASE exec' = exec
    BY <1>1, <1>2, OthersKeepAnswers DEF cacheVars, memVars, fileVars
<1>3. CASE \E fast \in BOOLEAN : Begin(fast)
    BY <1>1, <1>3, BeginKeepsAnswers
<1> QED BY <1>2, <1>3 DEF Quits, CtrlC, Close, CloseReturns

(* One step is over, or was left behind.                                    *)
LEMMA StepKeepsAnswers ==
    ASSUME LifeInv, AnswersInv, StepWorks \/ StepTimesOut
    PROVE  AnswersInv'
<1>1. PICK cut \in BOOLEAN : NextStep(cut) /\ (cut <=> ~StepWorks)
    BY DEF StepWorks, StepTimesOut, NextStep
<1> DEFINE m == Min(exec.todo)
           todo == exec.todo \ {m}
           was == exec.cut \/ cut
           e == [exec EXCEPT !.todo = todo, !.cut = was]
<1>2. exec' = e
    BY <1>1 DEF NextStep
<1>3. e.todo = todo /\ e.cut = was /\ e.phase = exec.phase /\ e.early = exec.early /\ e.fast = exec.fast
    BY DEF LifeInv, LifeTypes, IsExec
<1> HIDE DEF e
<1>4. /\ main' = main /\ parts' = parts /\ exec.phase = "steps" /\ exec.todo # {}
      /\ saver' = saver /\ dirty' = dirty
    BY DEF StepWorks, StepTimesOut, InSteps, cacheVars, memVars, fileVars
<1>5. exec.todo \subseteq 1 .. 7
    BY StepOrderFacts DEF AnswersInv, PartsArePut
<1>6. m \in exec.todo /\ \A i \in exec.todo : m <= i
    BY <1>4, <1>5, FirstStep
<1> HIDE DEF m
<1>7. PartsArePut'
    BY <1>2, <1>3, <1>4 DEF AnswersInv, PartsArePut, Stopping
<1>8. ASSUME Undisturbed'
      PROVE  StepsToTake' /\ CacheIsLast'
  <2>1. Undisturbed /\ StepWorks
    BY <1>1, <1>2, <1>3, <1>8 DEF Undisturbed
  <2>2. CASE StepOrder[m] = "cache"
    <3>1. m = 7 /\ todo = {}
      BY <1>5, <1>6, <2>2, StepOrderFacts
    <3>2. "cache" \in stopped /\ saver["closer"].pc = "idle" /\ UNCHANGED <<up, stopped>>
      BY <2>1, <2>2 DEF StepWorks, Current, m
    <3>3. ~dirty /\ \A i \in Filling : StepOrder[i] \notin up
      BY <1>4, <2>1, <3>1, <3>2 DEF AnswersInv, StepsToTake, CacheIsLast, Stopping, Filling, Flushing
    <3> QED BY <1>2, <1>3, <1>4, <3>1, <3>2, <3>3 DEF StepsToTake, CacheIsLast, Flushing
  <2>3. CASE StepOrder[m] # "cache"
    <3>1. StopPart(StepOrder[m]) /\ m # 7
      BY <2>1, <2>3, StepOrderFacts DEF StepWorks, Current, m
    <3>2. "cache" \notin stopped
      BY <1>4, <1>6, <2>1, <3>1 DEF AnswersInv, CacheIsLast, Stopping, Flushing
    <3>3. "cache" \notin stopped' /\ 7 \in todo
      BY <1>4, <2>1, <2>3, <3>1, <3>2 DEF AnswersInv, StepsToTake, Stopping, Flushing, StopPart
    <3>4. \A i \in Filling : i \in todo \/ StepOrder[i] \notin up'
      BY <1>4, <2>1, <3>1 DEF AnswersInv, StepsToTake, Stopping, StopPart
    <3> QED BY <1>2, <1>3, <1>4, <3>3, <3>4 DEF StepsToTake, CacheIsLast, Flushing
  <2> QED BY <2>2, <2>3
<1>9. ASSUME ~Undisturbed'
      PROVE  StepsToTake' /\ CacheIsLast'
    BY <1>9 DEF StepsToTake, CacheIsLast
<1> QED BY <1>7, <1>8, <1>9 DEF AnswersInv

LEMMA ExecKeepsAnswers ==
    ASSUME LifeInv, AnswersInv, CacheTypeOK, ExecStep \/ \E s \in Services : LateStep(s)
    PROVE  AnswersInv'
<1>t. IsExec(exec)
    BY DEF LifeInv, LifeTypes
<1>f. ASSUME NEW phase, NEW todo
      PROVE  /\ LET e == [exec EXCEPT !.phase = phase]
                IN  /\ e.phase = phase /\ e.todo = exec.todo /\ e.early = exec.early
                    /\ e.fast = exec.fast /\ e.cut = exec.cut
             /\ LET e == [exec EXCEPT !.phase = phase, !.todo = todo]
                IN  /\ e.phase = phase /\ e.todo = todo /\ e.early = exec.early
                    /\ e.fast = exec.fast /\ e.cut = exec.cut
    BY <1>t DEF IsExec
<1>1. CASE RestoreTools \/ Unpublish
  <2>1. PICK phase \in {"unpublish", "collect", "done"} :
           exec' = [exec EXCEPT !.phase = phase] /\ (phase = "done" => exec.fast)
    BY <1>1 DEF RestoreTools, Unpublish
  <2>2. /\ exec'.phase = phase /\ exec'.todo = exec.todo /\ exec'.early = exec.early
        /\ exec'.fast = exec.fast
    BY <1>f, <2>1
  <2>3. main' = main /\ parts' = parts /\ exec.phase \in {"restore", "unpublish"}
    BY <1>1 DEF RestoreTools, Unpublish
  <2>4. PartsArePut'
    BY <2>1, <2>2, <2>3 DEF AnswersInv, PartsArePut, Stopping
  <2> QED BY <2>1, <2>2, <2>4 DEF AnswersInv, StepsToTake, CacheIsLast, Undisturbed, Stopping
<1>2. CASE Collect
  <2> DEFINE todo == {i \in Steps : StepOrder[i] \in parts}
  <2>1. /\ exec'.phase = "steps" /\ exec'.todo = todo /\ exec'.early = exec.early
        /\ exec'.fast = exec.fast /\ exec'.cut = exec.cut
    BY <1>2, <1>f DEF Collect
  <2>2. main' = main /\ stopped' = stopped /\ exec.phase = "collect" /\ stopped = {}
    BY <1>2 DEF Collect, LifeInv, StoppedBySteps, Stopping
  <2>3. PartsArePut'
    BY <2>1, <2>2 DEF AnswersInv, PartsArePut, Stopping
  <2>4. ~exec.early => {2, 3, 4, 7} \subseteq todo
    <3>1. ASSUME ~exec.early PROVE {"cache", "ipc", "logmon", "tickers"} \subseteq parts
      <4>1. main \in 1 .. 19 /\ main >= 18
        BY <2>2, <3>1, PutsInOrder DEF AnswersInv, PartsArePut
      <4>2. \A i \in 1 .. 17 : i < main
        BY <4>1
      <4>3. \A i \in 1 .. 17 : StartUp[i][1] = "put" /\ StartUp[i][2] # "relay" => StartUp[i][2] \in parts
        BY <2>2, <3>1, <4>2, PutsInOrder DEF AnswersInv, PartsArePut, Stopping
      <4> QED BY <4>3, PutsInOrder
    <3> QED BY <3>1, StepOrderFacts
  <2> HIDE DEF todo
  <2> QED BY <2>1, <2>2, <2>3, <2>4 DEF AnswersInv, StepsToTake, CacheIsLast, Undisturbed, Filling, Flushing
<1>3. CASE BeginFlush
  <2>1. /\ exec' = exec /\ main' = main /\ parts' = parts /\ stopped' = stopped \cup {"cache"}
        /\ up' = up \ {"cache"} /\ dirty' = dirty
    BY <1>3 DEF BeginFlush, StopPart, memVars
  <2>2. exec.todo # {} /\ exec.todo \subseteq 1 .. 7 /\ StepOrder[Min(exec.todo)] = "cache"
    BY <1>3, StepOrderFacts DEF BeginFlush, Current, AnswersInv, PartsArePut
  <2>3. exec.todo = {7}
    <3>1. Min(exec.todo) \in exec.todo /\ \A i \in exec.todo : Min(exec.todo) <= i
      BY <2>2, FirstStep
    <3>2. Min(exec.todo) = 7
      BY <2>2, <3>1, StepOrderFacts
    <3>3. \A i \in exec.todo : i = 7
      BY <2>2, <3>1, <3>2
    <3> QED BY <2>2, <3>3
  <2>4. Undisturbed /\ exec.phase \in Stopping => saver'["closer"].pc = "copy"
    <3>1. saver' = [saver EXCEPT !["closer"].pc = "copy"]
      BY <1>3 DEF BeginFlush, Goto
    <3> QED BY <3>1, CacheTypes DEF Writers, SaverRecord
  <2>5. PartsArePut' /\ StepsToTake'
    BY <2>1 DEF AnswersInv, PartsArePut, StepsToTake, Undisturbed
  <2>6. exec.phase = "steps"
    BY <1>3 DEF BeginFlush, InSteps
  <2> QED BY <2>1, <2>3, <2>4, <2>5, <2>6 DEF AnswersInv, CacheIsLast, Undisturbed, Flushing, Stopping
<1>4. CASE StepWorks \/ StepTimesOut
    BY <1>4, StepKeepsAnswers
<1>5. CASE StepsEnd
  <2>1. /\ exec'.phase = "done" /\ exec'.todo = {} /\ exec'.early = exec.early
        /\ exec'.fast = exec.fast /\ exec'.cut = exec.cut
    BY <1>5, <1>f DEF StepsEnd
  <2>2. /\ exec.phase = "steps" /\ (exec.todo # {} => exec.cut)
        /\ UNCHANGED <<main, parts, up, stopped, saver, dirty>>
    BY <1>5 DEF StepsEnd, InSteps, cacheVars, memVars, fileVars
  <2>3. PartsArePut'
    BY <2>1, <2>2 DEF AnswersInv, PartsArePut, Stopping
  <2> QED BY <2>1, <2>2, <2>3 DEF AnswersInv, StepsToTake, CacheIsLast, Undisturbed, Stopping
<1>6. CASE \E s \in Services : LateStep(s)
  <2>1. exec.cut /\ UNCHANGED <<main, parts, exec>>
    BY <1>6 DEF LateStep
  <2> QED BY <2>1 DEF AnswersInv, PartsArePut, StepsToTake, CacheIsLast, Undisturbed
<1> QED BY <1>1, <1>2, <1>3, <1>4, <1>5, <1>6 DEF ExecStep

LEMMA SaverStepsAnswers ==
    ASSUME CacheTypeOK, NEW w \in Writers, SaverStep(w)
    PROVE  /\ saver[w].pc # "idle" /\ (saver[w].pc = "copy" => ~dirty') /\ (dirty' => dirty)
           /\ \A o \in Writers \ {w} : saver'[o].pc = saver[o].pc
<1>1. CASE Copy(w)
    BY <1>1, CacheTypes DEF Copy, Goto
<1>2. CASE Open(w) \/ Fill(w)
    BY <1>2, SaverMoves, CacheTypes DEF Open, Fill, Goto, memVars
<1>3. CASE Rename(w) \/ SaveFails(w)
  <2>1. \E place \in {"disk", "gone"} : Ends(w, place)
    BY <1>3 DEF Rename, SaveFails
  <2> QED BY <1>3, <2>1, SaverEnds DEF Rename, SaveFails, Saving, memVars
<1> QED BY <1>1, <1>2, <1>3 DEF SaverStep

LEMMA PartsKeepAnswers ==
    ASSUME LifeInv, AnswersInv, CacheTypeOK, Tick \/ UseCache \/ Flush \/ Closer \/ Engage \/ Release
    PROVE  AnswersInv'
<1>1. CASE Tick \/ Engage
    BY <1>1, OthersKeepAnswers DEF Tick, Engage, cacheVars, memVars, fileVars
<1>2. CASE Release
  <2> DEFINE back == exec.phase # "none"
             e == [exec EXCEPT !.back = back]
  <2>1. exec' = e
    BY <1>2 DEF Release
  <2> HIDE DEF back
  <2>2. /\ e.phase = exec.phase /\ e.todo = exec.todo /\ e.early = exec.early /\ e.fast = exec.fast
        /\ e.cut = exec.cut
    BY DEF LifeInv, LifeTypes, IsExec
  <2> HIDE DEF e
  <2> QED BY <1>2, <2>1, <2>2, OthersKeepAnswers DEF Release, cacheVars, memVars, fileVars
<1>3. CASE UseCache
  <2>1. UNCHANGED <<main, parts, exec, up, stopped>> /\ up \cap {"ipc", "logmon", "tickers"} # {}
    BY <1>3 DEF UseCache, lifeVars
  <2>2. Undisturbed /\ exec.phase \in Stopping => "cache" \notin stopped
    <3>1. ASSUME Undisturbed, exec.phase \in Stopping, "cache" \in stopped
          PROVE  \A i \in Filling : StepOrder[i] \notin up
      BY <3>1 DEF AnswersInv, StepsToTake, CacheIsLast, Filling, Flushing
    <3> QED BY <2>1, <3>1, StepOrderFacts DEF Filling
  <2>3. saver' = saver
    BY <1>3 DEF UseCache, Change, LoadDrops, fileVars
  <2> QED BY <2>1, <2>2, <2>3 DEF AnswersInv, PartsArePut, StepsToTake, CacheIsLast, Undisturbed
<1>4. CASE Flush \/ Closer
  <2>1. UNCHANGED <<main, parts, exec, up, stopped>>
    BY <1>4 DEF Flush, Closer, lifeVars
  <2>2. CASE FlushDue \/ FlusherEnds
    <3>1. dirty' = dirty /\ saver'["closer"].pc = saver["closer"].pc
      BY <2>2, CacheTypes DEF FlushDue, FlusherEnds, Goto, Writers, fileVars
    <3> QED BY <2>1, <3>1, OthersKeepAnswers
  <2>3. CASE SaverStep("flusher")
    BY <2>1, <2>3, SaverStepsAnswers, OthersKeepAnswers DEF Writers
  <2>4. CASE SaverStep("closer")
    <3>1. saver["closer"].pc # "idle" /\ (saver["closer"].pc = "copy" => ~dirty') /\ (dirty' => dirty)
      BY <2>4, SaverStepsAnswers DEF Writers
    <3> QED BY <2>1, <3>1 DEF AnswersInv, PartsArePut, StepsToTake, CacheIsLast, Undisturbed
  <2> QED BY <1>4, <2>2, <2>3, <2>4 DEF Flush, Closer, FlusherStep
<1> QED BY <1>1, <1>2, <1>3, <1>4

LEMMA NextKeepsAnswers == LifeInv /\ AnswersInv /\ CacheInv /\ [Next]_vars => AnswersInv'
<1> SUFFICES ASSUME LifeInv, AnswersInv, CacheInv, [Next]_vars PROVE AnswersInv'
    OBVIOUS
<1>1. CASE Next
    BY <1>1, MainKeepsAnswers, AskKeepsAnswers, ExecKeepsAnswers, PartsKeepAnswers DEF Next, CacheInv
<1>2. CASE UNCHANGED vars
    BY <1>2, OthersKeepAnswers DEF vars, lifeVars, cacheVars, memVars, fileVars
<1> QED BY <1>1, <1>2

LEMMA InitAnswersInv == Init => AnswersInv
<1> SUFFICES ASSUME Init PROVE AnswersInv
    OBVIOUS
<1>1. main = 1 /\ exec.phase = "none" /\ exec.todo = {}
    BY DEF Init
<1>2. \A i \in 1 .. 17 : ~(i < 1)
    OBVIOUS
<1> QED BY <1>1, <1>2, PutsInOrder DEF AnswersInv, PartsArePut, StepsToTake, CacheIsLast, Stopping

LEMMA AnswersInvImplies ==
    LifeInv /\ CacheInv /\ WrittenOrSaving /\ AnswersInv => LastAnswersKept
<1> SUFFICES ASSUME LifeInv, WrittenOrSaving, AnswersInv, proc = "returned", Undisturbed,
                    saver["flusher"].pc = "idle", mishap = {}
             PROVE  ~dirty /\ disk = mem
    BY DEF LastAnswersKept, Undisturbed
<1>1. exec.phase = "done" /\ exec.todo = {}
    BY DEF LifeInv, StoppedBySteps, AnswersInv, CacheIsLast, Stopping
<1>2. "cache" \in stopped /\ saver["closer"].pc = "idle"
    BY <1>1 DEF AnswersInv, StepsToTake, CacheIsLast, Stopping
<1>3. ~dirty
    BY <1>1, <1>2 DEF AnswersInv, CacheIsLast, Stopping
<1> QED BY <1>2, <1>3 DEF WrittenOrSaving, Saving, Writers

(* Parts::steps, flush_now: after an undisturbed shutdown the file of the    *)
(* cache holds every answer that was stored, however many there were.        *)
THEOREM AnswersAlwaysKept == Spec => []LastAnswersKept
BY InitLifeInv, NextKeepsLife, AlwaysCacheInv, InitAnswersInv, NextKeepsAnswers, AnswersInvImplies,
   PTL DEF Spec

-----------------------------------------------------------------------------
(* The end comes nearer. *)

EndInv == LifeInv /\ AnswersInv /\ CacheTypeOK

LEMMA TodoCounted ==
    ASSUME NEW S \in SUBSET (1 .. 7)
    PROVE  /\ IsFiniteSet(S) /\ Cardinality(S) \in 0 .. 7
           /\ \A i \in S : Cardinality(S \ {i}) = Cardinality(S) - 1
<1>n. PICK n \in Nat \ {0} : n = 7
    OBVIOUS
<1>1. IsFiniteSet(1 .. n) /\ Cardinality(1 .. n) = n
    BY FS_Interval
<1>2. IsFiniteSet(S) /\ Cardinality(S) <= n
  <2>1. S \in SUBSET (1 .. n)
    BY <1>n
  <2> QED BY <1>1, <2>1, FS_Subset
<1>3. Cardinality(S) \in Nat
    BY <1>2, FS_CardinalityType
<1>4. \A i \in S : Cardinality(S \ {i}) = Cardinality(S) - 1
    BY <1>2, FS_RemoveElement
<1> QED BY <1>n, <1>2, <1>3, <1>4

LEMMA EndTypes ==
    ASSUME EndInv
    PROVE  /\ main \in 1 .. 19 /\ Started = 18 /\ Closing = 19 /\ Len(StepOrder) = 7
           /\ exec.phase \in Phases /\ exec.todo \in SUBSET (1 .. 7)
           /\ Cardinality(exec.todo) \in 0 .. 7
           /\ saver["closer"].pc \in {"idle", "copy", "open", "fill", "rename"}
           /\ MainLeft \in Nat /\ ExecLeft \in Nat /\ SaveLeft \in Nat
<1>1. main \in 1 .. 19 /\ Started = 18 /\ Closing = 19
    BY PutsInOrder DEF EndInv, AnswersInv, PartsArePut
<1>2. Len(StepOrder) = 7
    BY DEF StepOrder
<1>3. exec.phase \in Phases
    BY DEF EndInv, LifeInv, LifeTypes, IsExec
<1>4. exec.todo \in SUBSET (1 .. 7)
    BY StepOrderFacts DEF EndInv, AnswersInv, PartsArePut
<1>5. Cardinality(exec.todo) \in 0 .. 7
    BY <1>4, TodoCounted
<1>6. saver["closer"].pc \in {"idle", "copy", "open", "fill", "rename"}
    BY CacheTypes DEF EndInv, Writers, SaverRecord
<1>7. MainLeft \in Nat
    BY <1>1 DEF MainLeft
<1>8. ExecLeft \in Nat
    BY <1>2, <1>3, <1>5 DEF ExecLeft, Phases
<1>9. SaveLeft \in Nat
    BY <1>6 DEF SaveLeft
<1> QED BY <1>1, <1>2, <1>3, <1>4, <1>5, <1>6, <1>7, <1>8, <1>9

(* What leaves the shutdown, or the last save, as far as it is. *)
LEMMA ExecStays ==
    ASSUME exec'.phase = exec.phase, exec'.todo = exec.todo
    PROVE  ExecLeft' = ExecLeft
BY DEF ExecLeft

LEMMA SaveStays ==
    ASSUME EndInv, saver'["closer"].pc = saver["closer"].pc, stopped \subseteq stopped'
    PROVE  SaveLeft' <= SaveLeft
BY EndTypes DEF SaveLeft

LEMMA BeginStays ==
    ASSUME EndInv, NEW fast \in BOOLEAN, Begin(fast)
    PROVE  ExecLeft' = ExecLeft
<1>1. CASE exec.phase # "none"
    BY <1>1 DEF Begin, ExecLeft
<1>2. CASE exec.phase = "none"
  <2> DEFINE early == main < Started
             e == [exec EXCEPT !.phase = "restore", !.fast = fast, !.early = early]
  <2>1. exec' = e
    BY <1>2 DEF Begin
  <2>2. e.phase = "restore"
    BY DEF EndInv, LifeInv, LifeTypes, IsExec
  <2> HIDE DEF e
  <2> QED BY <1>2, <2>1, <2>2 DEF ExecLeft
<1> QED BY <1>1, <1>2

LEMMA MainNearer ==
    ASSUME EndInv, MainStep
    PROVE  MainLeft' < MainLeft /\ ExecLeft' = ExecLeft /\ SaveLeft' <= SaveLeft
<1>1. MainLeft' < MainLeft
  <2>1. CASE proc' = proc /\ main' \in {main + 1, Closing} /\ main < Closing
    BY <2>1, EndTypes DEF MainLeft
  <2>2. CASE Returns
    BY <2>2, EndTypes DEF Returns, MainLeft
  <2>3. ASSUME NEW op, At(op), proc' = proc, main' = main + 1 \/ main' = Closing
        PROVE  main < Closing
    BY <2>3, EndTypes DEF At
  <2>4. CASE WaitEnds
    BY <2>1, <2>4, EndTypes DEF WaitEnds
  <2>5. CASE InstallShutdown \/ Recover \/ PutPart \/ StartPart \/ StartRelay \/ StartPatcher
    BY <2>1, <2>3, <2>5
    DEF InstallShutdown, Recover, PutPart, StartPart, StartRelay, StartPatcher, Advances
  <2> QED BY <2>2, <2>4, <2>5 DEF MainStep
<1>2. exec' = exec \/ Begin(FALSE)
    BY DEF MainStep, InstallShutdown, Recover, PutPart, StartPart, StartRelay, StartPatcher,
           WaitEnds, Returns
<1>3. ExecLeft' = ExecLeft
    BY <1>2, ExecStays, BeginStays
<1>4. stopped' = stopped /\ saver' = saver
    BY DEF MainStep, InstallShutdown, Recover, PutPart, StartPart, StartRelay, StartPatcher,
           WaitEnds, Returns, cacheVars, fileVars
<1> QED BY <1>1, <1>3, <1>4, SaveStays

(* A later phase of the shutdown, or one step less of it. *)
LEMMA ExecNearer ==
    ASSUME EndInv, ExecStep
    PROVE  /\ MainLeft' = MainLeft
           /\ \/ ExecLeft' < ExecLeft /\ SaveLeft' <= SaveLeft
              \/ ExecLeft' = ExecLeft /\ SaveLeft' < SaveLeft
<1>t. IsExec(exec) /\ Len(StepOrder) = 7 /\ Cardinality(exec.todo) \in 0 .. 7
    BY EndTypes DEF EndInv, LifeInv, LifeTypes
<1>1. MainLeft' = MainLeft
    BY DEF ExecStep, RestoreTools, Unpublish, Collect, BeginFlush, StepWorks, StepTimesOut, StepsEnd, MainLeft
<1>2. CASE BeginFlush
  <2>1. exec' = exec /\ saver["closer"].pc = "idle" /\ "cache" \notin stopped /\ "cache" \in stopped'
    BY <1>2 DEF BeginFlush, StopPart
  <2>2. saver'["closer"].pc = "copy"
    BY <1>2, SaverMoves DEF BeginFlush, EndInv, Writers
  <2>3. ExecLeft' = ExecLeft
    BY <2>1, ExecStays
  <2>4. SaveLeft = 5 /\ SaveLeft' = 4
    BY <2>1, <2>2 DEF SaveLeft
  <2> QED BY <1>1, <2>3, <2>4
<1>3. ~BeginFlush => SaveLeft' <= SaveLeft
  <2>1. ~BeginFlush => stopped \subseteq stopped' /\ saver' = saver
    BY DEF ExecStep, RestoreTools, Unpublish, Collect, StepWorks, StepTimesOut, StepsEnd,
           StopPart, cacheVars, fileVars
  <2> QED BY <2>1, SaveStays
<1>4. CASE RestoreTools
  <2> DEFINE e == [exec EXCEPT !.phase = "unpublish"]
  <2>1. exec' = e /\ exec.phase = "restore"
    BY <1>4 DEF RestoreTools
  <2>2. e.phase = "unpublish"
    BY <1>t DEF IsExec
  <2> HIDE DEF e
  <2>3. ExecLeft' < ExecLeft
    BY <1>t, <2>1, <2>2 DEF ExecLeft
  <2>4. ~BeginFlush
    BY <2>1 DEF BeginFlush, InSteps
  <2> QED BY <1>1, <1>3, <2>3, <2>4
<1>5. CASE Unpublish
  <2> DEFINE phase == IF exec.fast THEN "done" ELSE "collect"
             e == [exec EXCEPT !.phase = phase]
  <2>1. exec' = e /\ phase \in {"done", "collect"} /\ exec.phase = "unpublish"
    BY <1>5 DEF Unpublish
  <2>2. e.phase = phase
    BY <1>t DEF IsExec
  <2> HIDE DEF phase, e
  <2>3. ExecLeft' < ExecLeft
    BY <1>t, <2>1, <2>2 DEF ExecLeft
  <2>4. ~BeginFlush
    BY <2>1 DEF BeginFlush, InSteps
  <2> QED BY <1>1, <1>3, <2>3, <2>4
<1>6. CASE Collect
  <2> DEFINE todo == {i \in Steps : StepOrder[i] \in parts}
             e == [exec EXCEPT !.phase = "steps", !.todo = todo]
  <2>1. exec' = e /\ exec.phase = "collect" /\ Cardinality(todo) \in 0 .. 7
    BY <1>6, StepOrderFacts, TodoCounted DEF Collect
  <2>2. e.phase = "steps" /\ e.todo = todo
    BY <1>t DEF IsExec
  <2> HIDE DEF e, todo
  <2>3. ExecLeft' < ExecLeft
    BY <1>t, <2>1, <2>2 DEF ExecLeft
  <2>4. ~BeginFlush
    BY <2>1 DEF BeginFlush, InSteps
  <2> QED BY <1>1, <1>3, <2>3, <2>4
<1>7. CASE StepWorks \/ StepTimesOut
  <2>1. PICK cut \in BOOLEAN : NextStep(cut)
    BY <1>7 DEF StepWorks, StepTimesOut
  <2> DEFINE todo == exec.todo \ {Min(exec.todo)}
             was == exec.cut \/ cut
             e == [exec EXCEPT !.todo = todo, !.cut = was]
  <2>2. exec' = e /\ exec.phase = "steps" /\ exec.todo # {}
    BY <1>7, <2>1 DEF NextStep, StepWorks, StepTimesOut, InSteps
  <2>3. Cardinality(todo) = Cardinality(exec.todo) - 1
    BY <2>2, EndTypes, FirstStep, TodoCounted
  <2>4. e.phase = "steps" /\ e.todo = todo
    BY <1>t, <2>2 DEF IsExec
  <2> HIDE DEF e, todo, was
  <2>5. ExecLeft' < ExecLeft
    BY <1>t, <2>2, <2>3, <2>4 DEF ExecLeft
  <2>6. SaveLeft' <= SaveLeft
    BY <1>7, SaveStays DEF StepWorks, StepTimesOut, StopPart, cacheVars, fileVars
  <2> QED BY <1>1, <2>5, <2>6
<1>8. CASE StepsEnd
  <2> DEFINE e == [exec EXCEPT !.phase = "done", !.todo = {}]
  <2>1. exec' = e /\ exec.phase = "steps"
    BY <1>8 DEF StepsEnd, InSteps
  <2>2. e.phase = "done"
    BY <1>t DEF IsExec
  <2> HIDE DEF e
  <2>3. ExecLeft' < ExecLeft
    BY <1>t, <2>1, <2>2 DEF ExecLeft
  <2>4. SaveLeft' <= SaveLeft
    BY <1>8, SaveStays DEF StepsEnd, cacheVars, fileVars
  <2> QED BY <1>1, <2>3, <2>4
<1> QED BY <1>2, <1>4, <1>5, <1>6, <1>7, <1>8 DEF ExecStep

(* The last save goes on to its end, whatever the other writer does. *)
LEMMA CloserNearer ==
    ASSUME EndInv, SaverStep("closer"), stopped \subseteq stopped'
    PROVE  SaveLeft' < SaveLeft
<1>1. CacheTypeOK /\ "closer" \in Writers
    BY DEF EndInv, Writers
<1>2. CASE Copy("closer")
  <2>1. CASE dirty
    <3> DEFINE s == [pc |-> "open", copy |-> mem, at |-> "tmp"]
    <3>1. saver' = [saver EXCEPT !["closer"] = s] /\ s.pc = "open"
      BY <1>2, <2>1 DEF Copy
    <3> HIDE DEF s
    <3>2. saver'["closer"].pc = "open"
      BY <1>1, <3>1, CacheTypes
    <3> QED BY <1>2, <3>2 DEF Copy, SaveLeft
  <2>2. CASE ~dirty
    <3>1. saver'["closer"].pc = "idle"
      BY <1>1, <1>2, <2>2, SaverMoves DEF Copy, Goto
    <3> QED BY <1>2, <3>1 DEF Copy, SaveLeft
  <2> QED BY <2>1, <2>2
<1>3. CASE Open("closer")
  <2>1. saver["closer"].pc = "open" /\ saver'["closer"].pc = "fill"
    BY <1>1, <1>3, SaverMoves DEF Open, Goto
  <2> QED BY <2>1 DEF SaveLeft
<1>4. CASE Fill("closer")
  <2>1. saver["closer"].pc = "fill" /\ saver'["closer"].pc = "rename"
    BY <1>1, <1>4, SaverMoves DEF Fill, Goto
  <2> QED BY <2>1 DEF SaveLeft
<1>5. CASE Rename("closer") \/ SaveFails("closer")
  <2>1. saver["closer"].pc \in {"open", "fill", "rename"} /\ saver'["closer"].pc = "idle"
    BY <1>1, <1>5, SaverEnds DEF Rename, SaveFails, Saving
  <2> QED BY <2>1 DEF SaveLeft
<1> QED BY <1>2, <1>3, <1>4, <1>5 DEF SaverStep

LEMMA FlusherLeavesCloser ==
    ASSUME CacheTypeOK, FlusherStep
    PROVE  saver'["closer"].pc = saver["closer"].pc
<1>1. "flusher" \in Writers /\ "closer" \in Writers \ {"flusher"}
    BY DEF Writers
<1>2. CASE FlushDue \/ Open("flusher") \/ Fill("flusher")
    BY <1>1, <1>2, SaverMoves DEF FlushDue, Open, Fill, Goto
<1>3. CASE FlusherEnds
    BY <1>3 DEF FlusherEnds, fileVars
<1>4. CASE Copy("flusher")
  <2>1. CASE dirty
    <3>1. saver' = [saver EXCEPT !["flusher"] = [pc |-> "open", copy |-> mem, at |-> "tmp"]]
      BY <1>4, <2>1 DEF Copy
    <3> QED BY <1>1, <3>1, CacheTypes
  <2>2. CASE ~dirty
    BY <1>1, <1>4, <2>2, SaverMoves DEF Copy, Goto
  <2> QED BY <2>1, <2>2
<1>5. CASE Rename("flusher") \/ SaveFails("flusher")
    BY <1>1, <1>5, SaverEnds DEF Rename, SaveFails
<1> QED BY <1>2, <1>3, <1>4, <1>5 DEF FlusherStep, SaverStep

(* Everybody else puts the end no further off. *)
LEMMA OthersNotFarther ==
    ASSUME EndInv,
           \/ Quits \/ CtrlC \/ Close \/ CloseReturns \/ \E s \in Services : LateStep(s)
           \/ Tick \/ UseCache \/ Flush \/ Engage \/ Release
    PROVE  MainLeft' <= MainLeft /\ ExecLeft' = ExecLeft /\ SaveLeft' <= SaveLeft
<1>1. main' = main /\ (proc' = proc \/ proc' = "killed")
    BY DEF Quits, CtrlC, Close, CloseReturns, LateStep, Tick, UseCache, Flush, Engage, Release, lifeVars
<1>2. MainLeft' <= MainLeft
    BY <1>1, EndTypes DEF MainLeft
<1>3. ExecLeft' = ExecLeft
  <2>1. CASE exec' = exec
    BY <2>1, ExecStays
  <2>2. CASE \E fast \in BOOLEAN : Begin(fast)
    BY <2>2, BeginStays
  <2>3. CASE Release
    <3> DEFINE back == exec.phase # "none"
               e == [exec EXCEPT !.back = back]
    <3>1. exec' = e
      BY <2>3 DEF Release
    <3>2. e.phase = exec.phase /\ e.todo = exec.todo
      BY DEF EndInv, LifeInv, LifeTypes, IsExec
    <3> HIDE DEF e
    <3> QED BY <3>1, <3>2, ExecStays
  <2> QED BY <2>1, <2>2, <2>3
      DEF Quits, CtrlC, Close, CloseReturns, LateStep, Tick, UseCache, Flush, Engage, lifeVars
<1>4. stopped \subseteq stopped'
    BY DEF Quits, CtrlC, Close, CloseReturns, LateStep, StopPart, Tick, UseCache, Flush, Engage,
           Release, lifeVars
<1>5. saver'["closer"].pc = saver["closer"].pc
  <2>1. CASE Flush
    BY <2>1, FlusherLeavesCloser DEF Flush, EndInv
  <2>2. CASE saver' = saver
    BY <2>2
  <2> QED BY <2>1, <2>2
      DEF Quits, CtrlC, Close, CloseReturns, LateStep, Tick, UseCache, Change, LoadDrops, Engage,
          Release, cacheVars, fileVars
<1> QED BY <1>2, <1>3, <1>4, <1>5, SaveStays

LeftTypes == MainLeft \in Nat /\ ExecLeft \in Nat /\ SaveLeft \in Nat

Nearer ==
    /\ StepsLeft' <= StepsLeft
    /\ MainStep \/ ExecStep \/ SaverStep("closer") => StepsLeft' < StepsLeft

LEMMA LeftAdds ==
    ASSUME LeftTypes, LeftTypes', MainLeft' <= MainLeft, ExecLeft' <= ExecLeft, SaveLeft' <= SaveLeft
    PROVE  /\ StepsLeft' <= StepsLeft
           /\ MainLeft' < MainLeft \/ ExecLeft' < ExecLeft \/ SaveLeft' < SaveLeft
                => StepsLeft' < StepsLeft
<1> DEFINE a == MainLeft  b == ExecLeft  c == SaveLeft  x == MainLeft'  y == ExecLeft'  z == SaveLeft'
<1>1. a \in Nat /\ b \in Nat /\ c \in Nat /\ x \in Nat /\ y \in Nat /\ z \in Nat
    BY DEF LeftTypes
<1>2. x <= a /\ y <= b /\ z <= c
    OBVIOUS
<1>3. StepsLeft = a + b + c /\ StepsLeft' = x + y + z
    BY DEF StepsLeft
<1> HIDE DEF a, b, c, x, y, z
<1>4. x + y + z <= a + b + c /\ (x < a \/ y < b \/ z < c => x + y + z < a + b + c)
    BY <1>1, <1>2
<1> QED BY <1>3, <1>4 DEF a, b, c, x, y, z

LEMMA NextIsNearer ==
    ASSUME EndInv, LeftTypes, LeftTypes', [Next]_vars
    PROVE  [Nearer]_vars
<1>1. CASE MainStep
  <2>1. MainLeft' < MainLeft /\ ExecLeft' = ExecLeft /\ SaveLeft' <= SaveLeft
    BY <1>1, MainNearer
  <2>2. ExecLeft' <= ExecLeft /\ MainLeft' <= MainLeft
    BY <2>1 DEF LeftTypes
  <2> QED BY <2>1, <2>2, LeftAdds DEF Nearer
<1>2. CASE ExecStep
  <2>1. /\ MainLeft' = MainLeft
        /\ \/ ExecLeft' < ExecLeft /\ SaveLeft' <= SaveLeft
           \/ ExecLeft' = ExecLeft /\ SaveLeft' < SaveLeft
    BY <1>2, ExecNearer
  <2>2. MainLeft' <= MainLeft /\ ExecLeft' <= ExecLeft /\ SaveLeft' <= SaveLeft
    BY <2>1 DEF LeftTypes
  <2> QED BY <2>1, <2>2, LeftAdds DEF Nearer
<1>3. CASE Closer
  <2>1. MainLeft' = MainLeft /\ ExecLeft' = ExecLeft /\ stopped' = stopped
    BY <1>3 DEF Closer, lifeVars, MainLeft, ExecLeft
  <2>2. SaveLeft' < SaveLeft
    BY <1>3, <2>1, CloserNearer DEF Closer
  <2>3. MainLeft' <= MainLeft /\ ExecLeft' <= ExecLeft /\ SaveLeft' <= SaveLeft
    BY <2>1, <2>2 DEF LeftTypes
  <2> QED BY <2>2, <2>3, LeftAdds DEF Nearer
<1>4. CASE /\ ~MainStep /\ ~ExecStep
           /\ \/ Quits \/ CtrlC \/ Close \/ CloseReturns \/ \E s \in Services : LateStep(s)
              \/ Tick \/ UseCache \/ Flush \/ Engage \/ Release
  <2>1. MainLeft' <= MainLeft /\ ExecLeft' = ExecLeft /\ SaveLeft' <= SaveLeft
    BY <1>4, OthersNotFarther
  <2>2. stopped \subseteq stopped'
    BY <1>4 DEF Quits, CtrlC, Close, CloseReturns, LateStep, StopPart, Tick, UseCache, Flush,
                Engage, Release, lifeVars
  <2>3. SaverStep("closer") => SaveLeft' < SaveLeft
    BY <2>2, CloserNearer
  <2>4. ExecLeft' <= ExecLeft
    BY <2>1 DEF LeftTypes
  <2> QED BY <1>4, <2>1, <2>3, <2>4, LeftAdds DEF Nearer
<1> QED BY <1>1, <1>2, <1>3, <1>4 DEF Next

LEMMA EndTyped == EndInv => LeftTypes
BY EndTypes DEF LeftTypes

LEMMA InitLeft == Init => StepsLeft = 35
<1> SUFFICES ASSUME Init PROVE StepsLeft = 35
    OBVIOUS
<1>1. main = 1 /\ proc = "up" /\ exec.phase = "none" /\ "cache" \notin stopped
    BY DEF Init
<1>2. saver["closer"].pc = "idle"
    BY DEF Init, CacheInit, Writers
<1>3. Closing = 19 /\ Len(StepOrder) = 7
    BY PutsInOrder DEF StepOrder
<1>4. MainLeft = 19 /\ ExecLeft = 11 /\ SaveLeft = 5
    BY <1>1, <1>2, <1>3 DEF MainLeft, ExecLeft, SaveLeft
<1> QED BY <1>4 DEF StepsLeft

Bounded == StepsLeft \in 0 .. 35

LEMMA NearerIsBounded ==
    ASSUME LeftTypes, LeftTypes', StepsLeft <= 35, [Nearer]_vars, [Next]_vars
    PROVE  StepsLeft' <= 35
<1>1. StepsLeft \in Nat /\ StepsLeft' \in Nat
  <2> DEFINE a == MainLeft'  b == ExecLeft'  c == SaveLeft'
  <2>1. a \in Nat /\ b \in Nat /\ c \in Nat /\ StepsLeft' = a + b + c
    BY DEF LeftTypes, StepsLeft
  <2>2. StepsLeft \in Nat
    BY DEF LeftTypes, StepsLeft
  <2> HIDE DEF a, b, c
  <2> QED BY <2>1, <2>2
<1>2. CASE Nearer
  <2>1. StepsLeft' <= StepsLeft
    BY <1>2 DEF Nearer
  <2> QED BY <1>1, <2>1
<1>3. CASE UNCHANGED vars
    BY <1>3 DEF vars, lifeVars, cacheVars, fileVars, StepsLeft, MainLeft, ExecLeft, SaveLeft
<1> QED BY <1>2, <1>3

(* Whatever the parts do, each step of main, of the shutdown and of its save*)
(* brings the end nearer, and no other step puts it off (run_step,          *)
(* Parts::steps, flush_now): in all they take 35 steps at most.             *)
THEOREM EndAlwaysComesNearer == Spec => EndComesNearer /\ []Bounded
<1>1. Init => LifeInv /\ AnswersInv /\ CacheInv
    BY InitLifeInv, InitAnswersInv, InitCacheInv
<1>2. LifeInv /\ AnswersInv /\ CacheInv /\ [Next]_vars => LifeInv' /\ AnswersInv'
    BY NextKeepsLife, NextKeepsAnswers
<1>3. LifeInv /\ AnswersInv /\ CacheInv => EndInv
    BY DEF EndInv, CacheInv
<1>4. EndInv /\ LeftTypes /\ LeftTypes' /\ [Next]_vars => [Nearer]_vars
    BY NextIsNearer
<1>5. Init => StepsLeft <= 35
    BY InitLeft
<1>6. LeftTypes /\ LeftTypes' /\ StepsLeft <= 35 /\ [Nearer]_vars /\ [Next]_vars
        => (StepsLeft <= 35)'
    BY NearerIsBounded
<1>7. LeftTypes /\ StepsLeft <= 35 => Bounded
    BY DEF LeftTypes, StepsLeft, Bounded
<1> QED BY <1>1, <1>2, <1>3, <1>4, <1>5, <1>6, <1>7, EndTyped, AlwaysCacheInv, PTL
    DEF Spec, EndComesNearer, Nearer

=============================================================================
