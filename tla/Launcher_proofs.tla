--------------------------- MODULE Launcher_proofs ---------------------------
(* Proofs about the launcher, for any number of launcher processes, runs and *)
(* process ids: LauncherInv is inductive, and every property of the module   *)
(* follows from it.                                                          *)
EXTENDS Launcher, TLAPS

Blamed == cause # "none"
Quiet(r) == ctl[r] \notin Live /\ \A n \in Nodes : box[r][n] \notin {"starting", "running"}

\* The controller lives, and does not end before its workers.
Stays(r) == Alive(r) /\ ~(ctl[r] = "stopping" /\ r \in term)

\* A process that is a controller is the one its run recorded, and it lives.
ProcInv ==
  /\ \A p \in Pids : proc[p] \in Runs => pid[proc[p]] = p /\ ctl[proc[p]] \in Live
  /\ \A r \in Runs : /\ ctl[r] \in Live => Alive(r)
                     /\ ctl[r] # "unborn" => pid[r] \in Pids

\* Only a controller behind its handler has a start under way.
BoxInv(r) ==
  /\ ctl[r] = "unborn" => \A n \in Nodes : box[r][n] = "none"
  /\ ctl[r] = "early" => \A n \in Nodes : box[r][n] \in {"none", "asked", "created"}
  /\ ctl[r] = "armed" => \A n \in Nodes : box[r][n] = "created"
  /\ ctl[r] \in {"unborn", "early", "gone"} => r \notin term
  /\ ctl[r] # "late" => \A n \in Nodes : box[r][n] = "starting" => Blamed

\* The run a command is about, and that nothing else is under way when it is new.
StageInv(l) ==
  /\ job[l].pc \in {"check", "signal", "wait", "nodes"} =>
       Mine(l) = current /\ Mine(l) \in Runs /\ ctl[Mine(l)] # "unborn"
  /\ job[l].pc \in {"check", "signal", "wait"} => job[l].at = 0
  /\ job[l].pc = "signal" => Alive(Mine(l)) \/ raced
  /\ job[l].pc = "nodes" =>
       \A n \in Nodes : n < job[l].at /\ box[Mine(l)][n] = "running" => Stays(Mine(l)) \/ Blamed
  /\ job[l].pc = "prepare" => \A r \in Runs : ctl[r] \in Live => Blamed
  /\ job[l].pc = "launch" => Mine(l) \in Runs /\ ctl[Mine(l)] = "unborn"
  /\ job[l].pc \in {"launch", "identify", "write", "written"} =>
       \A r \in Runs : r = Mine(l) \/ Quiet(r) \/ Blamed
  /\ job[l].pc \in {"identify", "write", "written"} =>
       /\ Mine(l) \in Runs /\ ctl[Mine(l)] # "unborn" /\ Mine(l) \notin term
       /\ Alive(Mine(l)) \/ Quiet(Mine(l)) \/ Blamed
  /\ job[l].pc = "written" => current = "torn"

\* What current.json names was launched; what was declared stopped stays so.
FileInv ==
  /\ current \in Runs => ctl[current] # "unborn"
  /\ \A r \in stopped : ctl[r] = "gone" /\ (Quiet(r) \/ Blamed)

LauncherInv ==
  /\ LauncherTypeOK /\ OwnedUnlessCaused /\ SignalsItsOwn
  /\ ProcInv /\ FileInv
  /\ \A r \in Runs : BoxInv(r)
  /\ \A l \in Launchers : StageInv(l)

-----------------------------------------------------------------------------
(* One command at a time is anywhere.                                        *)
LEMMA Alone ==
  ASSUME LauncherTypeOK, NEW l \in Launchers
  PROVE  /\ job[l].pc # "idle" => lock = l /\ \A k \in Launchers : k = l \/ job[k].pc = "idle"
         /\ lock = Nobody => \A k \in Launchers : job[k].pc = "idle"
<1>1. \A k \in Launchers : job[k].pc = "idle" <=> lock # k
  BY DEF LauncherTypeOK, AtStage
<1> QED
  BY <1>1, LauncherAssumption

(* What every command keeps: the controllers and the containers.             *)
LEMMA CmdFrame ==
  ASSUME LauncherInv, UNCHANGED ctlVars, Blamed => Blamed'
  PROVE  /\ ProcInv' /\ \A r \in Runs : BoxInv(r)'
         /\ \A r \in Runs : /\ Alive(r)' <=> Alive(r)
                            /\ Running(r)' <=> Running(r)
                            /\ Quiet(r)' <=> Quiet(r)
<1>1. ProcInv'
  BY DEF LauncherInv, ctlVars, ProcInv, Alive
<1>2. \A r \in Runs : BoxInv(r)'
  BY DEF LauncherInv, ctlVars, BoxInv
<1> QED
  BY <1>1, <1>2 DEF ctlVars, Alive, Running, Quiet

(* What a step of a controller, of a node or of another process has to keep. *)
LEMMA CtlFrame ==
  ASSUME LauncherInv, UNCHANGED cmdVars, LauncherTypeOK', ProcInv',
         \A r \in Runs : BoxInv(r)',
         Blamed => Blamed', term' \subseteq term,
         \A r \in Runs : /\ ctl'[r] \in Live => ctl[r] \in Live
                         /\ ctl'[r] = "unborn" <=> ctl[r] = "unborn"
                         /\ ctl[r] = "gone" => ctl'[r] = "gone"
                         /\ Quiet(r) => Quiet(r)' \/ Blamed'
                         /\ Running(r)' => Running(r) \/ ctl[r] \in Live \/ Blamed',
         raced => raced',
         \A r \in Runs :
           (\E k \in Launchers : Mine(k) = r /\ job[k].pc = "signal") /\ Alive(r) =>
             Alive(r)' \/ raced',
         \A r \in Runs : (\E k \in Launchers : Mine(k) = r) =>
           /\ Alive(r) /\ r \notin term => Alive(r)' \/ Quiet(r)' \/ Blamed'
           /\ \A n \in Nodes : box'[r][n] = "running" =>
                Stays(r)' \/ Blamed' \/ (box[r][n] = "running" /\ ~Stays(r))
  PROVE  LauncherInv'
<1>0. /\ job' = job /\ lock' = lock /\ current' = current /\ stopped' = stopped /\ hit' = hit
      /\ \A l \in Launchers : Mine(l)' = Mine(l)
  BY DEF cmdVars, Mine
<1>1. OwnedUnlessCaused'
  <2> SUFFICES ASSUME NEW r \in Runs, ctl'[r] \in Live \/ Running(r)'
               PROVE  current = r \/ BeingRecorded(r) \/ Blamed'
    BY <1>0 DEF OwnedUnlessCaused, BeingRecorded, Mine, Blamed
  <2>1. ctl[r] \in Live \/ Running(r) \/ Blamed'
    OBVIOUS
  <2> QED
    BY <2>1 DEF LauncherInv, OwnedUnlessCaused, Blamed
<1>2. SignalsItsOwn'
  BY <1>0 DEF LauncherInv, SignalsItsOwn
<1>3. FileInv'
  BY <1>0 DEF LauncherInv, LauncherTypeOK, FileInv
<1>4. ASSUME NEW l \in Launchers
      PROVE  StageInv(l)'
  <2>1. StageInv(l)
    BY <1>4 DEF LauncherInv
  <2>2. job[l].pc \in {"signal", "nodes", "launch", "identify", "write", "written"} => Mine(l) \in Runs
    BY <2>1 DEF StageInv
  <2>3. job[l].pc = "signal" => (Alive(Mine(l)) \/ raced)'
    BY <1>0, <1>4, <2>1, <2>2 DEF StageInv, Alive
  <2>4. job[l].pc = "nodes" =>
          \A n \in Nodes : n < job[l].at /\ box'[Mine(l)][n] = "running" => (Stays(Mine(l)) \/ Blamed)'
    BY <1>0, <1>4, <2>1, <2>2 DEF StageInv, Stays, Alive
  <2>5. job[l].pc \in {"identify", "write", "written"} =>
          (Alive(Mine(l)) \/ Quiet(Mine(l)) \/ Blamed)'
    BY <1>0, <1>4, <2>1, <2>2 DEF StageInv, Quiet, Alive
  <2>6. job[l].pc = "prepare" => \A r \in Runs : ctl'[r] \in Live => Blamed'
    BY <1>4, <2>1 DEF StageInv
  <2>7. job[l].pc \in {"launch", "identify", "write", "written"} =>
          \A r \in Runs : r = Mine(l) \/ Quiet(r)' \/ Blamed'
    BY <1>4, <2>1 DEF StageInv
  <2>8. job[l].pc \in {"check", "signal", "wait", "nodes"} =>
          Mine(l) = current /\ Mine(l) \in Runs /\ ctl'[Mine(l)] # "unborn"
    BY <1>4, <2>1 DEF StageInv
  <2>9. /\ job[l].pc = "launch" => Mine(l) \in Runs /\ ctl'[Mine(l)] = "unborn"
        /\ job[l].pc \in {"identify", "write", "written"} =>
             Mine(l) \in Runs /\ ctl'[Mine(l)] # "unborn" /\ Mine(l) \notin term'
        /\ job[l].pc = "written" => current = "torn"
        /\ job[l].pc \in {"check", "signal", "wait"} => job[l].at = 0
    BY <1>4, <2>1 DEF StageInv
  <2> QED
    BY <1>0, <2>3, <2>4, <2>5, <2>6, <2>7, <2>8, <2>9 DEF StageInv
<1> QED
  BY <1>1, <1>2, <1>3, <1>4 DEF LauncherInv

(* What the steps of the controllers know of the state.                      *)
LEMMA CtlTypes ==
  ASSUME LauncherInv
  PROVE  /\ ctl \in [Runs -> Live \cup {"unborn", "gone"}]
         /\ proc \in [Pids -> Runs \cup {Nobody, "foreign"}] /\ pid \in [Runs -> Pids \cup {Nobody}]
         /\ box \in [Runs -> [Nodes -> {"none", "asked"} \cup Created]]
         /\ term \subseteq Runs /\ ProcInv /\ \A r \in Runs : BoxInv(r)
         /\ Nobody \notin Runs /\ "foreign" \notin Runs /\ Nobody \notin Pids
BY LauncherAssumption DEF LauncherInv, LauncherTypeOK

Jobs == [cmd : {"none", "start", "restart", "stop"}, pc : Stages,
                                  run : Runs \cup {Nobody}, at : 0..2]

(* What the steps of a command know of the state.                            *)
LEMMA CmdTypes ==
  ASSUME LauncherInv
  PROVE  /\ job \in [Launchers -> Jobs] /\ lock \in Launchers \cup {Nobody}
         /\ current \in Runs \cup {Nobody, "torn"} /\ stopped \subseteq Runs
         /\ Nobody \notin Launchers /\ "torn" \notin Runs
BY LauncherAssumption DEF LauncherInv, LauncherTypeOK, Jobs

(* The types after a step of a command that leaves the controllers alone.    *)
LEMMA CmdTyped ==
  ASSUME LauncherInv, NEW l \in Launchers, UNCHANGED ctlVars, hit' = hit,
         cause' \in Causes,
         job' \in [Launchers -> Jobs], \A k \in Launchers : k = l \/ job'[k] = job[k],
         job[l].pc # "idle" \/ lock = Nobody,
         (lock' = Nobody /\ job'[l].pc = "idle") \/ (lock' = l /\ job'[l].pc # "idle"),
         current' \in Runs \cup {Nobody, "torn"}, stopped' \subseteq Runs
  PROVE  LauncherTypeOK'
<1>1. \A k \in Launchers : k = l \/ job[k].pc = "idle"
  BY Alone DEF LauncherInv
<1>2. \A k \in Launchers : job'[k].pc = "idle" <=> lock' # k
  BY <1>1, LauncherAssumption
<1>3. /\ proc' = proc /\ pid' = pid /\ ctl' = ctl /\ term' = term /\ box' = box
      /\ (raced \in BOOLEAN => raced' \in BOOLEAN)
  BY DEF ctlVars
<1>4. lock' \in Launchers \cup {Nobody} /\ (hit \in BOOLEAN => hit' \in BOOLEAN)
  OBVIOUS
<1> QED
  BY <1>2, <1>3, <1>4 DEF LauncherInv, LauncherTypeOK, AtStage, Jobs

(* The stage of a command after one of its own steps.                        *)
LEMMA CmdStage ==
  ASSUME UNCHANGED <<ctlVars>>, NEW l \in Launchers, NEW pc, NEW r, NEW at,
         job'[l].pc = pc, job'[l].run = r, job'[l].at = at,
         pc \in {"check", "signal", "wait", "nodes"} =>
           r = current' /\ r \in Runs /\ ctl[r] # "unborn",
         pc \in {"check", "signal", "wait"} => at = 0,
         pc = "signal" => Alive(r) \/ raced,
         pc = "nodes" => \A n \in Nodes : n < at /\ box[r][n] = "running" => Stays(r) \/ Blamed',
         pc = "prepare" => \A s \in Runs : ctl[s] \in Live => Blamed',
         pc = "launch" => r \in Runs /\ ctl[r] = "unborn",
         pc \in {"launch", "identify", "write", "written"} =>
           \A s \in Runs : s = r \/ Quiet(s) \/ Blamed',
         pc \in {"identify", "write", "written"} =>
           r \in Runs /\ ctl[r] # "unborn" /\ r \notin term /\ (Alive(r) \/ Quiet(r) \/ Blamed'),
         pc = "written" => current' = "torn"
  PROVE  StageInv(l)'
<1>1. /\ Mine(l)' = r
      /\ proc' = proc /\ pid' = pid /\ ctl' = ctl /\ term' = term /\ box' = box /\ (raced => raced')
  BY DEF Mine, ctlVars
<1>2. /\ (pc = "signal" => (Alive(Mine(l)) \/ raced)')
      /\ pc = "nodes" =>
           \A n \in Nodes : n < at /\ box[r][n] = "running" => (Stays(Mine(l)) \/ Blamed)'
  BY <1>1 DEF Stays, Alive
<1>3. pc \in {"launch", "identify", "write", "written"} =>
           \A s \in Runs : s = r \/ Quiet(s)' \/ Blamed'
  BY <1>1 DEF Quiet
<1>4. pc \in {"identify", "write", "written"} =>
           (Alive(Mine(l)) \/ Quiet(Mine(l)) \/ Blamed)'
  BY <1>1 DEF Alive, Quiet
<1> QED
  BY <1>1, <1>2, <1>3, <1>4 DEF StageInv

(* A command takes the lock and reads current.json.                          *)
LEMMA BeginKeeps ==
  ASSUME LauncherInv, NEW l \in Launchers, NEW c \in {"start", "restart", "stop"}, Begin(l, c)
  PROVE  LauncherInv'
<1>1. /\ job[l].pc = "idle" /\ current \in Runs \cup {Nobody} /\ lock = Nobody /\ lock' = l
      /\ \E p \in {"prepare", "check"} :
           job' = [job EXCEPT ![l] = [cmd |-> c, run |-> current, at |-> 0, pc |-> p]]
      /\ job'[l].pc = "check" => current # Nobody
      /\ job'[l].pc = "prepare" => current = Nobody \/ ~Alive(current)
  <2>1. /\ job[l].pc = "idle" /\ lock = Nobody /\ lock' = l /\ current # "torn"
        /\ c = "start" /\ current # Nobody => ~Alive(current)
        /\ job' = [job EXCEPT ![l] = [cmd |-> c, run |-> current, at |-> 0,
              pc |-> IF c = "start" \/ current = Nobody THEN "prepare" ELSE "check"]]
    BY DEF Begin, Set, AtStage
  <2> QED
    BY <2>1, CmdTypes DEF Jobs
<1>2. UNCHANGED ctlVars /\ (Blamed => Blamed') /\ hit' = hit
  BY DEF Begin, Blamed
<1>3. job' \in [Launchers -> Jobs] /\ \A k \in Launchers : k = l \/ job'[k] = job[k]
  BY <1>1, CmdTypes DEF Jobs, Stages, Idle
<1>4. job[l].pc # "idle" => lock = l
  BY Alone DEF LauncherInv
<1>5. job[l].pc # "idle" \/ lock = Nobody
  BY <1>1
<1>6. (lock' = Nobody /\ job'[l].pc = "idle") \/ (lock' = l /\ job'[l].pc # "idle")
  BY <1>1, <1>4, CmdTypes DEF Begin, Idle, Jobs
<1>7. /\ current' \in Runs \cup {Nobody, "torn"} /\ stopped' \subseteq Runs
      /\ cause' \in Causes
  BY CmdTypes DEF LauncherInv, LauncherTypeOK, Begin
<1>8. LauncherTypeOK'
  BY <1>2, <1>3, <1>5, <1>6, <1>7, CmdTyped
<1>9. \A k \in Launchers : k = l \/ job[k].pc = "idle"
  BY <1>5, Alone DEF LauncherInv
<1>10. /\ \A k \in Launchers : k = l \/ (job[k].pc = "idle" /\ job'[k] = job[k])
       /\ ProcInv' /\ (\A s \in Runs : BoxInv(s)') /\ SignalsItsOwn'
  BY <1>2, <1>3, <1>9, CmdFrame DEF LauncherInv, SignalsItsOwn, ctlVars
<1>11. FileInv'
  <2>1. FileInv /\ stopped' = stopped /\ current' = current
    BY DEF LauncherInv, Begin
  <2> QED
    BY <1>2, <2>1 DEF FileInv, ctlVars, Quiet
<1>12. OwnedUnlessCaused'
  <2> SUFFICES ASSUME NEW r \in Runs, ctl[r] \in Live \/ Running(r)
               PROVE  current' = r \/ BeingRecorded(r)' \/ Blamed'
    BY <1>2, CmdFrame DEF OwnedUnlessCaused, Blamed, ctlVars
  <2>1. current = r \/ BeingRecorded(r) \/ Blamed
    BY DEF LauncherInv, OwnedUnlessCaused, Blamed
  <2>2. BeingRecorded(r) => Mine(l) = r /\ job[l].pc \in {"identify", "write", "written"}
    BY <1>10 DEF BeingRecorded
  <2> QED
    BY <1>1, <1>2, <2>1, <1>10 DEF Begin, BeingRecorded, Blamed
<1>13. StageInv(l)'
  <2>1. \A s \in Runs : ctl[s] \in Live => s = current \/ Blamed
    BY <1>10, <1>1 DEF LauncherInv, OwnedUnlessCaused, BeingRecorded, Blamed
  <2>2. \A s \in Runs : ctl[s] \in Live => Alive(s)
    BY CtlTypes DEF ProcInv
  <2>3. current \in Runs => ctl[current] # "unborn"
    BY DEF LauncherInv, FileInv
  <2>4. job'[l].run = current /\ job'[l].at = 0 /\ job'[l].pc \in {"prepare", "check"}
    BY <1>1, CmdTypes DEF Jobs
  <2>5. job'[l].pc = "check" => current \in Runs /\ current' = current
    BY <1>1, CtlTypes DEF Begin
  <2>6. job'[l].pc = "prepare" => \A s \in Runs : ctl[s] \in Live => Blamed'
    BY <1>1, <1>2, <2>1, <2>2, CtlTypes
  <2> QED
    BY <1>2, <2>3, <2>4, <2>5, <2>6, CmdStage
<1>14. \A k \in Launchers : StageInv(k)'
  BY <1>10, <1>13 DEF StageInv
<1> QED
  BY <1>8, <1>10, <1>11, <1>12, <1>14 DEF LauncherInv

(* The recorded process is looked for.                                       *)
LEMMA CheckAliveKeeps ==
  ASSUME LauncherInv, NEW l \in Launchers, CheckAlive(l)
  PROVE  LauncherInv'
<1>1. /\ job[l].pc = "check" /\ current' = current
      /\ \/ job' = [job EXCEPT ![l].pc = "signal"] /\ Alive(Mine(l))
         \/ job' = [job EXCEPT ![l].pc = "nodes"]
  BY DEF CheckAlive, Turn, AtStage
<1>2. UNCHANGED ctlVars /\ (Blamed => Blamed') /\ hit' = hit
  BY DEF CheckAlive, Turn, Blamed
<1>3. job' \in [Launchers -> Jobs] /\ \A k \in Launchers : k = l \/ job'[k] = job[k]
  BY <1>1, CmdTypes DEF Jobs, Stages, Idle
<1>4. job[l].pc # "idle" => lock = l
  BY Alone DEF LauncherInv
<1>5. job[l].pc # "idle" \/ lock = Nobody
  BY <1>1
<1>6. (lock' = Nobody /\ job'[l].pc = "idle") \/ (lock' = l /\ job'[l].pc # "idle")
  BY <1>1, <1>4, CmdTypes DEF CheckAlive, Turn, Idle, Jobs
<1>7. /\ current' \in Runs \cup {Nobody, "torn"} /\ stopped' \subseteq Runs
      /\ cause' \in Causes
  BY CmdTypes DEF LauncherInv, LauncherTypeOK, CheckAlive
<1>8. LauncherTypeOK'
  BY <1>2, <1>3, <1>5, <1>6, <1>7, CmdTyped
<1>9. \A k \in Launchers : k = l \/ job[k].pc = "idle"
  BY <1>5, Alone DEF LauncherInv
<1>10. /\ \A k \in Launchers : k = l \/ (job[k].pc = "idle" /\ job'[k] = job[k])
       /\ ProcInv' /\ (\A s \in Runs : BoxInv(s)') /\ SignalsItsOwn'
  BY <1>2, <1>3, <1>9, CmdFrame DEF LauncherInv, SignalsItsOwn, ctlVars
<1>11. FileInv'
  <2>1. FileInv /\ stopped' = stopped /\ current' = current
    BY DEF LauncherInv, CheckAlive
  <2> QED
    BY <1>2, <2>1 DEF FileInv, ctlVars, Quiet
<1>12. OwnedUnlessCaused'
  <2> SUFFICES ASSUME NEW r \in Runs, ctl[r] \in Live \/ Running(r)
               PROVE  current' = r \/ BeingRecorded(r)' \/ Blamed'
    BY <1>2, CmdFrame DEF OwnedUnlessCaused, Blamed, ctlVars
  <2>1. current = r \/ BeingRecorded(r) \/ Blamed
    BY DEF LauncherInv, OwnedUnlessCaused, Blamed
  <2>2. BeingRecorded(r) => Mine(l) = r /\ job[l].pc \in {"identify", "write", "written"}
    BY <1>10 DEF BeingRecorded
  <2> QED
    BY <1>1, <1>2, <2>1, <2>2 DEF CheckAlive, Blamed
<1>13. StageInv(l)'
  <2>1. Mine(l) = current /\ Mine(l) \in Runs /\ ctl[Mine(l)] # "unborn" /\ job[l].at = 0
    BY <1>1 DEF LauncherInv, StageInv
  <2>2. job'[l].run = Mine(l) /\ job'[l].at = 0
    BY <1>1, <2>1, CmdTypes DEF Jobs, Mine
  <2>3. (job'[l].pc = "signal" /\ Alive(Mine(l))) \/ job'[l].pc = "nodes"
    BY <1>1, CmdTypes DEF Jobs
  <2>4. \A n \in Nodes : ~(n < 0)
    BY DEF Nodes
  <2> QED
    BY <1>1, <1>2, <2>1, <2>2, <2>3, <2>4, CmdStage
<1>14. \A k \in Launchers : StageInv(k)'
  BY <1>10, <1>13 DEF StageInv
<1> QED
  BY <1>8, <1>10, <1>11, <1>12, <1>14 DEF LauncherInv

(* The wait for the controller is over.                                      *)
LEMMA WaitedKeeps ==
  ASSUME LauncherInv, NEW l \in Launchers, Waited(l)
  PROVE  LauncherInv'
<1>1. /\ job[l].pc = "wait"
      /\ current' = current /\ job' = [job EXCEPT ![l].pc = "nodes"]
  BY DEF Waited, Turn, AtStage
<1>2. UNCHANGED ctlVars /\ (Blamed => Blamed') /\ hit' = hit
  BY DEF Waited, Turn, Blamed
<1>3. job' \in [Launchers -> Jobs] /\ \A k \in Launchers : k = l \/ job'[k] = job[k]
  BY <1>1, CmdTypes DEF Jobs, Stages, Idle
<1>4. job[l].pc # "idle" => lock = l
  BY Alone DEF LauncherInv
<1>5. job[l].pc # "idle" \/ lock = Nobody
  BY <1>1
<1>6. (lock' = Nobody /\ job'[l].pc = "idle") \/ (lock' = l /\ job'[l].pc # "idle")
  BY <1>1, <1>4, CmdTypes DEF Waited, Turn, Idle, Jobs
<1>7. /\ current' \in Runs \cup {Nobody, "torn"} /\ stopped' \subseteq Runs
      /\ cause' \in Causes
  BY CmdTypes DEF LauncherInv, LauncherTypeOK, Waited
<1>8. LauncherTypeOK'
  BY <1>2, <1>3, <1>5, <1>6, <1>7, CmdTyped
<1>9. \A k \in Launchers : k = l \/ job[k].pc = "idle"
  BY <1>5, Alone DEF LauncherInv
<1>10. /\ \A k \in Launchers : k = l \/ (job[k].pc = "idle" /\ job'[k] = job[k])
       /\ ProcInv' /\ (\A s \in Runs : BoxInv(s)') /\ SignalsItsOwn'
  BY <1>2, <1>3, <1>9, CmdFrame DEF LauncherInv, SignalsItsOwn, ctlVars
<1>11. FileInv'
  <2>1. FileInv /\ stopped' = stopped /\ current' = current
    BY DEF LauncherInv, Waited
  <2> QED
    BY <1>2, <2>1 DEF FileInv, ctlVars, Quiet
<1>12. OwnedUnlessCaused'
  <2> SUFFICES ASSUME NEW r \in Runs, ctl[r] \in Live \/ Running(r)
               PROVE  current' = r \/ BeingRecorded(r)' \/ Blamed'
    BY <1>2, CmdFrame DEF OwnedUnlessCaused, Blamed, ctlVars
  <2>1. current = r \/ BeingRecorded(r) \/ Blamed
    BY DEF LauncherInv, OwnedUnlessCaused, Blamed
  <2>2. BeingRecorded(r) => Mine(l) = r /\ job[l].pc \in {"identify", "write", "written"}
    BY <1>10 DEF BeingRecorded
  <2> QED
    BY <1>1, <1>2, <2>1, <2>2 DEF Waited, Blamed
<1>13. StageInv(l)'
  <2>1. Mine(l) = current /\ Mine(l) \in Runs /\ ctl[Mine(l)] # "unborn" /\ job[l].at = 0
    BY <1>1 DEF LauncherInv, StageInv
  <2>2. job'[l].run = Mine(l) /\ job'[l].at = 0
    BY <1>1, <2>1, CmdTypes DEF Jobs, Mine
  <2>3. job'[l].pc = "nodes"
    BY <1>1, CmdTypes DEF Jobs
  <2>4. \A n \in Nodes : ~(n < 0)
    BY DEF Nodes
  <2> QED
    BY <1>1, <1>2, <2>1, <2>2, <2>3, <2>4, CmdStage
<1>14. \A k \in Launchers : StageInv(k)'
  BY <1>10, <1>13 DEF StageInv
<1> QED
  BY <1>8, <1>10, <1>11, <1>12, <1>14 DEF LauncherInv

(* A node cannot be stopped.                                                 *)
LEMMA StopFailsKeeps ==
  ASSUME LauncherInv, NEW l \in Launchers, StopFails(l)
  PROVE  LauncherInv'
<1>1. /\ job[l].pc = "nodes"
      /\ job' = [job EXCEPT ![l] = Idle]
  BY DEF StopFails, Leave, Set, AtStage
<1>2. UNCHANGED ctlVars /\ (Blamed => Blamed') /\ hit' = hit
  BY DEF StopFails, Leave, Set, Idle, Blamed
<1>3. job' \in [Launchers -> Jobs] /\ \A k \in Launchers : k = l \/ job'[k] = job[k]
  BY <1>1, CmdTypes DEF Jobs, Stages, Idle
<1>4. job[l].pc # "idle" => lock = l
  BY Alone DEF LauncherInv
<1>5. job[l].pc # "idle" \/ lock = Nobody
  BY <1>1
<1>6. (lock' = Nobody /\ job'[l].pc = "idle") \/ (lock' = l /\ job'[l].pc # "idle")
  BY <1>1, <1>4, CmdTypes DEF StopFails, Leave, Set, Idle, Idle, Jobs
<1>7. /\ current' \in Runs \cup {Nobody, "torn"} /\ stopped' \subseteq Runs
      /\ cause' \in Causes
  BY CmdTypes DEF LauncherInv, LauncherTypeOK, StopFails
<1>8. LauncherTypeOK'
  BY <1>2, <1>3, <1>5, <1>6, <1>7, CmdTyped
<1>9. \A k \in Launchers : k = l \/ job[k].pc = "idle"
  BY <1>5, Alone DEF LauncherInv
<1>10. /\ \A k \in Launchers : k = l \/ (job[k].pc = "idle" /\ job'[k] = job[k])
       /\ ProcInv' /\ (\A s \in Runs : BoxInv(s)') /\ SignalsItsOwn'
  BY <1>2, <1>3, <1>9, CmdFrame DEF LauncherInv, SignalsItsOwn, ctlVars
<1>11. FileInv'
  <2>1. FileInv /\ stopped' = stopped /\ current' = current
    BY DEF LauncherInv, StopFails
  <2> QED
    BY <1>2, <2>1 DEF FileInv, ctlVars, Quiet
<1>12. OwnedUnlessCaused'
  <2> SUFFICES ASSUME NEW r \in Runs, ctl[r] \in Live \/ Running(r)
               PROVE  current' = r \/ BeingRecorded(r)' \/ Blamed'
    BY <1>2, CmdFrame DEF OwnedUnlessCaused, Blamed, ctlVars
  <2>1. current = r \/ BeingRecorded(r) \/ Blamed
    BY DEF LauncherInv, OwnedUnlessCaused, Blamed
  <2>2. BeingRecorded(r) => Mine(l) = r /\ job[l].pc \in {"identify", "write", "written"}
    BY <1>10 DEF BeingRecorded
  <2> QED
    BY <1>1, <1>2, <2>1, <2>2 DEF StopFails, Blamed
<1>13. StageInv(l)'
  <2> QED
    BY <1>1, <1>2, CmdTypes, CmdStage DEF Jobs, Idle
<1>14. \A k \in Launchers : StageInv(k)'
  BY <1>10, <1>13 DEF StageInv
<1> QED
  BY <1>8, <1>10, <1>11, <1>12, <1>14 DEF LauncherInv

(* The run is declared stopped only without a controller.                    *)
LEMMA StopEndsKeeps ==
  ASSUME LauncherInv, NEW l \in Launchers, StopEnds(l)
  PROVE  LauncherInv'
<1>1. /\ job[l].pc = "nodes"
      /\ job[l].at \notin Nodes
      /\ stopped' \in {stopped, stopped \cup {Mine(l)}} /\ (stopped' # stopped => ~Alive(Mine(l)))
      /\ \/ job' = [job EXCEPT ![l] = Idle]
         \/ ~Alive(Mine(l)) /\ job' = [job EXCEPT ![l].pc = "prepare"]
  BY DEF StopEnds, Leave, Turn, Set, AtStage
<1>2. UNCHANGED ctlVars /\ (Blamed => Blamed') /\ hit' = hit
  BY DEF StopEnds, Leave, Turn, Set, Idle, Blamed
<1>3. job' \in [Launchers -> Jobs] /\ \A k \in Launchers : k = l \/ job'[k] = job[k]
  BY <1>1, CmdTypes DEF Jobs, Stages, Idle
<1>4. job[l].pc # "idle" => lock = l
  BY Alone DEF LauncherInv
<1>5. job[l].pc # "idle" \/ lock = Nobody
  BY <1>1
<1>6. (lock' = Nobody /\ job'[l].pc = "idle") \/ (lock' = l /\ job'[l].pc # "idle")
  BY <1>1, <1>4, CmdTypes DEF StopEnds, Leave, Turn, Set, Idle, Idle, Jobs
<1>7. /\ current' \in Runs \cup {Nobody, "torn"} /\ stopped' \subseteq Runs
      /\ cause' \in Causes
  BY <1>1, CmdTypes DEF LauncherInv, LauncherTypeOK, StopEnds, StageInv
<1>8. LauncherTypeOK'
  BY <1>2, <1>3, <1>5, <1>6, <1>7, CmdTyped
<1>9. \A k \in Launchers : k = l \/ job[k].pc = "idle"
  BY <1>5, Alone DEF LauncherInv
<1>10. /\ \A k \in Launchers : k = l \/ (job[k].pc = "idle" /\ job'[k] = job[k])
       /\ ProcInv' /\ (\A s \in Runs : BoxInv(s)') /\ SignalsItsOwn'
  BY <1>2, <1>3, <1>9, CmdFrame DEF LauncherInv, SignalsItsOwn, ctlVars
<1>11. FileInv'
  <2>1. stopped' # stopped =>
          ctl[Mine(l)] = "gone" /\ Mine(l) \in Runs /\ (Quiet(Mine(l)) \/ Blamed)
    <3> SUFFICES ASSUME ~Alive(Mine(l))
                 PROVE  ctl[Mine(l)] = "gone" /\ Mine(l) \in Runs /\ (Quiet(Mine(l)) \/ Blamed)
      BY <1>1
    <3>1. StageInv(l)
      BY DEF LauncherInv
    <3>2. Mine(l) \in Runs /\ ctl[Mine(l)] = "gone"
      BY <1>1, <3>1, CtlTypes DEF StageInv, ProcInv
    <3>3. \A n \in Nodes : n < job[l].at
      BY <1>1, CmdTypes DEF Jobs, Nodes
    <3>4. \A n \in Nodes : box[Mine(l)][n] = "running" => Blamed
      BY <1>1, <3>1, <3>3 DEF StageInv, Stays
    <3> QED
      BY <3>2, <3>4, CtlTypes DEF BoxInv, Quiet, Live
  <2>2. FileInv /\ current' = current
    BY DEF LauncherInv, StopEnds
  <2> QED
    BY <1>1, <1>2, <2>1, <2>2 DEF FileInv, ctlVars, Quiet
<1>12. OwnedUnlessCaused'
  <2> SUFFICES ASSUME NEW r \in Runs, ctl[r] \in Live \/ Running(r)
               PROVE  current' = r \/ BeingRecorded(r)' \/ Blamed'
    BY <1>2, CmdFrame DEF OwnedUnlessCaused, Blamed, ctlVars
  <2>1. current = r \/ BeingRecorded(r) \/ Blamed
    BY DEF LauncherInv, OwnedUnlessCaused, Blamed
  <2>2. BeingRecorded(r) => Mine(l) = r /\ job[l].pc \in {"identify", "write", "written"}
    BY <1>10 DEF BeingRecorded
  <2> QED
    BY <1>1, <1>2, <2>1, <2>2 DEF StopEnds, Blamed
<1>13. StageInv(l)'
  <2>1. \A s \in Runs : ctl[s] \in Live => s = current \/ Blamed
    BY <1>10, <1>1 DEF LauncherInv, OwnedUnlessCaused, BeingRecorded, Blamed
  <2>2. \A s \in Runs : ctl[s] \in Live => Alive(s)
    BY CtlTypes DEF ProcInv
  <2>3. Mine(l) = current
    BY <1>1 DEF LauncherInv, StageInv
  <2> QED
    BY <1>1, <1>2, <2>1, <2>2, <2>3, CmdTypes, CmdStage DEF Jobs, Idle
<1>14. \A k \in Launchers : StageInv(k)'
  BY <1>10, <1>13 DEF StageInv
<1> QED
  BY <1>8, <1>10, <1>11, <1>12, <1>14 DEF LauncherInv

(* A fresh run, where nothing runs or what runs was not named.               *)
LEMMA PrepareKeeps ==
  ASSUME LauncherInv, NEW l \in Launchers, Prepare(l)
  PROVE  LauncherInv'
<1>1. /\ job[l].pc = "prepare"
      /\ \/ /\ Workers = {} \/ Blamed'
            /\ lock' = lock
            /\ \E r \in Runs :
                 ctl[r] = "unborn" /\ job' = [job EXCEPT ![l].run = r, ![l].pc = "launch"]
         \/ job' = [job EXCEPT ![l] = Idle] /\ lock' = Nobody
  BY DEF Prepare, Leave, Set, AtStage, Blame, Blamed
<1>2. UNCHANGED ctlVars /\ (Blamed => Blamed') /\ hit' = hit
  BY DEF Prepare, Leave, Blame, Blamed
<1>3. job' \in [Launchers -> Jobs] /\ \A k \in Launchers : k = l \/ job'[k] = job[k]
  <2>1. CASE job' = [job EXCEPT ![l] = Idle]
    BY <2>1, CmdTypes DEF Jobs, Stages, Idle
  <2>2. ASSUME NEW r \in Runs, job' = [job EXCEPT ![l].run = r, ![l].pc = "launch"]
        PROVE  job' \in [Launchers -> Jobs] /\ \A k \in Launchers : k = l \/ job'[k] = job[k]
    <3>1. job[l] \in Jobs
      BY CmdTypes
    <3>2. "launch" \in Stages
      BY DEF Stages
    <3>3. [job[l] EXCEPT !.run = r, !.pc = "launch"] \in Jobs
      BY <3>1, <3>2 DEF Jobs
    <3>4. job' = [job EXCEPT ![l] = [job[l] EXCEPT !.run = r, !.pc = "launch"]]
      BY <2>2, CmdTypes
    <3> QED
      BY <3>3, <3>4, CmdTypes
  <2> QED
    BY <1>1, <2>1, <2>2
<1>4. job[l].pc # "idle" => lock = l
  BY Alone DEF LauncherInv
<1>5. job[l].pc # "idle" \/ lock = Nobody
  BY <1>1
<1>6. (lock' = Nobody /\ job'[l].pc = "idle") \/ (lock' = l /\ job'[l].pc # "idle")
  <2>1. CASE job' = [job EXCEPT ![l] = Idle] /\ lock' = Nobody
    BY <2>1, CmdTypes DEF Idle
  <2>2. ASSUME NEW r \in Runs, job' = [job EXCEPT ![l].run = r, ![l].pc = "launch"], lock' = lock
        PROVE  lock' = l /\ job'[l].pc = "launch"
    <3>1. lock = l
      BY <1>1, <1>4
    <3>2. job'[l].pc = "launch"
      BY <2>2, CmdTypes DEF Jobs
    <3> QED
      BY <2>2, <3>1, <3>2
  <2> QED
    BY <1>1, <2>1, <2>2
<1>7. /\ current' \in Runs \cup {Nobody, "torn"} /\ stopped' \subseteq Runs
      /\ cause' \in Causes
  BY CmdTypes DEF LauncherInv, LauncherTypeOK, Prepare, Leave, Blame, Causes
<1>8. LauncherTypeOK'
  BY <1>2, <1>3, <1>5, <1>6, <1>7, CmdTyped
<1>9. \A k \in Launchers : k = l \/ job[k].pc = "idle"
  BY <1>5, Alone DEF LauncherInv
<1>10. /\ \A k \in Launchers : k = l \/ (job[k].pc = "idle" /\ job'[k] = job[k])
       /\ ProcInv' /\ (\A s \in Runs : BoxInv(s)') /\ SignalsItsOwn'
  BY <1>2, <1>3, <1>9, CmdFrame DEF LauncherInv, SignalsItsOwn, ctlVars
<1>11. FileInv'
  <2>1. FileInv /\ stopped' = stopped /\ current' = current
    BY DEF LauncherInv, Prepare
  <2> QED
    BY <1>2, <2>1 DEF FileInv, ctlVars, Quiet
<1>12. OwnedUnlessCaused'
  <2> SUFFICES ASSUME NEW r \in Runs, ctl[r] \in Live \/ Running(r)
               PROVE  current' = r \/ BeingRecorded(r)' \/ Blamed'
    BY <1>2, CmdFrame DEF OwnedUnlessCaused, Blamed, ctlVars
  <2>1. current = r \/ BeingRecorded(r) \/ Blamed
    BY DEF LauncherInv, OwnedUnlessCaused, Blamed
  <2>2. BeingRecorded(r) => Mine(l) = r /\ job[l].pc \in {"identify", "write", "written"}
    BY <1>10 DEF BeingRecorded
  <2> QED
    BY <1>1, <1>2, <2>1, <2>2 DEF Prepare, Blamed
<1>13. StageInv(l)'
  <2>1. \A s \in Runs : ctl[s] \in Live => Blamed
    BY <1>1 DEF LauncherInv, StageInv
  <2>2. Workers = {} => \A s \in Runs : Quiet(s) \/ Blamed
    <3>1. Workers = {} => \A s \in Runs, n \in Nodes : box[s][n] # "running"
      <4> SUFFICES ASSUME NEW s \in Runs, NEW n \in Nodes, box[s][n] = "running"
                   PROVE  <<s, n>> \in Workers
        OBVIOUS
      <4> QED
        BY DEF Workers
    <3> QED
      BY <2>1, <3>1, CtlTypes DEF Quiet, BoxInv, Live
  <2>3. CASE job' = [job EXCEPT ![l] = Idle]
    BY <1>2, <2>3, CmdTypes, CmdStage DEF Jobs, Idle
  <2>4. ASSUME Workers = {} \/ Blamed', NEW r \in Runs, ctl[r] = "unborn",
               job' = [job EXCEPT ![l].run = r, ![l].pc = "launch"]
        PROVE  StageInv(l)'
    <3>1. job'[l].pc = "launch" /\ job'[l].run = r
      BY <2>4, CmdTypes DEF Jobs
    <3>2. \A s \in Runs : Quiet(s) \/ Blamed'
      BY <1>2, <2>2, <2>4
    <3> QED
      BY <1>2, <2>4, <3>1, <3>2, CmdStage
  <2> QED
    BY <1>1, <2>3, <2>4
<1>14. \A k \in Launchers : StageInv(k)'
  BY <1>10, <1>13 DEF StageInv
<1> QED
  BY <1>8, <1>10, <1>11, <1>12, <1>14 DEF LauncherInv

(* Its identity is read, or not.                                             *)
LEMMA IdentifyKeeps ==
  ASSUME LauncherInv, NEW l \in Launchers, Identify(l)
  PROVE  LauncherInv'
<1>1. /\ job[l].pc = "identify"
      /\ \/ job' = [job EXCEPT ![l].pc = "write"]
         \/ job' = [job EXCEPT ![l] = Idle] /\ (~Alive(Mine(l)) \/ Blamed')
  BY DEF Identify, Turn, Leave, Set, AtStage, Blame, Blamed
<1>2. UNCHANGED ctlVars /\ (Blamed => Blamed') /\ hit' = hit
  BY DEF Identify, Turn, Leave, Set, Idle, Blame, Blamed
<1>3. job' \in [Launchers -> Jobs] /\ \A k \in Launchers : k = l \/ job'[k] = job[k]
  BY <1>1, CmdTypes DEF Jobs, Stages, Idle
<1>4. job[l].pc # "idle" => lock = l
  BY Alone DEF LauncherInv
<1>5. job[l].pc # "idle" \/ lock = Nobody
  BY <1>1
<1>6. (lock' = Nobody /\ job'[l].pc = "idle") \/ (lock' = l /\ job'[l].pc # "idle")
  BY <1>1, <1>4, CmdTypes DEF Identify, Turn, Leave, Set, Idle, Blame, Idle, Jobs
<1>7. /\ current' \in Runs \cup {Nobody, "torn"} /\ stopped' \subseteq Runs
      /\ cause' \in Causes
  BY CmdTypes DEF LauncherInv, LauncherTypeOK, Identify, Blame, Causes
<1>8. LauncherTypeOK'
  BY <1>2, <1>3, <1>5, <1>6, <1>7, CmdTyped
<1>9. \A k \in Launchers : k = l \/ job[k].pc = "idle"
  BY <1>5, Alone DEF LauncherInv
<1>10. /\ \A k \in Launchers : k = l \/ (job[k].pc = "idle" /\ job'[k] = job[k])
       /\ ProcInv' /\ (\A s \in Runs : BoxInv(s)') /\ SignalsItsOwn'
  BY <1>2, <1>3, <1>9, CmdFrame DEF LauncherInv, SignalsItsOwn, ctlVars
<1>11. FileInv'
  <2>1. FileInv /\ stopped' = stopped /\ current' = current
    BY DEF LauncherInv, Identify
  <2> QED
    BY <1>2, <2>1 DEF FileInv, ctlVars, Quiet
<1>12. OwnedUnlessCaused'
  <2> SUFFICES ASSUME NEW r \in Runs, ctl[r] \in Live \/ Running(r)
               PROVE  current' = r \/ BeingRecorded(r)' \/ Blamed'
    BY <1>2, CmdFrame DEF OwnedUnlessCaused, Blamed, ctlVars
  <2>1. current = r \/ BeingRecorded(r) \/ Blamed
    BY DEF LauncherInv, OwnedUnlessCaused, Blamed
  <2>2. BeingRecorded(r) => Mine(l) = r /\ job[l].pc \in {"identify", "write", "written"}
    BY <1>10 DEF BeingRecorded
  <2>3. Quiet(r) \/ Alive(r) \/ Blamed \/ ~BeingRecorded(r)
    BY <1>1, <2>2 DEF LauncherInv, StageInv
  <2>4. ~Quiet(r)
    BY DEF Quiet, Running
  <2>5. BeingRecorded(r) => BeingRecorded(r)' \/ Blamed'
    BY <1>1, <1>2, <2>2, <2>3, <2>4, CmdTypes DEF BeingRecorded, Mine, Jobs
  <2> QED
    BY <1>2, <2>1, <2>5 DEF Identify, Blamed
<1>13. StageInv(l)'
  <2>1. StageInv(l)
    BY DEF LauncherInv
  <2> QED
    BY <1>1, <1>2, <2>1, CmdTypes, CmdStage DEF Jobs, Idle, StageInv, Mine
<1>14. \A k \in Launchers : StageInv(k)'
  BY <1>10, <1>13 DEF StageInv
<1> QED
  BY <1>8, <1>10, <1>11, <1>12, <1>14 DEF LauncherInv

(* current.json is written.                                                  *)
LEMMA RecordKeeps ==
  ASSUME LauncherInv, NEW l \in Launchers, Record(l)
  PROVE  LauncherInv'
<1>1. \/ /\ job[l].pc = "write" /\ current' = "torn"
         /\ job' = [job EXCEPT ![l].pc = "written"]
      \/ /\ job[l].pc = "written" /\ current' = Mine(l)
         /\ job' = [job EXCEPT ![l].pc = "watch"]
  BY DEF Record, Turn, AtStage
<1>2. UNCHANGED ctlVars /\ (Blamed => Blamed') /\ hit' = hit
  BY DEF Record, Turn, Blamed
<1>3. job' \in [Launchers -> Jobs] /\ \A k \in Launchers : k = l \/ job'[k] = job[k]
  BY <1>1, CmdTypes DEF Jobs, Stages, Idle
<1>4. job[l].pc # "idle" => lock = l
  BY Alone DEF LauncherInv
<1>5. job[l].pc # "idle" \/ lock = Nobody
  BY <1>1
<1>6. (lock' = Nobody /\ job'[l].pc = "idle") \/ (lock' = l /\ job'[l].pc # "idle")
  BY <1>1, <1>4, CmdTypes DEF Record, Turn, Idle, Jobs
<1>7. /\ current' \in Runs \cup {Nobody, "torn"} /\ stopped' \subseteq Runs
      /\ cause' \in Causes
  BY <1>1, CmdTypes DEF LauncherInv, LauncherTypeOK, Record, StageInv
<1>8. LauncherTypeOK'
  BY <1>2, <1>3, <1>5, <1>6, <1>7, CmdTyped
<1>9. \A k \in Launchers : k = l \/ job[k].pc = "idle"
  BY <1>5, Alone DEF LauncherInv
<1>10. /\ \A k \in Launchers : k = l \/ (job[k].pc = "idle" /\ job'[k] = job[k])
       /\ ProcInv' /\ (\A s \in Runs : BoxInv(s)') /\ SignalsItsOwn'
  BY <1>2, <1>3, <1>9, CmdFrame DEF LauncherInv, SignalsItsOwn, ctlVars
<1>11. FileInv'
  <2>1. FileInv /\ StageInv(l) /\ stopped' = stopped
    BY DEF LauncherInv, Record
  <2> QED
    BY <1>1, <1>2, <2>1, CmdTypes, LauncherAssumption DEF FileInv, StageInv, ctlVars, Quiet
<1>12. OwnedUnlessCaused'
  <2> SUFFICES ASSUME NEW r \in Runs, ctl[r] \in Live \/ Running(r)
               PROVE  current' = r \/ BeingRecorded(r)' \/ Blamed'
    BY <1>2, CmdFrame DEF OwnedUnlessCaused, Blamed, ctlVars
  <2>1. current = r \/ BeingRecorded(r) \/ Blamed
    BY DEF LauncherInv, OwnedUnlessCaused, Blamed
  <2>2. BeingRecorded(r) => Mine(l) = r /\ job[l].pc \in {"identify", "write", "written"}
    BY <1>10 DEF BeingRecorded
  <2>3. StageInv(l) /\ ~Quiet(r)
    BY DEF LauncherInv, Quiet, Running
  <2>4. r = Mine(l) \/ Blamed
    BY <1>1, <2>1, <2>2, <2>3, CmdTypes DEF StageInv
  <2>5. Mine(l)' = Mine(l) /\ (job[l].pc = "write" => job'[l].pc = "written")
    BY <1>1, CmdTypes DEF Mine, Jobs
  <2> QED
    BY <1>1, <1>2, <2>4, <2>5 DEF BeingRecorded
<1>13. StageInv(l)'
  <2>1. StageInv(l)
    BY DEF LauncherInv
  <2> QED
    BY <1>1, <1>2, <2>1, CmdTypes, CmdStage DEF Jobs, Idle, StageInv, Mine
<1>14. \A k \in Launchers : StageInv(k)'
  BY <1>10, <1>13 DEF StageInv
<1> QED
  BY <1>8, <1>10, <1>11, <1>12, <1>14 DEF LauncherInv

(* The launcher ends; the run stays.                                         *)
LEMMA ObservedKeeps ==
  ASSUME LauncherInv, NEW l \in Launchers, Observed(l)
  PROVE  LauncherInv'
<1>1. /\ job[l].pc = "watch"
      /\ job' = [job EXCEPT ![l] = Idle]
  BY DEF Observed, Leave, Set, AtStage
<1>2. UNCHANGED ctlVars /\ (Blamed => Blamed') /\ hit' = hit
  BY DEF Observed, Leave, Set, Idle, Blamed
<1>3. job' \in [Launchers -> Jobs] /\ \A k \in Launchers : k = l \/ job'[k] = job[k]
  BY <1>1, CmdTypes DEF Jobs, Stages, Idle
<1>4. job[l].pc # "idle" => lock = l
  BY Alone DEF LauncherInv
<1>5. job[l].pc # "idle" \/ lock = Nobody
  BY <1>1
<1>6. (lock' = Nobody /\ job'[l].pc = "idle") \/ (lock' = l /\ job'[l].pc # "idle")
  BY <1>1, <1>4, CmdTypes DEF Observed, Leave, Set, Idle, Idle, Jobs
<1>7. /\ current' \in Runs \cup {Nobody, "torn"} /\ stopped' \subseteq Runs
      /\ cause' \in Causes
  BY CmdTypes DEF LauncherInv, LauncherTypeOK, Observed
<1>8. LauncherTypeOK'
  BY <1>2, <1>3, <1>5, <1>6, <1>7, CmdTyped
<1>9. \A k \in Launchers : k = l \/ job[k].pc = "idle"
  BY <1>5, Alone DEF LauncherInv
<1>10. /\ \A k \in Launchers : k = l \/ (job[k].pc = "idle" /\ job'[k] = job[k])
       /\ ProcInv' /\ (\A s \in Runs : BoxInv(s)') /\ SignalsItsOwn'
  BY <1>2, <1>3, <1>9, CmdFrame DEF LauncherInv, SignalsItsOwn, ctlVars
<1>11. FileInv'
  <2>1. FileInv /\ stopped' = stopped /\ current' = current
    BY DEF LauncherInv, Observed
  <2> QED
    BY <1>2, <2>1 DEF FileInv, ctlVars, Quiet
<1>12. OwnedUnlessCaused'
  <2> SUFFICES ASSUME NEW r \in Runs, ctl[r] \in Live \/ Running(r)
               PROVE  current' = r \/ BeingRecorded(r)' \/ Blamed'
    BY <1>2, CmdFrame DEF OwnedUnlessCaused, Blamed, ctlVars
  <2>1. current = r \/ BeingRecorded(r) \/ Blamed
    BY DEF LauncherInv, OwnedUnlessCaused, Blamed
  <2>2. BeingRecorded(r) => Mine(l) = r /\ job[l].pc \in {"identify", "write", "written"}
    BY <1>10 DEF BeingRecorded
  <2> QED
    BY <1>1, <1>2, <2>1, <2>2 DEF Observed, Blamed
<1>13. StageInv(l)'
  <2> QED
    BY <1>1, <1>2, CmdTypes, CmdStage DEF Jobs, Idle
<1>14. \A k \in Launchers : StageInv(k)'
  BY <1>10, <1>13 DEF StageInv
<1> QED
  BY <1>8, <1>10, <1>11, <1>12, <1>14 DEF LauncherInv

(* The launcher is killed.                                                   *)
LEMMA KillLauncherKeeps ==
  ASSUME LauncherInv, NEW l \in Launchers, KillLauncher(l)
  PROVE  LauncherInv'
<1>1. /\ job[l].pc # "idle"
      /\ job' = [job EXCEPT ![l] = Idle] /\ lock' = Nobody
      /\ job[l].pc \in {"identify", "write", "written"} => Blamed'
  BY DEF KillLauncher, Leave, Set, AtStage, Blame, Blamed
<1>2. UNCHANGED ctlVars /\ (Blamed => Blamed') /\ hit' = hit
  BY DEF KillLauncher, Leave, Set, Idle, Blame, Blamed
<1>3. job' \in [Launchers -> Jobs] /\ \A k \in Launchers : k = l \/ job'[k] = job[k]
  BY <1>1, CmdTypes DEF Jobs, Stages, Idle
<1>4. job[l].pc # "idle" => lock = l
  BY Alone DEF LauncherInv
<1>5. job[l].pc # "idle" \/ lock = Nobody
  BY <1>1
<1>6. (lock' = Nobody /\ job'[l].pc = "idle") \/ (lock' = l /\ job'[l].pc # "idle")
  BY <1>1, <1>4, CmdTypes DEF Idle, Jobs
<1>7. /\ current' \in Runs \cup {Nobody, "torn"} /\ stopped' \subseteq Runs
      /\ cause' \in Causes
  BY CmdTypes DEF LauncherInv, LauncherTypeOK, KillLauncher, Blame, Causes
<1>8. LauncherTypeOK'
  BY <1>2, <1>3, <1>5, <1>6, <1>7, CmdTyped
<1>9. \A k \in Launchers : k = l \/ job[k].pc = "idle"
  BY <1>5, Alone DEF LauncherInv
<1>10. /\ \A k \in Launchers : k = l \/ (job[k].pc = "idle" /\ job'[k] = job[k])
       /\ ProcInv' /\ (\A s \in Runs : BoxInv(s)') /\ SignalsItsOwn'
  BY <1>2, <1>3, <1>9, CmdFrame DEF LauncherInv, SignalsItsOwn, ctlVars
<1>11. FileInv'
  <2>1. FileInv /\ stopped' = stopped /\ current' = current
    BY DEF LauncherInv, KillLauncher
  <2> QED
    BY <1>2, <2>1 DEF FileInv, ctlVars, Quiet
<1>12. OwnedUnlessCaused'
  <2> SUFFICES ASSUME NEW r \in Runs, ctl[r] \in Live \/ Running(r)
               PROVE  current' = r \/ BeingRecorded(r)' \/ Blamed'
    BY <1>2, CmdFrame DEF OwnedUnlessCaused, Blamed, ctlVars
  <2>1. current = r \/ BeingRecorded(r) \/ Blamed
    BY DEF LauncherInv, OwnedUnlessCaused, Blamed
  <2>2. BeingRecorded(r) => Mine(l) = r /\ job[l].pc \in {"identify", "write", "written"}
    BY <1>10 DEF BeingRecorded
  <2> QED
    BY <1>1, <1>2, <2>1, <2>2 DEF KillLauncher, Blamed
<1>13. StageInv(l)'
  <2> QED
    BY <1>1, <1>2, CmdTypes, CmdStage DEF Jobs, Idle
<1>14. \A k \in Launchers : StageInv(k)'
  BY <1>10, <1>13 DEF StageInv
<1> QED
  BY <1>8, <1>10, <1>11, <1>12, <1>14 DEF LauncherInv

(* The controller asks both nodes for a container.                           *)
LEMMA CtlAsksKeeps ==
  ASSUME LauncherInv, NEW r \in Runs, CtlAsks(r)
  PROVE  LauncherInv'
<1>1. /\ UNCHANGED <<proc, pid, ctl, term, raced, cause>>
      /\ ctl[r] = "early"
      /\ box' = [box EXCEPT ![r] = [n \in Nodes |-> "asked"]]
  BY DEF CtlAsks, Set
<1>2. UNCHANGED cmdVars /\ (Blamed => Blamed')
  BY DEF CtlAsks, Set, Blamed, cmdVars
<1>4. raced' \in BOOLEAN /\ (raced => raced')
  BY <1>1 DEF LauncherInv, LauncherTypeOK
<1>5. ctl' \in [Runs -> Live \cup {"unborn", "gone"}] /\ proc' \in [Pids -> Runs \cup {Nobody, "foreign"}]
  BY <1>1, CtlTypes DEF Live
<1>6. box' \in [Runs -> [Nodes -> {"none", "asked"} \cup Created]]
  BY <1>1, CtlTypes DEF Created
<1>7. cause' \in Causes /\ term' \subseteq term /\ term' \subseteq Runs
  BY <1>1, CtlTypes DEF LauncherInv, LauncherTypeOK, Causes
<1>8. LauncherTypeOK'
  BY <1>1, <1>2, <1>4, <1>5, <1>6, <1>7 DEF LauncherInv, LauncherTypeOK, cmdVars, AtStage
<1>9. ProcInv'
  BY <1>1, CtlTypes DEF ProcInv, Alive, Live
<1>10. \A s \in Runs : BoxInv(s)'
  BY <1>1, <1>2, CtlTypes DEF BoxInv, Live, Blamed
<1>11. \A s \in Runs : /\ ctl'[s] \in Live => ctl[s] \in Live
                       /\ ctl'[s] = "unborn" <=> ctl[s] = "unborn"
                       /\ ctl[s] = "gone" => ctl'[s] = "gone"
  BY <1>1, CtlTypes DEF Live
<1>12. \A s \in Runs : Quiet(s) => Quiet(s)' \/ Blamed'
  BY <1>1, CtlTypes DEF Quiet, Live
<1>13. \A s \in Runs : Running(s)' => Running(s) \/ ctl[s] \in Live \/ Blamed'
  BY <1>1, <1>2, CtlTypes DEF Running, Live, BoxInv
<1>14. \A s \in Runs : Alive(s) => Alive(s)'
  BY <1>1, CtlTypes DEF Alive
<1>16. \A s \in Runs, m \in Nodes :
         box'[s][m] = "running" => Stays(s)' \/ Blamed' \/ (box[s][m] = "running" /\ ~Stays(s))
  BY <1>1, <1>2, <1>14, CtlTypes DEF Live, Stays
<1> QED
  BY <1>2, <1>4, <1>7, <1>8, <1>9, <1>10, <1>11, <1>12, <1>13, <1>14, <1>16, CtlFrame

(* A node creates it, or does not.                                           *)
LEMMA AgentCreatesKeeps ==
  ASSUME LauncherInv, NEW r \in Runs, NEW n \in Nodes, AgentCreates(r, n)
  PROVE  LauncherInv'
<1>1. /\ UNCHANGED <<proc, pid, ctl, term, raced, cause>>
      /\ box[r][n] = "asked"
      /\ \E b \in {"created", "none"} : box' = [box EXCEPT ![r][n] = b]
  BY DEF AgentCreates
<1>2. UNCHANGED cmdVars /\ (Blamed => Blamed')
  BY DEF AgentCreates, Blamed, cmdVars
<1>4. raced' \in BOOLEAN /\ (raced => raced')
  BY <1>1 DEF LauncherInv, LauncherTypeOK
<1>5. ctl' \in [Runs -> Live \cup {"unborn", "gone"}] /\ proc' \in [Pids -> Runs \cup {Nobody, "foreign"}]
  BY <1>1, CtlTypes DEF Live
<1>6. box' \in [Runs -> [Nodes -> {"none", "asked"} \cup Created]]
  BY <1>1, CtlTypes DEF Created
<1>7. cause' \in Causes /\ term' \subseteq term /\ term' \subseteq Runs
  BY <1>1, CtlTypes DEF LauncherInv, LauncherTypeOK, Causes
<1>8. LauncherTypeOK'
  BY <1>1, <1>2, <1>4, <1>5, <1>6, <1>7 DEF LauncherInv, LauncherTypeOK, cmdVars, AtStage
<1>9. ProcInv'
  BY <1>1, CtlTypes DEF ProcInv, Alive, Live
<1>10. \A s \in Runs : BoxInv(s)'
  BY <1>1, <1>2, CtlTypes DEF BoxInv, Live, Blamed
<1>11. \A s \in Runs : /\ ctl'[s] \in Live => ctl[s] \in Live
                       /\ ctl'[s] = "unborn" <=> ctl[s] = "unborn"
                       /\ ctl[s] = "gone" => ctl'[s] = "gone"
  BY <1>1, CtlTypes DEF Live
<1>12. \A s \in Runs : Quiet(s) => Quiet(s)' \/ Blamed'
  BY <1>1, CtlTypes DEF Quiet, Live
<1>13. \A s \in Runs : Running(s)' => Running(s) \/ ctl[s] \in Live \/ Blamed'
  BY <1>1, <1>2, CtlTypes DEF Running, Live, BoxInv
<1>14. \A s \in Runs : Alive(s) => Alive(s)'
  BY <1>1, CtlTypes DEF Alive
<1>16. \A s \in Runs, m \in Nodes :
         box'[s][m] = "running" => Stays(s)' \/ Blamed' \/ (box[s][m] = "running" /\ ~Stays(s))
  BY <1>1, <1>2, <1>14, CtlTypes DEF Live, Stays
<1> QED
  BY <1>2, <1>4, <1>7, <1>8, <1>9, <1>10, <1>11, <1>12, <1>13, <1>14, <1>16, CtlFrame

(* The controller takes its lock and installs its handler.                   *)
LEMMA CtlArmsKeeps ==
  ASSUME LauncherInv, NEW r \in Runs, CtlArms(r)
  PROVE  LauncherInv'
<1>1. /\ UNCHANGED <<proc, pid, box, raced, cause>>
      /\ ctl[r] = "early" /\ term' = term
      /\ ctl' = [ctl EXCEPT ![r] = "armed"]
      /\ \A n \in Nodes : box[r][n] = "created"
  BY DEF CtlArms, Set
<1>2. UNCHANGED cmdVars /\ (Blamed => Blamed')
  BY DEF CtlArms, Set, Blamed, cmdVars
<1>4. raced' \in BOOLEAN /\ (raced => raced')
  BY <1>1 DEF LauncherInv, LauncherTypeOK
<1>5. ctl' \in [Runs -> Live \cup {"unborn", "gone"}] /\ proc' \in [Pids -> Runs \cup {Nobody, "foreign"}]
  BY <1>1, CtlTypes DEF Live
<1>6. box' \in [Runs -> [Nodes -> {"none", "asked"} \cup Created]]
  BY <1>1, CtlTypes DEF Created
<1>7. cause' \in Causes /\ term' \subseteq term /\ term' \subseteq Runs
  BY <1>1, CtlTypes DEF LauncherInv, LauncherTypeOK, Causes
<1>8. LauncherTypeOK'
  BY <1>1, <1>2, <1>4, <1>5, <1>6, <1>7 DEF LauncherInv, LauncherTypeOK, cmdVars, AtStage
<1>9. ProcInv'
  BY <1>1, CtlTypes DEF ProcInv, Alive, Live
<1>10. \A s \in Runs : BoxInv(s)'
  BY <1>1, <1>2, CtlTypes DEF BoxInv, Live, Blamed
<1>11. \A s \in Runs : /\ ctl'[s] \in Live => ctl[s] \in Live
                       /\ ctl'[s] = "unborn" <=> ctl[s] = "unborn"
                       /\ ctl[s] = "gone" => ctl'[s] = "gone"
  BY <1>1, CtlTypes DEF Live
<1>12. \A s \in Runs : Quiet(s) => Quiet(s)' \/ Blamed'
  BY <1>1, CtlTypes DEF Quiet, Live
<1>13. \A s \in Runs : Running(s)' => Running(s) \/ ctl[s] \in Live \/ Blamed'
  BY <1>1, <1>2, CtlTypes DEF Running, Live, BoxInv
<1>14. \A s \in Runs : Alive(s) => Alive(s)'
  BY <1>1, CtlTypes DEF Alive
<1>16. \A s \in Runs, m \in Nodes :
         box'[s][m] = "running" => Stays(s)' \/ Blamed' \/ (box[s][m] = "running" /\ ~Stays(s))
  BY <1>1, <1>2, <1>14, CtlTypes DEF Live, Stays
<1> QED
  BY <1>2, <1>4, <1>7, <1>8, <1>9, <1>10, <1>11, <1>12, <1>13, <1>14, <1>16, CtlFrame

(* Both containers are started.                                              *)
LEMMA CtlStartsKeeps ==
  ASSUME LauncherInv, NEW r \in Runs, CtlStarts(r)
  PROVE  LauncherInv'
<1>1. /\ UNCHANGED <<proc, pid, term, raced, cause>>
      /\ ctl[r] = "armed"
      /\ ctl' = [ctl EXCEPT ![r] = "late"]
      /\ box' = [box EXCEPT ![r] = [n \in Nodes |-> "starting"]]
  BY DEF CtlStarts, Set
<1>2. UNCHANGED cmdVars /\ (Blamed => Blamed')
  BY DEF CtlStarts, Set, Blamed, cmdVars
<1>4. raced' \in BOOLEAN /\ (raced => raced')
  BY <1>1 DEF LauncherInv, LauncherTypeOK
<1>5. ctl' \in [Runs -> Live \cup {"unborn", "gone"}] /\ proc' \in [Pids -> Runs \cup {Nobody, "foreign"}]
  BY <1>1, CtlTypes DEF Live
<1>6. box' \in [Runs -> [Nodes -> {"none", "asked"} \cup Created]]
  BY <1>1, CtlTypes DEF Created
<1>7. cause' \in Causes /\ term' \subseteq term /\ term' \subseteq Runs
  BY <1>1, CtlTypes DEF LauncherInv, LauncherTypeOK, Causes
<1>8. LauncherTypeOK'
  BY <1>1, <1>2, <1>4, <1>5, <1>6, <1>7 DEF LauncherInv, LauncherTypeOK, cmdVars, AtStage
<1>9. ProcInv'
  BY <1>1, CtlTypes DEF ProcInv, Alive, Live
<1>10. \A s \in Runs : BoxInv(s)'
  BY <1>1, <1>2, CtlTypes DEF BoxInv, Live, Blamed
<1>11. \A s \in Runs : /\ ctl'[s] \in Live => ctl[s] \in Live
                       /\ ctl'[s] = "unborn" <=> ctl[s] = "unborn"
                       /\ ctl[s] = "gone" => ctl'[s] = "gone"
  BY <1>1, CtlTypes DEF Live
<1>12. \A s \in Runs : Quiet(s) => Quiet(s)' \/ Blamed'
  BY <1>1, CtlTypes DEF Quiet, Live
<1>13. \A s \in Runs : Running(s)' => Running(s) \/ ctl[s] \in Live \/ Blamed'
  BY <1>1, <1>2, CtlTypes DEF Running, Live, BoxInv
<1>14. \A s \in Runs : Alive(s) => Alive(s)'
  BY <1>1, CtlTypes DEF Alive
<1>16. \A s \in Runs, m \in Nodes :
         box'[s][m] = "running" => Stays(s)' \/ Blamed' \/ (box[s][m] = "running" /\ ~Stays(s))
  BY <1>1, <1>2, <1>14, CtlTypes DEF Live, Stays
<1> QED
  BY <1>2, <1>4, <1>7, <1>8, <1>9, <1>10, <1>11, <1>12, <1>13, <1>14, <1>16, CtlFrame

(* A start takes effect, however late.                                       *)
LEMMA DockerStartsKeeps ==
  ASSUME LauncherInv, NEW r \in Runs, NEW n \in Nodes, DockerStarts(r, n)
  PROVE  LauncherInv'
<1>1. /\ UNCHANGED <<proc, pid, ctl, term, raced, cause>>
      /\ box[r][n] = "starting"
      /\ \E b \in {"running", "created"} : box' = [box EXCEPT ![r][n] = b]
  BY DEF DockerStarts
<1>2. UNCHANGED cmdVars /\ (Blamed => Blamed')
  BY DEF DockerStarts, Blamed, cmdVars
<1>4. raced' \in BOOLEAN /\ (raced => raced')
  BY <1>1 DEF LauncherInv, LauncherTypeOK
<1>5. ctl' \in [Runs -> Live \cup {"unborn", "gone"}] /\ proc' \in [Pids -> Runs \cup {Nobody, "foreign"}]
  BY <1>1, CtlTypes DEF Live
<1>6. box' \in [Runs -> [Nodes -> {"none", "asked"} \cup Created]]
  BY <1>1, CtlTypes DEF Created
<1>7. cause' \in Causes /\ term' \subseteq term /\ term' \subseteq Runs
  BY <1>1, CtlTypes DEF LauncherInv, LauncherTypeOK, Causes
<1>8. LauncherTypeOK'
  BY <1>1, <1>2, <1>4, <1>5, <1>6, <1>7 DEF LauncherInv, LauncherTypeOK, cmdVars, AtStage
<1>9. ProcInv'
  BY <1>1, CtlTypes DEF ProcInv, Alive, Live
<1>10. \A s \in Runs : BoxInv(s)'
  BY <1>1, <1>2, CtlTypes DEF BoxInv, Live, Blamed
<1>11. \A s \in Runs : /\ ctl'[s] \in Live => ctl[s] \in Live
                       /\ ctl'[s] = "unborn" <=> ctl[s] = "unborn"
                       /\ ctl[s] = "gone" => ctl'[s] = "gone"
  BY <1>1, CtlTypes DEF Live
<1>12. \A s \in Runs : Quiet(s) => Quiet(s)' \/ Blamed'
  BY <1>1, CtlTypes DEF Quiet, Live
<1>13. \A s \in Runs : Running(s)' => Running(s) \/ ctl[s] \in Live \/ Blamed'
  BY <1>1, <1>2, CtlTypes DEF Running, Live, BoxInv
<1>14. \A s \in Runs : Alive(s) => Alive(s)'
  BY <1>1, CtlTypes DEF Alive
<1>16. \A s \in Runs, m \in Nodes :
         box'[s][m] = "running" => Stays(s)' \/ Blamed' \/ (box[s][m] = "running" /\ ~Stays(s))
  BY <1>1, <1>2, <1>14, CtlTypes DEF Live, Stays, BoxInv, ProcInv
<1> QED
  BY <1>2, <1>4, <1>7, <1>8, <1>9, <1>10, <1>11, <1>12, <1>13, <1>14, <1>16, CtlFrame

(* A live controller that turns to stopping keeps its process.               *)
LEMMA ProcStops ==
  ASSUME LauncherInv, NEW r \in Runs, ctl[r] \in Live,
         UNCHANGED <<proc, pid>>, ctl' = [ctl EXCEPT ![r] = "stopping"]
  PROVE  ProcInv'
<1>1. ProcInv /\ ctl \in [Runs -> Live \cup {"unborn", "gone"}]
  BY CtlTypes
<1>2. "stopping" \in Live /\ "unborn" \notin Live
  BY DEF Live
<1>3. \A s \in Runs : /\ ctl'[s] \in Live <=> ctl[s] \in Live
                      /\ ctl'[s] = "unborn" <=> ctl[s] = "unborn"
  BY <1>1, <1>2
<1>4. \A s \in Runs : Alive(s)' <=> Alive(s)
  BY DEF Alive
<1>5. \A p \in Pids : proc'[p] \in Runs => pid'[proc'[p]] = p /\ ctl'[proc'[p]] \in Live
  BY <1>1, <1>3 DEF ProcInv
<1>6. \A s \in Runs : /\ ctl'[s] \in Live => Alive(s)'
                      /\ ctl'[s] # "unborn" => pid'[s] \in Pids
  BY <1>1, <1>3, <1>4 DEF ProcInv
<1> QED
  BY <1>5, <1>6 DEF ProcInv

(* The controller turns to stopping.                                         *)
LEMMA CtlTurnsKeeps ==
  ASSUME LauncherInv, NEW r \in Runs, CtlTurns(r)
  PROVE  LauncherInv'
<1>1. /\ UNCHANGED <<proc, pid, box, raced, cause>>
      /\ ctl[r] \in {"armed", "late"}
      /\ ctl' = [ctl EXCEPT ![r] = "stopping"]
      /\ term' = term \ {r}
      /\ \A n \in Nodes : box[r][n] # "starting"
  BY DEF CtlTurns, Set, Starting
<1>2. UNCHANGED cmdVars /\ (Blamed => Blamed')
  BY DEF CtlTurns, Set, Starting, Blamed, cmdVars
<1>4. raced' \in BOOLEAN /\ (raced => raced')
  BY <1>1 DEF LauncherInv, LauncherTypeOK
<1>5. ctl' \in [Runs -> Live \cup {"unborn", "gone"}] /\ proc' \in [Pids -> Runs \cup {Nobody, "foreign"}]
  BY <1>1, CtlTypes DEF Live
<1>6. box' \in [Runs -> [Nodes -> {"none", "asked"} \cup Created]]
  BY <1>1, CtlTypes DEF Created
<1>7. cause' \in Causes /\ term' \subseteq term /\ term' \subseteq Runs
  BY <1>1, CtlTypes DEF LauncherInv, LauncherTypeOK, Causes
<1>8. LauncherTypeOK'
  BY <1>1, <1>2, <1>4, <1>5, <1>6, <1>7 DEF LauncherInv, LauncherTypeOK, cmdVars, AtStage
<1>9. ProcInv'
  BY <1>1, ProcStops DEF Live
<1>10. \A s \in Runs : BoxInv(s)'
  BY <1>1, <1>2, CtlTypes DEF BoxInv, Live, Blamed
<1>11. \A s \in Runs : /\ ctl'[s] \in Live => ctl[s] \in Live
                       /\ ctl'[s] = "unborn" <=> ctl[s] = "unborn"
                       /\ ctl[s] = "gone" => ctl'[s] = "gone"
  BY <1>1, CtlTypes DEF Live
<1>12. \A s \in Runs : Quiet(s) => Quiet(s)' \/ Blamed'
  BY <1>1, CtlTypes DEF Quiet, Live
<1>13. \A s \in Runs : Running(s)' => Running(s) \/ ctl[s] \in Live \/ Blamed'
  BY <1>1, <1>2, CtlTypes DEF Running, Live, BoxInv
<1>14. \A s \in Runs : Alive(s) => Alive(s)'
  BY <1>1, CtlTypes DEF Alive
<1>16. \A s \in Runs, m \in Nodes :
         box'[s][m] = "running" => Stays(s)' \/ Blamed' \/ (box[s][m] = "running" /\ ~Stays(s))
  BY <1>1, <1>2, <1>14, CtlTypes DEF Live, Stays
<1> QED
  BY <1>2, <1>4, <1>7, <1>8, <1>9, <1>10, <1>11, <1>12, <1>13, <1>14, <1>16, CtlFrame

(* It gives up a start that is out.                                          *)
LEMMA CtlGivesUpKeeps ==
  ASSUME LauncherInv, NEW r \in Runs, CtlGivesUp(r)
  PROVE  LauncherInv'
<1>1. /\ UNCHANGED <<proc, pid, box, raced>>
      /\ ctl[r] = "late" /\ Blamed' /\ cause' \in {cause, "lost start"}
      /\ ctl' = [ctl EXCEPT ![r] = "stopping"]
      /\ term' = term \ {r}
  BY DEF CtlGivesUp, Set, Blame, Blamed
<1>2. UNCHANGED cmdVars /\ (Blamed => Blamed')
  BY DEF CtlGivesUp, Set, Blame, Blamed, cmdVars
<1>4. raced' \in BOOLEAN /\ (raced => raced')
  BY <1>1 DEF LauncherInv, LauncherTypeOK
<1>5. ctl' \in [Runs -> Live \cup {"unborn", "gone"}] /\ proc' \in [Pids -> Runs \cup {Nobody, "foreign"}]
  BY <1>1, CtlTypes DEF Live
<1>6. box' \in [Runs -> [Nodes -> {"none", "asked"} \cup Created]]
  BY <1>1, CtlTypes DEF Created
<1>7. cause' \in Causes /\ term' \subseteq term /\ term' \subseteq Runs
  BY <1>1, CtlTypes DEF LauncherInv, LauncherTypeOK, Causes
<1>8. LauncherTypeOK'
  BY <1>1, <1>2, <1>4, <1>5, <1>6, <1>7 DEF LauncherInv, LauncherTypeOK, cmdVars, AtStage
<1>9. ProcInv'
  BY <1>1, ProcStops DEF Live
<1>10. \A s \in Runs : BoxInv(s)'
  BY <1>1, <1>2, CtlTypes DEF BoxInv, Live, Blamed
<1>11. \A s \in Runs : /\ ctl'[s] \in Live => ctl[s] \in Live
                       /\ ctl'[s] = "unborn" <=> ctl[s] = "unborn"
                       /\ ctl[s] = "gone" => ctl'[s] = "gone"
  BY <1>1, CtlTypes DEF Live
<1>12. \A s \in Runs : Quiet(s) => Quiet(s)' \/ Blamed'
  BY <1>1, CtlTypes DEF Quiet, Live
<1>13. \A s \in Runs : Running(s)' => Running(s) \/ ctl[s] \in Live \/ Blamed'
  BY <1>1, <1>2, CtlTypes DEF Running, Live, BoxInv
<1>14. \A s \in Runs : Alive(s) => Alive(s)'
  BY <1>1, CtlTypes DEF Alive
<1>16. \A s \in Runs, m \in Nodes :
         box'[s][m] = "running" => Stays(s)' \/ Blamed' \/ (box[s][m] = "running" /\ ~Stays(s))
  BY <1>1, <1>2, <1>14, CtlTypes DEF Live, Stays
<1> QED
  BY <1>2, <1>4, <1>7, <1>8, <1>9, <1>10, <1>11, <1>12, <1>13, <1>14, <1>16, CtlFrame

(* The controller ends by itself.                                            *)
LEMMA CtlEndsKeeps ==
  ASSUME LauncherInv, NEW r \in Runs, CtlEnds(r)
  PROVE  LauncherInv'
<1>1. /\ UNCHANGED <<pid, box, cause>> /\ ctl[r] \in Live
      /\ \/ ctl[r] = "early"
         \/ ctl[r] = "late" /\ \A n \in Nodes : box[r][n] \notin {"starting", "running"}
         \/ ctl[r] = "stopping" /\ (r \in term \/ \A n \in Nodes : box[r][n] # "running")
      /\ ctl' = [ctl EXCEPT ![r] = "gone"] /\ proc' = [proc EXCEPT ![pid[r]] = Nobody]
      /\ term' = term \ {r}
  BY DEF CtlEnds, Ends, Set, Live, Starting, Running
<1>2. UNCHANGED cmdVars /\ (Blamed => Blamed')
  BY DEF CtlEnds, Ends, Set, Live, Blamed, cmdVars, Ends, Set
<1>3. raced' = (raced \/ \E k \in Launchers : AtStage(k, "signal") /\ Mine(k) = r)
  BY DEF CtlEnds, Ends
<1>4. raced' \in BOOLEAN /\ (raced => raced')
  BY <1>3, Zenon
<1>5. ctl' \in [Runs -> Live \cup {"unborn", "gone"}] /\ proc' \in [Pids -> Runs \cup {Nobody, "foreign"}]
  BY <1>1, CtlTypes DEF Live
<1>6. box' \in [Runs -> [Nodes -> {"none", "asked"} \cup Created]]
  BY <1>1, CtlTypes DEF Created
<1>7. cause' \in Causes /\ term' \subseteq term /\ term' \subseteq Runs
  BY <1>1, CtlTypes DEF LauncherInv, LauncherTypeOK, Causes
<1>8. LauncherTypeOK'
  BY <1>1, <1>2, <1>4, <1>5, <1>6, <1>7 DEF LauncherInv, LauncherTypeOK, cmdVars, AtStage
<1>9. ProcInv'
  BY <1>1, CtlTypes DEF ProcInv, Alive, Live
<1>10. \A s \in Runs : BoxInv(s)'
  BY <1>1, <1>2, CtlTypes DEF BoxInv, Live, Blamed
<1>11. \A s \in Runs : /\ ctl'[s] \in Live => ctl[s] \in Live
                       /\ ctl'[s] = "unborn" <=> ctl[s] = "unborn"
                       /\ ctl[s] = "gone" => ctl'[s] = "gone"
  BY <1>1, CtlTypes DEF Live
<1>12. \A s \in Runs : Quiet(s) => Quiet(s)' \/ Blamed'
  BY <1>1, CtlTypes DEF Quiet, Live
<1>13. \A s \in Runs : Running(s)' => Running(s) \/ ctl[s] \in Live \/ Blamed'
  BY <1>1, <1>2, CtlTypes DEF Running, Live, BoxInv
<1>14. \A s \in Runs :
         (\E k \in Launchers : Mine(k) = s /\ job[k].pc = "signal") /\ Alive(s) =>
           Alive(s)' \/ raced'
  <2> SUFFICES ASSUME NEW s \in Runs, Alive(s), ~Alive(s)',
                      NEW k \in Launchers, Mine(k) = s, job[k].pc = "signal"
               PROVE  raced'
    OBVIOUS
  <2>1. s = r
    BY <1>1, CtlTypes DEF Alive, ProcInv
  <2> QED
    BY <1>3, <2>1, Zenon DEF AtStage
<1>15. \A s \in Runs : Alive(s) /\ s \notin term => Alive(s)' \/ Quiet(s)' \/ Blamed'
  <2> SUFFICES ASSUME Alive(r), r \notin term
               PROVE  Quiet(r)' \/ Blamed'
    BY <1>1, CtlTypes DEF Alive, ProcInv
  <2> QED
    BY <1>1, <1>2, <1>5, CtlTypes DEF Quiet, Live, BoxInv
<1>16. \A s \in Runs, m \in Nodes :
         box'[s][m] = "running" => Stays(s)' \/ Blamed' \/ (box[s][m] = "running" /\ ~Stays(s))
  BY <1>1, <1>2, CtlTypes DEF Alive, Stays, ProcInv, Live, BoxInv
<1> QED
  BY <1>2, <1>4, <1>7, <1>8, <1>9, <1>10, <1>11, <1>12, <1>13, <1>14, <1>15, <1>16, CtlFrame

(* The controller is killed.                                                 *)
LEMMA KillControllerKeeps ==
  ASSUME LauncherInv, NEW r \in Runs, KillController(r)
  PROVE  LauncherInv'
<1>1. /\ UNCHANGED <<pid, box>> /\ term' = term \ {r}
      /\ ctl[r] \in Live
      /\ ctl' = [ctl EXCEPT ![r] = "gone"]
      /\ proc' = [proc EXCEPT ![pid[r]] = Nobody]
      /\ cause' \in {cause, "controller"}
      /\ ((\E n \in Nodes : box[r][n] = "starting") \/ (\E k \in Launchers : Mine(k) = r) => Blamed')
  BY DEF KillController, Ends, Set, Starting, Blame, Blamed
<1>2. UNCHANGED cmdVars /\ (Blamed => Blamed')
  BY DEF KillController, Ends, Set, Starting, Blame, Blamed, Blamed, cmdVars
<1>3. raced' = (raced \/ \E k \in Launchers : AtStage(k, "signal") /\ Mine(k) = r)
  BY DEF KillController, Ends
<1>4. raced' \in BOOLEAN /\ (raced => raced')
  BY <1>3, Zenon
<1>5. ctl' \in [Runs -> Live \cup {"unborn", "gone"}] /\ proc' \in [Pids -> Runs \cup {Nobody, "foreign"}]
  BY <1>1, CtlTypes DEF Live
<1>6. box' \in [Runs -> [Nodes -> {"none", "asked"} \cup Created]]
  BY <1>1, CtlTypes DEF Created
<1>7. cause' \in Causes /\ term' \subseteq term /\ term' \subseteq Runs
  BY <1>1, CtlTypes DEF LauncherInv, LauncherTypeOK, Causes
<1>8. LauncherTypeOK'
  BY <1>1, <1>2, <1>4, <1>5, <1>6, <1>7 DEF LauncherInv, LauncherTypeOK, cmdVars, AtStage
<1>9. ProcInv'
  BY <1>1, CtlTypes DEF ProcInv, Alive, Live
<1>10. \A s \in Runs : BoxInv(s)'
  BY <1>1, <1>2, CtlTypes DEF BoxInv, Live, Blamed
<1>11. \A s \in Runs : /\ ctl'[s] \in Live => ctl[s] \in Live
                       /\ ctl'[s] = "unborn" <=> ctl[s] = "unborn"
                       /\ ctl[s] = "gone" => ctl'[s] = "gone"
  BY <1>1, CtlTypes DEF Live
<1>12. \A s \in Runs : Quiet(s) => Quiet(s)' \/ Blamed'
  BY <1>1, CtlTypes DEF Quiet, Live
<1>13. \A s \in Runs : Running(s)' => Running(s) \/ ctl[s] \in Live \/ Blamed'
  BY <1>1, <1>2, CtlTypes DEF Running, Live, BoxInv
<1>14. \A s \in Runs :
         (\E k \in Launchers : Mine(k) = s /\ job[k].pc = "signal") /\ Alive(s) =>
           Alive(s)' \/ raced'
  <2> SUFFICES ASSUME NEW s \in Runs, Alive(s), ~Alive(s)',
                      NEW k \in Launchers, Mine(k) = s, job[k].pc = "signal"
               PROVE  raced'
    OBVIOUS
  <2>1. s = r
    BY <1>1, CtlTypes DEF Alive, ProcInv
  <2> QED
    BY <1>3, <2>1, Zenon DEF AtStage
<1>15. \A s \in Runs : (\E k \in Launchers : Mine(k) = s) /\ Alive(s) => Alive(s)' \/ Blamed'
  BY <1>1, CtlTypes DEF Alive, ProcInv
<1>16. \A s \in Runs : (\E k \in Launchers : Mine(k) = s) =>
         \A m \in Nodes : box'[s][m] = "running" =>
           Stays(s)' \/ Blamed' \/ (box[s][m] = "running" /\ ~Stays(s))
  BY <1>1, <1>15, CtlTypes DEF Stays, Alive, ProcInv
<1> QED
  BY <1>2, <1>4, <1>7, <1>8, <1>9, <1>10, <1>11, <1>12, <1>13, <1>14, <1>15, <1>16, CtlFrame

(* A worker exits.                                                           *)
LEMMA WorkerExitsKeeps ==
  ASSUME LauncherInv, NEW r \in Runs, NEW n \in Nodes, WorkerExits(r, n)
  PROVE  LauncherInv'
<1>1. /\ UNCHANGED <<proc, pid, ctl, term, raced, cause>>
      /\ box[r][n] = "running"
      /\ box' = [box EXCEPT ![r][n] = "exited"]
  BY DEF WorkerExits
<1>2. UNCHANGED cmdVars /\ (Blamed => Blamed')
  BY DEF WorkerExits, Blamed, cmdVars
<1>4. raced' \in BOOLEAN /\ (raced => raced')
  BY <1>1 DEF LauncherInv, LauncherTypeOK
<1>5. ctl' \in [Runs -> Live \cup {"unborn", "gone"}] /\ proc' \in [Pids -> Runs \cup {Nobody, "foreign"}]
  BY <1>1, CtlTypes DEF Live
<1>6. box' \in [Runs -> [Nodes -> {"none", "asked"} \cup Created]]
  BY <1>1, CtlTypes DEF Created
<1>7. cause' \in Causes /\ term' \subseteq term /\ term' \subseteq Runs
  BY <1>1, CtlTypes DEF LauncherInv, LauncherTypeOK, Causes
<1>8. LauncherTypeOK'
  BY <1>1, <1>2, <1>4, <1>5, <1>6, <1>7 DEF LauncherInv, LauncherTypeOK, cmdVars, AtStage
<1>9. ProcInv'
  BY <1>1, CtlTypes DEF ProcInv, Alive, Live
<1>10. \A s \in Runs : BoxInv(s)'
  BY <1>1, <1>2, CtlTypes DEF BoxInv, Live, Blamed
<1>11. \A s \in Runs : /\ ctl'[s] \in Live => ctl[s] \in Live
                       /\ ctl'[s] = "unborn" <=> ctl[s] = "unborn"
                       /\ ctl[s] = "gone" => ctl'[s] = "gone"
  BY <1>1, CtlTypes DEF Live
<1>12. \A s \in Runs : Quiet(s) => Quiet(s)' \/ Blamed'
  BY <1>1, CtlTypes DEF Quiet, Live
<1>13. \A s \in Runs : Running(s)' => Running(s) \/ ctl[s] \in Live \/ Blamed'
  BY <1>1, <1>2, CtlTypes DEF Running, Live, BoxInv
<1>14. \A s \in Runs : Alive(s) => Alive(s)'
  BY <1>1, CtlTypes DEF Alive
<1>16. \A s \in Runs, m \in Nodes :
         box'[s][m] = "running" => Stays(s)' \/ Blamed' \/ (box[s][m] = "running" /\ ~Stays(s))
  BY <1>1, <1>2, <1>14, CtlTypes DEF Live, Stays
<1> QED
  BY <1>2, <1>4, <1>7, <1>8, <1>9, <1>10, <1>11, <1>12, <1>13, <1>14, <1>16, CtlFrame

(* Another process takes a PID, or leaves it.                                *)
LEMMA ForeignKeeps ==
  ASSUME LauncherInv, NEW p \in Pids, Foreign(p)
  PROVE  LauncherInv'
<1>1. /\ UNCHANGED <<pid, ctl, term, box, raced, cause>>
      /\ \E v \in {Nobody, "foreign"} : proc' = [proc EXCEPT ![p] = v]
      /\ proc[p] \in {Nobody, "foreign"}
  BY DEF Foreign, Set
<1>2. UNCHANGED cmdVars /\ (Blamed => Blamed')
  BY DEF Foreign, Set, Blamed, cmdVars
<1>4. raced' \in BOOLEAN /\ (raced => raced')
  BY <1>1 DEF LauncherInv, LauncherTypeOK
<1>5. ctl' \in [Runs -> Live \cup {"unborn", "gone"}] /\ proc' \in [Pids -> Runs \cup {Nobody, "foreign"}]
  BY <1>1, CtlTypes DEF Live
<1>6. box' \in [Runs -> [Nodes -> {"none", "asked"} \cup Created]]
  BY <1>1, CtlTypes DEF Created
<1>7. cause' \in Causes /\ term' \subseteq term /\ term' \subseteq Runs
  BY <1>1, CtlTypes DEF LauncherInv, LauncherTypeOK, Causes
<1>8. LauncherTypeOK'
  BY <1>1, <1>2, <1>4, <1>5, <1>6, <1>7 DEF LauncherInv, LauncherTypeOK, cmdVars, AtStage
<1>9. ProcInv'
  BY <1>1, CtlTypes DEF ProcInv, Alive, Live
<1>10. \A s \in Runs : BoxInv(s)'
  BY <1>1, <1>2, CtlTypes DEF BoxInv, Live, Blamed
<1>11. \A s \in Runs : /\ ctl'[s] \in Live => ctl[s] \in Live
                       /\ ctl'[s] = "unborn" <=> ctl[s] = "unborn"
                       /\ ctl[s] = "gone" => ctl'[s] = "gone"
  BY <1>1, CtlTypes DEF Live
<1>12. \A s \in Runs : Quiet(s) => Quiet(s)' \/ Blamed'
  BY <1>1, CtlTypes DEF Quiet, Live
<1>13. \A s \in Runs : Running(s)' => Running(s) \/ ctl[s] \in Live \/ Blamed'
  BY <1>1, <1>2, CtlTypes DEF Running, Live, BoxInv
<1>14. \A s \in Runs : Alive(s) => Alive(s)'
  BY <1>1, CtlTypes DEF Alive
<1>16. \A s \in Runs, m \in Nodes :
         box'[s][m] = "running" => Stays(s)' \/ Blamed' \/ (box[s][m] = "running" /\ ~Stays(s))
  BY <1>1, <1>2, <1>14, CtlTypes DEF Live, Stays
<1> QED
  BY <1>2, <1>4, <1>7, <1>8, <1>9, <1>10, <1>11, <1>12, <1>13, <1>14, <1>16, CtlFrame

(* One node is stopped, or passed over.                                      *)
LEMMA StopNodeKeeps ==
  ASSUME LauncherInv, NEW l \in Launchers, StopNode(l)
  PROVE  LauncherInv'
<1>1. /\ job[l].pc = "nodes" /\ job[l].at \in Nodes /\ job' = [job EXCEPT ![l].at = @ + 1]
      /\ UNCHANGED <<lock, current, stopped, hit, proc, pid, ctl, term, raced, cause>>
  BY DEF StopNode, AtStage
<1>2. box' = IF box[Mine(l)][job[l].at] = "running"
             THEN [box EXCEPT ![Mine(l)][job[l].at] = "exited"] ELSE box
  BY DEF StopNode
<1>3. StageInv(l) /\ Mine(l) \in Runs /\ Mine(l) = current
  BY <1>1 DEF LauncherInv, StageInv
<1>4. /\ box' \in [Runs -> [Nodes -> {"none", "asked"} \cup Created]]
      /\ \A s \in Runs, n \in Nodes : box'[s][n] = box[s][n] \/ (box[s][n] = "running" /\ box'[s][n] = "exited")
      /\ box'[Mine(l)][job[l].at] # "running"
  BY <1>1, <1>2, <1>3, CtlTypes DEF Created
<1>5. /\ job'[l].pc = "nodes" /\ job'[l].run = job[l].run /\ job'[l].at = job[l].at + 1
      /\ job' \in [Launchers -> Jobs] /\ \A k \in Launchers : k = l \/ job'[k] = job[k]
  BY <1>1, CmdTypes DEF Jobs, Nodes
<1>6. \A k \in Launchers : k = l \/ job[k].pc = "idle"
  BY <1>1, Alone DEF LauncherInv
<1>7. LauncherTypeOK'
  BY <1>1, <1>4, <1>5 DEF LauncherInv, LauncherTypeOK, AtStage, Jobs
<1>8. ProcInv' /\ FileInv' /\ SignalsItsOwn'
  <2>1. ProcInv' /\ SignalsItsOwn'
    BY <1>1 DEF LauncherInv, ProcInv, Alive, SignalsItsOwn
  <2>2. FileInv /\ stopped \subseteq Runs
    BY CmdTypes DEF LauncherInv
  <2>3. \A s \in Runs : Quiet(s) => Quiet(s)'
    BY <1>1, <1>4 DEF Quiet
  <2>4. FileInv'
    BY <1>1, <2>2, <2>3 DEF FileInv, Blamed
  <2> QED
    BY <2>1, <2>4
<1>9. ASSUME NEW s \in Runs
      PROVE  BoxInv(s)'
  <2>1. BoxInv(s) /\ ctl'[s] = ctl[s] /\ term' = term /\ (Blamed => Blamed')
    BY <1>1, <1>9, CtlTypes DEF Blamed
  <2>2. \A n \in Nodes : box'[s][n] = box[s][n] \/ (box[s][n] = "running" /\ box'[s][n] = "exited")
    BY <1>4, <1>9
  <2> QED
    BY <2>1, <2>2 DEF BoxInv
<1>10. OwnedUnlessCaused'
  BY <1>1, <1>4, <1>5, <1>6 DEF LauncherInv, OwnedUnlessCaused, Running, BeingRecorded, Mine
<1>11. ASSUME NEW n \in Nodes, n < job'[l].at, box'[Mine(l)][n] = "running"
       PROVE  Stays(Mine(l)) \/ Blamed
  BY <1>1, <1>3, <1>4, <1>5, <1>11 DEF StageInv, Nodes
<1>12. StageInv(l)'
  BY <1>1, <1>3, <1>5, <1>11 DEF StageInv, Mine, Stays, Alive, Blamed
<1>13. \A k \in Launchers : StageInv(k)'
  BY <1>5, <1>6, <1>12 DEF StageInv
<1> QED
  BY <1>7, <1>8, <1>9, <1>10, <1>13 DEF LauncherInv

(* The recorded PID is signalled: whoever is behind it.                      *)
LEMMA SignalKeeps ==
  ASSUME LauncherInv, NEW l \in Launchers, Signal(l)
  PROVE  LauncherInv'
<1> DEFINE target == proc[pid[Mine(l)]]
<1>1. /\ job[l].pc = "signal" /\ StageInv(l) /\ Mine(l) \in Runs /\ Mine(l) = current
      /\ ctl[Mine(l)] # "unborn" /\ pid[Mine(l)] \in Pids /\ job[l].at = 0
      /\ UNCHANGED <<current, stopped, pid, box, raced>>
  BY CtlTypes DEF Signal, AtStage, LauncherInv, StageInv, ProcInv
<1>2. /\ target \in Runs => Terminated(target)
      /\ target \notin Runs => UNCHANGED <<ctl, proc, term, cause>>
      /\ cause' \in {cause, "second signal"} /\ (Blamed => Blamed')
  BY DEF Signal, Terminated, Blame, Blamed
<1>3. \/ lock' = Nobody /\ job' = [job EXCEPT ![l] = Idle]
      \/ lock' = lock /\ job' = [job EXCEPT ![l].pc = "wait"]
  BY DEF Signal, Leave, Set, Turn
<1>4. hit' = (hit \/ target = "foreign")
  BY DEF Signal
<1>5. hit' \in BOOLEAN
  BY <1>4, Zenon
<1>6. SignalsItsOwn'
  <2>1. target = "foreign" => raced
    BY <1>1, CtlTypes DEF StageInv, Alive
  <2>2. hit => raced
    BY DEF LauncherInv, SignalsItsOwn
  <2>3. hit' => raced
    BY <1>4, <2>1, <2>2, Zenon
  <2> QED
    BY <1>1, <2>3 DEF SignalsItsOwn
<1>7. \A k \in Launchers : k = l \/ job[k].pc = "idle"
  BY <1>1, Alone DEF LauncherInv
<1>8. lock = l
  BY <1>1, Alone DEF LauncherInv
<1>9. /\ job' \in [Launchers -> Jobs] /\ \A k \in Launchers : k = l \/ job'[k] = job[k]
      /\ \/ lock' = Nobody /\ job'[l].pc = "idle"
         \/ lock' = l /\ job'[l].pc = "wait" /\ job'[l].run = job[l].run /\ job'[l].at = 0
  BY <1>1, <1>3, <1>8, CmdTypes DEF Jobs, Stages, Idle
<1>10. \/ /\ UNCHANGED <<ctl, proc>> /\ term' \subseteq Runs
          /\ \A s \in Runs : s \in term' => s \in term \/ ctl[s] \in {"armed", "late", "stopping"}
       \/ /\ target \in Runs /\ pid[target] \in Pids /\ ctl[target] = "early"
          /\ ctl' = [ctl EXCEPT ![target] = "gone"] /\ proc' = [proc EXCEPT ![pid[target]] = Nobody]
          /\ term' = term
       \/ /\ target \in Runs /\ ctl[target] = "late" /\ ctl' = [ctl EXCEPT ![target] = "stopping"]
          /\ proc' = proc /\ term' = term \ {target} /\ Blamed'
  <2>1. term \subseteq Runs
    BY DEF LauncherInv, LauncherTypeOK
  <2>2. target \in Runs => pid[target] \in Pids /\ ctl[target] \in Live
    BY <1>1, CtlTypes DEF ProcInv
  <2>3. CASE target \notin Runs
    BY <1>2, <2>1, <2>3
  <2>4. CASE target \in Runs /\ ctl[target] = "early"
    <3>1. ~Escapes(target)
      BY <2>4 DEF Escapes
    <3> QED
      BY <1>2, <2>2, <2>4, <3>1 DEF Terminated, Set
  <2>5. CASE target \in Runs /\ Escapes(target)
    <3>1. ctl[target] = "late"
      BY <2>5 DEF Escapes
    <3>2. Blamed'
      BY <1>2, <2>5, <3>1 DEF Terminated, Blame, Blamed
    <3> QED
      BY <1>2, <2>1, <2>5, <3>1, <3>2 DEF Terminated, Set
  <2>6. CASE target \in Runs /\ ctl[target] # "early" /\ ~Escapes(target)
    <3>1. UNCHANGED <<ctl, proc>> /\ term' = term \cup {target}
      BY <1>2, <2>6 DEF Terminated
    <3> QED
      BY <2>1, <2>2, <2>6, <3>1 DEF Live
  <2> QED
    BY <2>3, <2>4, <2>5, <2>6
<1>11. /\ ctl' \in [Runs -> Live \cup {"unborn", "gone"}]
       /\ proc' \in [Pids -> Runs \cup {Nobody, "foreign"}] /\ term' \subseteq Runs
  <2>1. term \subseteq Runs
    BY DEF LauncherInv, LauncherTypeOK
  <2> QED
    BY <1>10, <2>1, CtlTypes DEF Live
<1>12. LauncherTypeOK'
  <2>1. \A k \in Launchers : job'[k].pc = "idle" <=> lock' # k
    BY <1>7, <1>9, CmdTypes
  <2> QED
    BY <1>1, <1>2, <1>5, <1>9, <1>11, <2>1
    DEF LauncherInv, LauncherTypeOK, AtStage, Jobs, Causes
<1>13. \A s \in Runs : /\ \/ ctl'[s] = ctl[s]
                          \/ ctl[s] = "early" /\ ctl'[s] = "gone"
                          \/ ctl[s] = "late" /\ ctl'[s] = "stopping" /\ Blamed'
                       /\ ctl'[s] \in Live => ctl[s] \in Live
  BY <1>10, CtlTypes DEF Live
<1>14. ProcInv'
  <2>1. CASE UNCHANGED <<ctl, proc>>
    BY <1>1, <2>1, CtlTypes DEF ProcInv, Alive
  <2>2. CASE /\ target \in Runs /\ ctl[target] = "late" /\ proc' = proc
             /\ ctl' = [ctl EXCEPT ![target] = "stopping"]
    <3>1. \A s \in Runs : /\ ctl'[s] \in Live <=> ctl[s] \in Live
                          /\ ctl'[s] = "unborn" <=> ctl[s] = "unborn"
      BY <2>2, CtlTypes DEF Live
    <3> QED
      BY <1>1, <2>2, <3>1, CtlTypes DEF ProcInv, Alive
  <2>3. CASE /\ target \in Runs /\ pid[target] \in Pids /\ ctl[target] = "early"
             /\ ctl' = [ctl EXCEPT ![target] = "gone"] /\ proc' = [proc EXCEPT ![pid[target]] = Nobody]
    <3>1. /\ target \in Runs /\ pid[target] \in Pids /\ ctl[target] \in Live
          /\ ctl' = [ctl EXCEPT ![target] = "gone"] /\ proc' = [proc EXCEPT ![pid[target]] = Nobody]
      BY <2>3 DEF Live
    <3>2. proc[pid[target]] = target
      BY <3>1, CtlTypes DEF ProcInv, Alive
    <3>3. \A q \in Pids : proc'[q] \in Runs => pid[proc'[q]] = q /\ ctl'[proc'[q]] \in Live
      BY <3>1, <3>2, CtlTypes DEF ProcInv
    <3>4. \A s \in Runs : ctl'[s] \in Live => proc'[pid[s]] = s /\ pid[s] # Nobody
      BY <3>1, <3>2, CtlTypes DEF ProcInv, Alive, Live
    <3>5. \A s \in Runs : ctl'[s] # "unborn" => pid[s] \in Pids
      BY <3>1, CtlTypes DEF ProcInv, Live
    <3> QED
      BY <1>1, <3>3, <3>4, <3>5 DEF ProcInv, Alive
  <2> QED
    BY <1>10, <2>1, <2>2, <2>3
<1>15. ASSUME NEW s \in Runs
       PROVE  BoxInv(s)'
  <2>1. BoxInv(s) /\ box' = box /\ (Blamed => Blamed')
    BY <1>1, <1>2, CtlTypes
  <2>2. ctl'[s] \in {"unborn", "early", "gone"} => s \notin term'
    BY <1>10, <2>1, CtlTypes DEF BoxInv
  <2> QED
    BY <1>13, <2>1, <2>2 DEF BoxInv
<1>16. FileInv'
  <2>1. FileInv /\ stopped \subseteq Runs
    BY CmdTypes DEF LauncherInv
  <2> QED
    BY <1>1, <1>2, <1>13, <2>1 DEF FileInv, Quiet, Live
<1>17. OwnedUnlessCaused'
  <2> SUFFICES ASSUME NEW r \in Runs, ctl'[r] \in Live \/ Running(r)
               PROVE  current = r \/ Blamed'
    BY <1>1 DEF OwnedUnlessCaused, Blamed, Running
  <2>1. ~BeingRecorded(r)
    BY <1>1, <1>7 DEF BeingRecorded
  <2> QED
    BY <1>2, <1>13, <2>1 DEF LauncherInv, OwnedUnlessCaused, Blamed
<1>18. StageInv(l)'
  BY <1>1, <1>9, <1>13 DEF StageInv, Mine, Live
<1>19. \A k \in Launchers : StageInv(k)'
  BY <1>7, <1>9, <1>18 DEF StageInv
<1> QED
  BY <1>6, <1>12, <1>14, <1>15, <1>16, <1>17, <1>19 DEF LauncherInv

(* The controller is started.                                                *)
LEMMA PopenKeeps ==
  ASSUME LauncherInv, NEW l \in Launchers, Popen(l)
  PROVE  LauncherInv'
<1> DEFINE r == Mine(l)
<1>1. /\ job[l].pc = "launch" /\ StageInv(l) /\ r \in Runs /\ ctl[r] = "unborn"
      /\ UNCHANGED <<current, stopped, hit, term, box, raced, cause>>
      /\ job' = [job EXCEPT ![l].pc = "identify"] /\ lock' = lock
  BY DEF Popen, Turn, AtStage, LauncherInv, StageInv
<1>2. PICK p \in Pids : /\ proc[p] = Nobody /\ proc' = [proc EXCEPT ![p] = r]
                        /\ pid' = [pid EXCEPT ![r] = p] /\ ctl' = [ctl EXCEPT ![r] = "early"]
  BY DEF Popen, Set
<1>3. /\ job'[l].pc = "identify" /\ job'[l].run = r
      /\ job' \in [Launchers -> Jobs] /\ \A k \in Launchers : k = l \/ job'[k] = job[k]
  BY <1>1, CmdTypes DEF Jobs, Stages, Mine
<1>4. \A k \in Launchers : k = l \/ job[k].pc = "idle"
  BY <1>1, Alone DEF LauncherInv
<1>5. /\ ctl' \in [Runs -> Live \cup {"unborn", "gone"}] /\ pid' \in [Runs -> Pids \cup {Nobody}]
      /\ proc' \in [Pids -> Runs \cup {Nobody, "foreign"}]
  BY <1>1, <1>2, CtlTypes DEF Live
<1>6. LauncherTypeOK'
  BY <1>1, <1>3, <1>5 DEF LauncherInv, LauncherTypeOK, AtStage, Jobs
<1>7. \A s \in Runs \ {r} : ctl'[s] = ctl[s] /\ pid'[s] = pid[s] /\ (Alive(s) => Alive(s)')
  BY <1>1, <1>2, CtlTypes DEF Alive
<1>8. Alive(r)' /\ ctl'[r] = "early" /\ pid'[r] = p
  <2>1. r' = r
    BY <1>3 DEF Mine
  <2>2. pid'[r] = p /\ proc'[p] = r /\ ctl'[r] = "early" /\ p # Nobody
    BY <1>1, <1>2, CtlTypes
  <2> QED
    BY <2>1, <2>2 DEF Alive
<1>9. ProcInv'
  <2>1. \A q \in Pids : proc'[q] \in Runs => pid'[proc'[q]] = q /\ ctl'[proc'[q]] \in Live
    <3> SUFFICES ASSUME NEW q \in Pids, proc'[q] \in Runs
                 PROVE  pid'[proc'[q]] = q /\ ctl'[proc'[q]] \in Live
      OBVIOUS
    <3>1. CASE q = p
      BY <1>1, <1>2, <1>8, <3>1, CtlTypes DEF Live
    <3>2. CASE q # p
      BY <1>1, <1>2, <3>2, CtlTypes DEF ProcInv, Live
    <3> QED
      BY <3>1, <3>2
  <2>2. \A s \in Runs : ctl'[s] \in Live => pid'[s] # Nobody /\ proc'[pid'[s]] = s
    BY <1>1, <1>2, CtlTypes DEF ProcInv, Alive
  <2>3. \A s \in Runs : ctl'[s] # "unborn" => pid'[s] \in Pids
    BY <1>1, <1>2, CtlTypes DEF ProcInv
  <2> QED
    BY <2>1, <2>2, <2>3 DEF ProcInv, Alive
<1>10. \A s \in Runs : BoxInv(s)'
  BY <1>1, <1>2, CtlTypes DEF BoxInv, Blamed
<1>11. FileInv'
  <2>1. FileInv /\ stopped \subseteq Runs
    BY CmdTypes DEF LauncherInv
  <2> QED
    BY <1>1, <1>2, <2>1, CtlTypes DEF FileInv, Quiet, Blamed
<1>12. SignalsItsOwn'
  BY <1>1 DEF LauncherInv, SignalsItsOwn
<1>13. OwnedUnlessCaused'
  <2>1. \A s \in Runs : BeingRecorded(s) => BeingRecorded(s)'
    BY <1>1, <1>4 DEF BeingRecorded
  <2>2. BeingRecorded(r)'
    BY <1>3 DEF BeingRecorded, Mine
  <2>3. \A s \in Runs \ {r} : ctl'[s] \in Live \/ Running(s)' => ctl[s] \in Live \/ Running(s)
    BY <1>1, <1>7 DEF Running
  <2>4. ASSUME NEW s \in Runs, ctl'[s] \in Live \/ Running(s)'
        PROVE  (current = s \/ BeingRecorded(s) \/ cause # "none")'
    <3>1. CASE s = r
      BY <1>3, <3>1 DEF BeingRecorded, Mine
    <3>2. CASE s # r
      BY <1>1, <2>1, <2>3, <2>4, <3>2 DEF LauncherInv, OwnedUnlessCaused
    <3> QED
      BY <3>1, <3>2
  <2> QED
    BY <2>4 DEF OwnedUnlessCaused
<1>14. StageInv(l)'
  <2>1. \A s \in Runs : s = r \/ Quiet(s)' \/ Blamed'
    BY <1>1, <1>7 DEF StageInv, Quiet, Blamed
  <2>2. r \notin term'
    BY <1>1, CtlTypes DEF BoxInv
  <2> QED
    BY <1>1, <1>3, <1>8, <2>1, <2>2 DEF StageInv, Mine
<1>15. \A k \in Launchers : StageInv(k)'
  BY <1>3, <1>4, <1>14 DEF StageInv
<1> QED
  BY <1>6, <1>9, <1>10, <1>11, <1>12, <1>13, <1>15 DEF LauncherInv

-----------------------------------------------------------------------------
(* LauncherInv holds at the beginning.                                       *)
LEMMA LauncherStart == Init => LauncherInv
<1> SUFFICES ASSUME Init
             PROVE  LauncherInv
  OBVIOUS
<1>1. LauncherTypeOK
  <2>1. job \in [Launchers -> Jobs] /\ \A l \in Launchers : job[l].pc = "idle"
    BY DEF Init, Idle, Jobs, Stages
  <2>2. box \in [Runs -> [Nodes -> {"none", "asked"} \cup Created]]
    BY DEF Init
  <2> QED
    BY <2>1, <2>2, LauncherAssumption DEF Init, LauncherTypeOK, AtStage, Jobs, Causes
<1>2. OwnedUnlessCaused /\ SignalsItsOwn
  BY DEF Init, OwnedUnlessCaused, SignalsItsOwn, Live, Running
<1>3. ProcInv /\ FileInv
  BY LauncherAssumption DEF Init, ProcInv, FileInv, Live, Alive
<1>4. \A r \in Runs : BoxInv(r)
  BY DEF Init, BoxInv
<1>5. \A l \in Launchers : StageInv(l)
  BY DEF Init, StageInv, Idle
<1> QED
  BY <1>1, <1>2, <1>3, <1>4, <1>5 DEF LauncherInv

(* Every step keeps it.                                                      *)
LEMMA LauncherStep == LauncherInv /\ [Next]_vars => LauncherInv'
<1> SUFFICES ASSUME LauncherInv, [Next]_vars
             PROVE  LauncherInv'
  OBVIOUS
<1>1. ASSUME NEW l \in Launchers, NEW c \in {"start", "restart", "stop"}, Begin(l, c)
      PROVE  LauncherInv'
  BY <1>1, BeginKeeps
<1>2. ASSUME NEW l \in Launchers, Command(l)
      PROVE  LauncherInv'
  BY <1>2, CheckAliveKeeps, SignalKeeps, WaitedKeeps, StopNodeKeeps, StopFailsKeeps,
     StopEndsKeeps, PrepareKeeps, PopenKeeps, IdentifyKeeps, RecordKeeps, ObservedKeeps
  DEF Command
<1>3. ASSUME NEW l \in Launchers, KillLauncher(l)
      PROVE  LauncherInv'
  BY <1>3, KillLauncherKeeps
<1>4. ASSUME NEW r \in Runs,
             \/ CtlAsks(r) \/ CtlArms(r) \/ CtlStarts(r) \/ CtlTurns(r) \/ CtlGivesUp(r)
             \/ CtlEnds(r) \/ KillController(r)
      PROVE  LauncherInv'
  BY <1>4, CtlAsksKeeps, CtlArmsKeeps, CtlStartsKeeps, CtlTurnsKeeps, CtlGivesUpKeeps,
     CtlEndsKeeps, KillControllerKeeps
<1>5. ASSUME NEW r \in Runs, NEW n \in Nodes,
             AgentCreates(r, n) \/ DockerStarts(r, n) \/ WorkerExits(r, n)
      PROVE  LauncherInv'
  BY <1>5, AgentCreatesKeeps, DockerStartsKeeps, WorkerExitsKeeps
<1>6. ASSUME NEW p \in Pids, Foreign(p)
      PROVE  LauncherInv'
  BY <1>6, ForeignKeeps
<1>7. ASSUME UNCHANGED vars
      PROVE  LauncherInv'
  <2>1. UNCHANGED <<lock, current, job, stopped, hit, proc, pid, ctl, term, box, raced, cause>>
    BY <1>7 DEF vars, cmdVars, ctlVars
  <2>2. LauncherTypeOK' /\ OwnedUnlessCaused' /\ SignalsItsOwn'
    BY <2>1
    DEF LauncherInv, LauncherTypeOK, AtStage, OwnedUnlessCaused, BeingRecorded, Mine,
                Running, SignalsItsOwn
  <2>3. ProcInv' /\ FileInv' /\ \A r \in Runs : BoxInv(r)'
    BY <2>1 DEF LauncherInv, ProcInv, FileInv, BoxInv, Alive, Quiet, Blamed
  <2>4. \A l \in Launchers : StageInv(l)'
    BY <2>1 DEF LauncherInv, StageInv, Mine, Stays, Alive, Quiet, Blamed
  <2> QED
    BY <2>2, <2>3, <2>4 DEF LauncherInv
<1> QED
  BY <1>1, <1>2, <1>3, <1>4, <1>5, <1>6, <1>7 DEF Next

(* LauncherInv is an invariant of the launcher.                              *)
THEOREM LauncherInvariant == Spec => []LauncherInv
<1> QED
  BY LauncherStart, LauncherStep, PTL DEF Spec

(* The state is well typed, and one command at a time is under way.          *)
THEOREM LauncherTypes == Spec => []LauncherTypeOK
<1>1. LauncherInv => LauncherTypeOK
  BY DEF LauncherInv
<1> QED
  BY <1>1, LauncherInvariant, PTL

(* Whatever lives or runs is named by current.json, or about to be, unless   *)
(* one of the accidents in Causes came before: a launcher or controller      *)
(* killed at the wrong moment, an identity not read in time, a controller    *)
(* that gives up its start calls (by itself or on a second SIGTERM), or a    *)
(* new start past a worker that nvidia-smi did not name.                     *)
THEOREM EveryPairIsOwned == Spec => []OwnedUnlessCaused
<1>1. LauncherInv => OwnedUnlessCaused
  BY DEF LauncherInv
<1> QED
  BY <1>1, LauncherInvariant, PTL

(* A run declared stopped stays stopped.                                     *)
THEOREM StoppedStays == Spec => []StopMeansStopped
<1>1. LauncherInv => StopMeansStopped
  <2> SUFFICES ASSUME LauncherInv, NEW r \in stopped
               PROVE  ctl[r] = "gone" /\ (Running(r) => cause # "none")
    BY DEF StopMeansStopped
  <2>1. ctl[r] = "gone" /\ (Quiet(r) \/ Blamed)
    BY DEF LauncherInv, FileInv
  <2> QED
    BY <2>1 DEF Quiet, Running, Blamed
<1> QED
  BY <1>1, LauncherInvariant, PTL

(* No foreign process is signalled unless its PID was passed on in the gap   *)
(* between the check and the signal.                                         *)
THEOREM OnlyRacedSignals == Spec => []SignalsItsOwn
<1>1. LauncherInv => SignalsItsOwn
  BY DEF LauncherInv
<1> QED
  BY <1>1, LauncherInvariant, PTL

\* Two pairs are never up at once, but after a cause: whoever starts one has
\* seen the end of the controller of any other, and of the workers that
\* nvidia-smi names; a worker it does not name yet is a cause.
Lives(r) == ctl[r] \in Live \/ Running(r)
OnePairAtATime == \A r, s \in Runs : Lives(r) /\ Lives(s) => r = s \/ cause # "none"

\* Whatever commands race for operation.lock, whatever is killed between the
\* launch of a controller and its record, and whichever PIDs are used again: two
\* pairs on the same GPUs need one of Causes, the start past a worker that
\* nvidia-smi does not name among them.
THEOREM OnePairOnly == Spec => []OnePairAtATime
<1>1. LauncherInv => OnePairAtATime
  <2> SUFFICES ASSUME LauncherInv, NEW r \in Runs, NEW s \in Runs, Lives(r), Lives(s),
                      r # s, cause = "none"
               PROVE  FALSE
    BY DEF OnePairAtATime
  <2>1. ASSUME NEW x \in Runs, NEW y \in Runs, Lives(x), Lives(y), x # y
        PROVE  ~BeingRecorded(x)
    <3> SUFFICES ASSUME NEW l \in Launchers, Mine(l) = x,
                        job[l].pc \in {"identify", "write", "written"}
                 PROVE  FALSE
      BY DEF BeingRecorded
    <3>1. Quiet(y)
      BY <2>1 DEF LauncherInv, StageInv, Blamed
    <3> QED
      BY <2>1, <3>1 DEF Quiet, Lives, Running
  <2>2. ~BeingRecorded(r) /\ ~BeingRecorded(s)
    BY <2>1
  <2>3. current = r /\ current = s
    BY <2>2 DEF LauncherInv, OwnedUnlessCaused, Lives
  <2> QED
    BY <2>3
<1> QED
  BY <1>1, LauncherInvariant, PTL

-----------------------------------------------------------------------------
(* The runs of the launcher and the lives of launched pairs.                 *)

Life(r) == INSTANCE PairLife WITH ctl <- ctl[r], term <- (r \in term), box <- box[r]

\* What a pair does without the launcher: all but Born and Signalled.
OwnStep(r) ==
  \/ Life(r)!Asks \/ Life(r)!Arms \/ Life(r)!Starts \/ Life(r)!Turned \/ Life(r)!Leaves
  \/ \E n \in Nodes : Life(r)!Creates(n) \/ Life(r)!Comes(n) \/ Life(r)!Ends(n)

\* Nothing else changes, but that the process of a controller that ends is gone.
Elsewhere(r) ==
  /\ UNCHANGED <<cmdVars, pid, cause>>
  /\ ctl' = [ctl EXCEPT ![r] = ctl'[r]] /\ box' = [box EXCEPT ![r] = box'[r]]
  /\ term' \in {term, term \ {r}}
  /\ IF ctl[r] # "gone" /\ ctl'[r] = "gone"
     THEN /\ Set(proc, pid[r], Nobody)
          /\ raced' = (raced \/ \E l \in Launchers : AtStage(l, "signal") /\ Mine(l) = r)
     ELSE UNCHANGED <<proc, raced>>

\* Each run lives a PairLife until a cause is noted.
RunsLive == [][\A r \in Runs : [Life(r)!LifeNext]_(Life(r)!lifeVars) \/ Blamed']_vars

(* The launcher meets every step a launched pair may take by itself: what is *)
(* proved of Launcher holds with PairController in the place of its runs, as *)
(* far as LaunchedPairsLive says those live a PairLife.                      *)
THEOREM EveryLifeIsMet ==
  ASSUME LauncherInv, NEW r \in Runs, OwnStep(r), Elsewhere(r)
  PROVE  Next
<1>1. /\ ctl \in [Runs -> Live \cup {"unborn", "gone"}]
      /\ box \in [Runs -> [Nodes -> {"none", "asked"} \cup Created]]
  BY CtlTypes
<1>2. /\ UNCHANGED <<cmdVars, pid, cause>>
      /\ ctl' = [ctl EXCEPT ![r] = ctl'[r]] /\ box' = [box EXCEPT ![r] = box'[r]]
      /\ term' \in {term, term \ {r}}
      /\ ~(ctl[r] # "gone" /\ ctl'[r] = "gone") => UNCHANGED <<proc, raced>>
  BY DEF Elsewhere
<1>3. /\ ctl'[r] = ctl[r] => ctl' = ctl /\ UNCHANGED <<proc, raced>>
      /\ box'[r] = box[r] => box' = box
      /\ (r \in term') = (r \in term) => term' = term
      /\ (r \in term') = FALSE => term' = term \ {r}
  BY <1>1, <1>2
<1>4. CASE Life(r)!Asks
  <2>1. /\ ctl[r] = "early" /\ \A n \in Nodes : box[r][n] = "none"
        /\ box'[r] = [n \in Nodes |-> "asked"] /\ ctl'[r] = ctl[r] /\ (r \in term') = (r \in term)
    BY <1>4 DEF Life!Asks
  <2>2. CtlAsks(r)
    BY <1>2, <1>3, <2>1 DEF CtlAsks, Set
  <2> QED
    BY <2>2 DEF Next
<1>5. CASE Life(r)!Arms
  <2>1. /\ ctl[r] = "early" /\ \A n \in Nodes : box[r][n] = "created"
        /\ ctl'[r] = "armed" /\ (r \in term') = (r \in term) /\ box'[r] = box[r]
    BY <1>5 DEF Life!Arms
  <2>2. CtlArms(r)
    BY <1>2, <1>3, <2>1 DEF CtlArms, Set
  <2> QED
    BY <2>2 DEF Next
<1>6. CASE Life(r)!Starts
  <2>1. /\ ctl[r] = "armed" /\ r \notin term /\ ctl'[r] = "late"
        /\ box'[r] = [n \in Nodes |-> "starting"] /\ (r \in term') = (r \in term)
    BY <1>6 DEF Life!Starts
  <2>2. CtlStarts(r)
    BY <1>2, <1>3, <2>1 DEF CtlStarts, Set
  <2> QED
    BY <2>2 DEF Next
<1>7. CASE Life(r)!Turned
  <2>1. /\ ctl[r] \in {"armed", "late"} /\ ~Starting(r) /\ ctl'[r] = "stopping"
        /\ (r \in term') = FALSE /\ box'[r] = box[r]
    BY <1>7 DEF Life!Turned, Life!Starting, Starting
  <2>2. CtlTurns(r)
    BY <1>2, <1>3, <2>1 DEF CtlTurns, Set
  <2> QED
    BY <2>2 DEF Next
<1>8. CASE Life(r)!Leaves
  <2>1. /\ \/ ctl[r] = "early"
           \/ ctl[r] = "late" /\ r \notin term /\ ~Starting(r) /\ ~Running(r)
           \/ ctl[r] = "stopping" /\ (r \in term \/ ~Running(r))
        /\ ctl'[r] = "gone" /\ (r \in term') = FALSE /\ box'[r] = box[r]
    BY <1>8 DEF Life!Leaves, Life!Starting, Starting, Life!Running, Running
  <2>2. /\ Set(proc, pid[r], Nobody)
        /\ raced' = (raced \/ \E l \in Launchers : AtStage(l, "signal") /\ Mine(l) = r)
    BY <2>1 DEF Elsewhere
  <2>3. Ends(r)
    BY <1>2, <1>3, <2>1, <2>2 DEF Ends, Set
  <2>4. CtlEnds(r)
    BY <1>2, <1>3, <2>1, <2>3 DEF CtlEnds
  <2> QED
    BY <2>4 DEF Next
<1>9. ASSUME NEW n \in Nodes, Life(r)!Creates(n) \/ Life(r)!Comes(n) \/ Life(r)!Ends(n)
      PROVE  Next
  <2>1. /\ ctl'[r] = ctl[r] /\ (r \in term') = (r \in term)
        /\ \/ box[r][n] = "asked" /\ \E b \in {"created", "none"} : box'[r] = [box[r] EXCEPT ![n] = b]
           \/ box[r][n] = "starting" /\ \E b \in {"running", "created"} : box'[r] = [box[r] EXCEPT ![n] = b]
           \/ box[r][n] = "running" /\ box'[r] = [box[r] EXCEPT ![n] = "exited"]
    BY <1>9 DEF Life!Creates, Life!Comes, Life!Ends, Life!Turns
  <2>2. ASSUME NEW b, box'[r] = [box[r] EXCEPT ![n] = b]
        PROVE  box' = [box EXCEPT ![r][n] = b]
    BY <1>1, <1>2, <2>2
  <2>3. /\ UNCHANGED <<cmdVars, proc, pid, ctl, term, raced, cause>>
    BY <1>2, <1>3, <2>1
  <2>4. AgentCreates(r, n) \/ DockerStarts(r, n) \/ WorkerExits(r, n)
    BY <2>1, <2>2, <2>3 DEF AgentCreates, DockerStarts, WorkerExits
  <2> QED
    BY <2>4 DEF Next
<1> QED
  BY <1>4, <1>5, <1>6, <1>7, <1>8, <1>9 DEF OwnStep

(* A step that leaves the controllers and the containers alone.              *)
LEMMA Untouched ==
  ASSUME UNCHANGED <<ctl, term, box>>, NEW r \in Runs
  PROVE  [Life(r)!LifeNext]_(Life(r)!lifeVars)
BY DEF Life!lifeVars

(* A step of one run is no step of another.                                  *)
LEMMA OtherRuns ==
  ASSUME LauncherInv, NEW s \in Runs, NEW r \in Runs, r # s,
         \E c : ctl' = [ctl EXCEPT ![s] = c], \E b : box' = [box EXCEPT ![s] = b],
         term' \in {term, term \ {s}, term \cup {s}}
  PROVE  [Life(r)!LifeNext]_(Life(r)!lifeVars)
<1>1. ctl'[r] = ctl[r] /\ box'[r] = box[r] /\ (r \in term') = (r \in term)
  BY CtlTypes
<1> QED
  BY <1>1 DEF Life!lifeVars

(* The steps of a controller and its nodes are steps of the life of its run. *)
LEMMA CtlLives ==
  ASSUME LauncherInv, NEW s \in Runs, NEW r \in Runs,
         \/ CtlAsks(s) \/ CtlArms(s) \/ CtlStarts(s) \/ CtlTurns(s) \/ CtlEnds(s)
         \/ \E n \in Nodes : AgentCreates(s, n) \/ DockerStarts(s, n) \/ WorkerExits(s, n)
  PROVE  [Life(r)!LifeNext]_(Life(r)!lifeVars)
<1>1. /\ ctl \in [Runs -> Live \cup {"unborn", "gone"}]
      /\ box \in [Runs -> [Nodes -> {"none", "asked"} \cup Created]]
      /\ BoxInv(s)
  BY CtlTypes
<1>2. CASE CtlAsks(s)
  <2>1. Life(s)!Asks
    BY <1>1, <1>2 DEF CtlAsks, Set, Life!Asks
  <2>2. r = s \/ [Life(r)!LifeNext]_(Life(r)!lifeVars)
    <3>1. /\ \E c : ctl' = [ctl EXCEPT ![s] = c] /\ \E b : box' = [box EXCEPT ![s] = b]
          /\ term' = term
      BY <1>1, <1>2 DEF CtlAsks, Set
    <3> QED
      BY <3>1, OtherRuns
  <2> QED
    BY <2>1, <2>2 DEF Life!LifeNext
<1>3. CASE CtlArms(s)
  <2>1. Life(s)!Arms
    BY <1>1, <1>3 DEF CtlArms, Set, Life!Arms
  <2>2. r = s \/ [Life(r)!LifeNext]_(Life(r)!lifeVars)
    <3>1. /\ \E c : ctl' = [ctl EXCEPT ![s] = c] /\ \E b : box' = [box EXCEPT ![s] = b]
          /\ term' = term
      BY <1>1, <1>3 DEF CtlArms, Set
    <3> QED
      BY <3>1, OtherRuns
  <2> QED
    BY <2>1, <2>2 DEF Life!LifeNext
<1>4. CASE CtlStarts(s)
  <2>1. Life(s)!Starts
    BY <1>1, <1>4 DEF CtlStarts, Set, Life!Starts
  <2>2. r = s \/ [Life(r)!LifeNext]_(Life(r)!lifeVars)
    <3>1. /\ \E c : ctl' = [ctl EXCEPT ![s] = c] /\ \E b : box' = [box EXCEPT ![s] = b]
          /\ term' = term
      BY <1>1, <1>4 DEF CtlStarts, Set
    <3> QED
      BY <3>1, OtherRuns
  <2> QED
    BY <2>1, <2>2 DEF Life!LifeNext
<1>5. CASE CtlTurns(s)
  <2>1. Life(s)!Turned
    <3>1. ctl'[s] = "stopping" /\ s \notin term' /\ box' = box
      BY <1>1, <1>5 DEF CtlTurns, Set
    <3> QED
      BY <1>5, <3>1 DEF CtlTurns, Starting, Life!Turned, Life!Starting
  <2>2. r = s \/ [Life(r)!LifeNext]_(Life(r)!lifeVars)
    <3>1. /\ \E c : ctl' = [ctl EXCEPT ![s] = c] /\ \E b : box' = [box EXCEPT ![s] = b]
          /\ term' = term \ {s}
      BY <1>1, <1>5 DEF CtlTurns, Set
    <3> QED
      BY <3>1, OtherRuns
  <2> QED
    BY <2>1, <2>2 DEF Life!LifeNext
<1>6. CASE CtlEnds(s)
  <2>1. Life(s)!Leaves
    <3>1. ctl'[s] = "gone" /\ s \notin term' /\ box' = box
      BY <1>1, <1>6 DEF CtlEnds, Ends, Set
    <3> QED
      BY <1>6, <3>1 DEF CtlEnds, Starting, Running, Life!Leaves, Life!Starting, Life!Running
  <2>2. r = s \/ [Life(r)!LifeNext]_(Life(r)!lifeVars)
    <3>1. /\ \E c : ctl' = [ctl EXCEPT ![s] = c] /\ \E b : box' = [box EXCEPT ![s] = b]
          /\ term' = term \ {s}
      BY <1>1, <1>6 DEF CtlEnds, Ends, Set
    <3> QED
      BY <3>1, OtherRuns
  <2> QED
    BY <2>1, <2>2 DEF Life!LifeNext
<1>7. ASSUME NEW n \in Nodes, AgentCreates(s, n) \/ DockerStarts(s, n) \/ WorkerExits(s, n)
      PROVE  [Life(r)!LifeNext]_(Life(r)!lifeVars)
  <2>1. /\ UNCHANGED <<ctl, term>>
        /\ \/ box[s][n] = "asked" /\ \E b \in {"created", "none"} : box' = [box EXCEPT ![s][n] = b]
           \/ box[s][n] = "starting" /\ \E b \in {"running", "created"} : box' = [box EXCEPT ![s][n] = b]
           \/ box[s][n] = "running" /\ box' = [box EXCEPT ![s][n] = "exited"]
    BY <1>7 DEF AgentCreates, DockerStarts, WorkerExits
  <2>2. ASSUME NEW b, box' = [box EXCEPT ![s][n] = b]
        PROVE  box'[s] = [box[s] EXCEPT ![n] = b] /\ \A t \in Runs \ {s} : box'[t] = box[t]
    BY <1>1, <2>2
  <2>3. Life(s)!Creates(n) \/ Life(s)!Comes(n) \/ Life(s)!Ends(n)
    BY <2>1, <2>2 DEF Life!Creates, Life!Comes, Life!Ends, Life!Turns
  <2>4. r # s => ctl' = ctl /\ term' = term /\ box'[r] = box[r]
    BY <2>1, <2>2
  <2>5. r # s => UNCHANGED Life(r)!lifeVars
    BY <2>4 DEF Life!lifeVars
  <2> QED
    BY <2>3, <2>5 DEF Life!LifeNext
<1> QED
  BY <1>2, <1>3, <1>4, <1>5, <1>6, <1>7

(* Of the commands, Popen begins a life, Signal signals it, StopNode ends a  *)
(* worker.                                                                   *)
LEMMA CommandLives ==
  ASSUME LauncherInv, NEW l \in Launchers, Command(l), NEW r \in Runs
  PROVE  [Life(r)!LifeNext]_(Life(r)!lifeVars) \/ Blamed'
<1>1. /\ ctl \in [Runs -> Live \cup {"unborn", "gone"}]
      /\ box \in [Runs -> [Nodes -> {"none", "asked"} \cup Created]]
      /\ term \subseteq Runs /\ StageInv(l)
  BY CtlTypes DEF LauncherInv
<1>2. CASE CheckAlive(l) \/ Waited(l) \/ StopFails(l) \/ StopEnds(l)
           \/ Prepare(l) \/ Identify(l) \/ Record(l) \/ Observed(l)
  <2>1. UNCHANGED ctlVars
    BY <1>2 DEF CheckAlive, Waited, StopFails, StopEnds, Prepare, Identify, Record, Observed
  <2> QED
    BY <2>1, Untouched DEF ctlVars
<1>3. CASE Popen(l)
  <2>1. /\ Mine(l) \in Runs /\ ctl[Mine(l)] = "unborn"
        /\ ctl' = [ctl EXCEPT ![Mine(l)] = "early"] /\ UNCHANGED <<term, box>>
    BY <1>1, <1>3 DEF Popen, Set, AtStage, StageInv
  <2>2. CASE r = Mine(l)
    <3>1. Life(r)!Born
      BY <1>1, <2>1, <2>2 DEF Life!Born
    <3> QED
      BY <3>1 DEF Life!LifeNext
  <2>3. CASE r # Mine(l)
    <3>1. ctl'[r] = ctl[r]
      BY <1>1, <2>1, <2>3
    <3> QED
      BY <2>1, <3>1 DEF Life!lifeVars
  <2> QED
    BY <2>2, <2>3
<1>4. CASE Signal(l)
  <2> DEFINE s == proc[pid[Mine(l)]]
  <2>1. /\ box' = box
        /\ s \in Runs => Terminated(s)
        /\ s \notin Runs => UNCHANGED <<ctl, term>>
    BY <1>4 DEF Signal
  <2>2. s \in Runs => ctl[s] \in Live
    <3>1. pid[Mine(l)] \in Pids
      BY <1>1, <1>4, CtlTypes DEF Signal, AtStage, StageInv, ProcInv
    <3> QED
      BY <3>1, CtlTypes DEF ProcInv
  <2>3. CASE s \notin Runs
    BY <2>1, <2>3, Untouched
  <2>4. CASE s \in Runs
    <3>1. \/ ctl[s] = "early" /\ ctl' = [ctl EXCEPT ![s] = "gone"] /\ term' = term
          \/ ctl[s] \in {"armed", "late", "stopping"} /\ term' = term \cup {s} /\ ctl' = ctl
          \/ Blamed'
      BY <2>1, <2>2, <2>4 DEF Terminated, Set, Live, Blame, Blamed
    <3>2. CASE r = s
      <4>1. \/ ctl[r] = "early" /\ ctl'[r] = "gone" /\ term' = term
            \/ ctl[r] \in {"armed", "late", "stopping"} /\ (r \in term') = TRUE /\ ctl' = ctl
            \/ Blamed'
        BY <1>1, <2>4, <3>1, <3>2
      <4>2. Life(r)!Signalled \/ Blamed'
        BY <2>1, <4>1 DEF Life!Signalled
      <4> QED
        BY <4>2 DEF Life!LifeNext
    <3>3. CASE r # s
      <4>1. (ctl'[r] = ctl[r] /\ (r \in term') = (r \in term) /\ box'[r] = box[r]) \/ Blamed'
        BY <1>1, <2>1, <2>4, <3>1, <3>3
      <4> QED
        BY <4>1 DEF Life!lifeVars
    <3> QED
      BY <3>2, <3>3
  <2> QED
    BY <2>3, <2>4
<1>5. CASE StopNode(l)
  <2> DEFINE n == job[l].at
  <2>1. Mine(l) \in Runs /\ n \in Nodes /\ UNCHANGED <<ctl, term>>
    BY <1>1, <1>5 DEF StopNode, AtStage, StageInv
  <2>2. \/ box' = box
        \/ box[Mine(l)][n] = "running" /\ box' = [box EXCEPT ![Mine(l)][n] = "exited"]
    BY <1>5 DEF StopNode
  <2>3. box'[r] = box[r] \/ (box[r][n] = "running" /\ box'[r] = [box[r] EXCEPT ![n] = "exited"])
    BY <1>1, <2>1, <2>2
  <2>4. box'[r] = box[r] \/ Life(r)!Ends(n)
    BY <2>1, <2>3 DEF Life!Ends, Life!Turns
  <2> QED
    BY <2>1, <2>4 DEF Life!LifeNext, Life!lifeVars
<1> QED
  BY <1>2, <1>3, <1>4, <1>5 DEF Command

(* Where no controller is killed, the runs live what launched pairs live,    *)
(* and no more: up to the first cause, each step of the launcher is, for     *)
(* every run, a step of PairLife or changes nothing of it.                   *)
THEOREM EveryRunLives == "kill controller" \notin Faults => (Spec => RunsLive)
<1> SUFFICES ASSUME "kill controller" \notin Faults
             PROVE  Spec => RunsLive
  OBVIOUS
<1>1. LauncherInv /\ [Next]_vars =>
        [\A r \in Runs : [Life(r)!LifeNext]_(Life(r)!lifeVars) \/ Blamed']_vars
  <2> SUFFICES ASSUME LauncherInv, Next, NEW r \in Runs
               PROVE  [Life(r)!LifeNext]_(Life(r)!lifeVars) \/ Blamed'
    OBVIOUS
  <2>1. ASSUME NEW l \in Launchers, NEW c \in {"start", "restart", "stop"}, Begin(l, c)
        PROVE  [Life(r)!LifeNext]_(Life(r)!lifeVars)
    BY <2>1, Untouched DEF Begin, ctlVars
  <2>2. ASSUME NEW l \in Launchers, Command(l)
        PROVE  [Life(r)!LifeNext]_(Life(r)!lifeVars) \/ Blamed'
    BY <2>2, CommandLives
  <2>3. ASSUME NEW l \in Launchers, KillLauncher(l)
        PROVE  [Life(r)!LifeNext]_(Life(r)!lifeVars)
    BY <2>3, Untouched DEF KillLauncher, ctlVars
  <2>4. ASSUME NEW s \in Runs, CtlAsks(s) \/ CtlArms(s) \/ CtlStarts(s) \/ CtlTurns(s) \/ CtlEnds(s)
        PROVE  [Life(r)!LifeNext]_(Life(r)!lifeVars)
    BY <2>4, CtlLives
  <2>5. ASSUME NEW s \in Runs, NEW n \in Nodes,
               AgentCreates(s, n) \/ DockerStarts(s, n) \/ WorkerExits(s, n)
        PROVE  [Life(r)!LifeNext]_(Life(r)!lifeVars)
    BY <2>5, CtlLives
  <2>6. ASSUME NEW s \in Runs, CtlGivesUp(s)
        PROVE  Blamed'
    BY <2>6 DEF CtlGivesUp, Blame, Blamed
  <2>7. ASSUME NEW s \in Runs
        PROVE  ~KillController(s)
    BY DEF KillController
  <2>8. ASSUME NEW p \in Pids, Foreign(p)
        PROVE  [Life(r)!LifeNext]_(Life(r)!lifeVars)
    BY <2>8, Untouched DEF Foreign
  <2> QED
    BY <2>1, <2>2, <2>3, <2>4, <2>5, <2>6, <2>7, <2>8 DEF Next
<1> QED
  BY <1>1, LauncherInvariant, PTL DEF Spec, RunsLive
=============================================================================
