------------------------------- MODULE PairLife -------------------------------
(***************************************************************************)
(* The life of one launched pair as anybody outside its controller meets   *)
(* it: the controller process, the SIGTERM it may owe an answer, and on    *)
(* each node the container of the run.  PairController implements it, with *)
(* its agents and calls; Launcher lets each of its runs live it.           *)
(***************************************************************************)
CONSTANT Nodes

VARIABLES
  ctl,   \* the controller: unborn, before its SIGTERM handler (early), behind it
         \* with nothing started (armed), with the start out (late), after an
         \* interrupt or exception (stopping), gone
  term,  \* a KeyboardInterrupt is due
  box    \* [Nodes -> ...]: created.json of each node and what its container does

lifeVars == <<ctl, term, box>>

LifeStages == {"unborn", "early", "armed", "late", "stopping", "gone"}
BoxStages == {"none", "asked", "created", "starting", "running", "exited"}

LifeInit ==
  /\ ctl = "unborn" /\ term = FALSE
  /\ box = [n \in Nodes |-> "none"]

Turns(n, from, to) == box[n] = from /\ box' = [box EXCEPT ![n] = to] /\ UNCHANGED <<ctl, term>>

Born ==
  /\ ctl = "unborn"
  /\ ctl' = "early" /\ UNCHANGED <<term, box>>

\* The create actions are called on both nodes at once, and only once.
Asks ==
  /\ ctl = "early" /\ \A n \in Nodes : box[n] = "none"
  /\ box' = [n \in Nodes |-> "asked"] /\ UNCHANGED <<ctl, term>>

\* created.json appears, also when the controller does not wait for it, or is
\* given up.
Creates(n) == \E b \in {"created", "none"} : Turns(n, "asked", b)

\* The watch lock is taken and the handler installed, with both created.
Arms ==
  /\ ctl = "early" /\ \A n \in Nodes : box[n] = "created"
  /\ ctl' = "armed" /\ UNCHANGED <<term, box>>

Starts ==
  /\ ctl = "armed" /\ ~term
  /\ ctl' = "late" /\ box' = [n \in Nodes |-> "starting"] /\ UNCHANGED term

\* The one start of a node: the worker comes up, or never will.
Comes(n) == \E b \in {"running", "created"} : Turns(n, "starting", b)

Ends(n) == Turns(n, "running", "exited")

Starting == \E n \in Nodes : box[n] = "starting"
Running == \E n \in Nodes : box[n] = "running"

\* SIGTERM.
Signalled ==
  /\ \/ ctl = "early" /\ ctl' = "gone" /\ UNCHANGED term
     \/ ctl \in {"armed", "late", "stopping"} /\ term' = TRUE /\ UNCHANGED ctl
  /\ UNCHANGED box

\* The interrupt or an exception, once the calls that are out are back.
Turned ==
  /\ ctl \in {"armed", "late"} /\ ~Starting
  /\ ctl' = "stopping" /\ term' = FALSE /\ UNCHANGED box

\* The controller ends: early for a reason of its own, later with both workers
\* down or, on a second interrupt, as they are.
Leaves ==
  /\ \/ ctl = "early"
     \/ ctl = "late" /\ ~term /\ ~Starting /\ ~Running
     \/ ctl = "stopping" /\ (term \/ ~Running)
  /\ ctl' = "gone" /\ term' = FALSE /\ UNCHANGED box

LifeNext ==
  \/ Born \/ Asks \/ Arms \/ Starts \/ Signalled \/ Turned \/ Leaves
  \/ \E n \in Nodes : Creates(n) \/ Comes(n) \/ Ends(n)

LifeSpec == LifeInit /\ [][LifeNext]_lifeVars
=============================================================================
