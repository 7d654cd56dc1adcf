------------------------------ MODULE Firmware ------------------------------
(***************************************************************************)
(* The programs the build makes: for the device the demo, the 2D template  *)
(* and the demo with its profiler (preset pico-prof), for the host the     *)
(* tests of the leaf functions.  One runs; the variables of the others     *)
(* stay as they are.  Under the profiler, input, camera and watchdog are   *)
(* those of the demo and are left out: what it adds is its blocks.         *)
(***************************************************************************)
EXTENDS DemoLoop, TemplateLoop, Profiler, Kernels

CONSTANT Images  \* a subset of Image

Image == {"demo", "template", "pico-prof", "tests"}

ASSUME ImagesAssumption == Images \subseteq Image

vars == <<platformVars, demoVars, templateVars, profVars, kernelVars>>

Init ==
  /\ image \in Images
  /\ pc = IF image = "demo" THEN "boot" ELSE "poll"
  /\ pad = {} /\ fresh = FALSE /\ lifted = FALSE /\ now = 0
  /\ PlatInit /\ DemoInit /\ TemplateInit /\ ProfInit /\ KernelInit

Demo == image = "demo" /\ UNCHANGED <<templateVars, profVars, kernelVars>>
Template == image = "template" /\ UNCHANGED <<demoVars, profVars, kernelVars>>
PicoProf == image = "pico-prof"
            /\ UNCHANGED <<platformVars, demoVars, templateVars, kernelVars>>
HostTests == image = "tests"
             /\ UNCHANGED <<platformVars, demoVars, templateVars, profVars>>

Next == \/ Demo /\ DemoNext
        \/ Template /\ TemplateNext
        \/ PicoProf /\ ProfNext
        \/ HostTests /\ KernelNext

(* The loop runs, and time passes, whatever it does. *)
Fairness == WF_vars(Demo /\ DemoStep) /\ WF_vars(Demo /\ DemoTick)

Spec == Init /\ [][Next]_vars /\ Fairness

(* Every variable has its type; with the clamp of the object and the ranges *)
(* of the scroll phase, the eye and the scripted poses.                    *)
TypeOK ==
  /\ image \in Image
  /\ pc \in DemoPc \cup TemplatePc
  /\ pad \subseteq Button /\ heldPrev \subseteq Button
  /\ in \in [held : SUBSET Button, pressed : SUBSET Button]
  /\ now \in 0 .. ClockRange - 1 /\ stop \in 0 .. ClockRange - 1
  /\ sound \in BOOLEAN /\ fresh \in BOOLEAN /\ lifted \in BOOLEAN
  /\ armed \in 0 .. WatchdogMax /\ dog \in Nat
  /\ DemoTypeOK /\ TemplateTypeOK /\ ProfTypeOK
=============================================================================
