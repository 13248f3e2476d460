------------------------------ MODULE MCTargetRun ------------------------------
(***************************************************************************)
(* TargetRun for TLC.  The targets are those of the code that meet here:   *)
(* sysroot asks for CheriBSD in its check_system_dependencies(); run asks  *)
(* for it in its setup() and misses a kernel or an emulator in its         *)
(* process(); CheriBSD misses bmake and asks for drm-kmod, whose setup()   *)
(* asks for CheriBSD and, through it, for drm-kmod itself; a KDE library   *)
(* asks for mime (shared-mime-info) in its setup() and misses it there.    *)
(***************************************************************************)
EXTENDS TargetRun

CONSTANTS cheribsd, drm, sysroot, bmake, run, mime, kde

SmallDeps ==
  [ t \in Targets |-> CASE t \in {sysroot, run, drm} -> {cheribsd}
                        [] t = kde -> {mime}
                        [] OTHER -> {} ]
SmallAsks ==
  [ h \in Hooks |->
      [ t \in Targets |->
          CASE h = "check" /\ t = sysroot -> {cheribsd}
            [] h \in {"setup", "TEST"} /\ t = run -> {cheribsd}
            [] h = "setup" /\ t = drm -> {cheribsd, drm}
            [] h = "BUILD" /\ t = cheribsd -> {drm}
            [] h = "setup" /\ t = kde -> {mime}
            [] OTHER -> {} ] ]
SmallTools ==
  [ h \in Hooks |->
      [ t \in Targets |->
          CASE h = "BUILD" /\ t = cheribsd -> {bmake}
            [] h = "BUILD" /\ t = run -> {cheribsd, bmake}
            [] h = "TEST" /\ t = cheribsd -> {cheribsd}
            [] h = "setup" /\ t = kde -> {mime}
            [] h = "check" /\ t = mime -> {bmake}
            [] OTHER -> {} ] ]

CONSTANT MaxPlan

(* Every selection of so many targets in every order that the sort may     *)
(* produce.                                                                *)
SmallPlans ==
  UNION { { p \in [1 .. n -> Targets] :
              \A i, j \in 1 .. n :
                p[i] \in SmallDeps[p[j]] \/ p[i] = p[j] => i <= j } :
          n \in 1 .. MaxPlan }

SmallLists == UNION { [1 .. n -> Targets] : n \in 1 .. 2 }
=============================================================================
