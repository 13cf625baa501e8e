----------------------- MODULE MeasurementRefinement -----------------------
(***************************************************************************)
(* Measurement implements LifecycleExecutor: what LiveBatch takes for one  *)
(* step of an experiment is a run of gate calls, polls or lookups here.    *)
(* The stand-alone runner is no call of the executor.                      *)
(***************************************************************************)
EXTENDS Measurement

Executed == client = "executor"

(* What kubectl would list: this experiment's object and one of the same   *)
(* owner; what is not this owner's is in no one's set.                     *)
Objects ==
  {a \in {"this", "stray"} :
     IF a = "this" THEN Executed /\ chaos # "absent" ELSE Executed /\ stray = "owned"}

Step ==
  IF ~Executed THEN "idle"
  ELSE CASE pc \in {"scope", "platform", "targets", "name", "capability"} -> "gate"
         [] pc = "inject" -> "wait"
         [] pc = "verify" -> "delete"
         [] pc = "done" -> "returned"
         [] OTHER -> pc

Known ==
  {f \in {"prepared", "applied", "injected", "absent", "swept", "settled", "raised"} :
     Executed /\ run[f]}

One == INSTANCE LifecycleExecutor WITH
  Actions <- {"this", "stray"},
  NoAction <- "none",
  step <- Step,
  action <- IF Step = "idle" THEN "none" ELSE "this",
  facts <- Known,
  status <- IF Executed THEN run.status ELSE "blocked",
  faults <- Objects,
  fixtures <- IF fixture THEN {"this"} ELSE {}

(* Call by call the executor does what a batch relies on: it applies only  *)
(* under a free name, it never calls a step of the cleanup done that was   *)
(* not, and its last status is that of the facts it has.                   *)
ImplementsLifecycle == One!OneCall
=============================================================================
