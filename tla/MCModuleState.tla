---------------------------- MODULE MCModuleState ----------------------------
(* ModuleState with two trained parameters and a buffer between them;
   traversal, optimizer names and identities are in different orders. *)
EXTENDS ModuleState

VisitThree == <<3, 1, 2>>
EntriesTwo == <<2, 1>>
StatisticsOne == <<3>>

Calls(trainer, a, b) == [t \in Threads |-> CASE t = Trainer -> trainer [] t = "a" -> a [] t = "b" -> b]

(* A long training beside one other thread, or a step beside two. *)
MCBudgets == {Calls(3, 3, 0), Calls(1, 2, 1)}

(* Two steps and one other call. *)
ShortTraining == {Calls(2, 1, 0)}
=============================================================================
