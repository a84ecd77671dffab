--------------------------- MODULE MCScheduleGroup ---------------------------
(* An instance of ScheduleGroup: two jobs that start in one repository.     *)
EXTENDS ScheduleGroup

CONSTANTS A, B, g1

MCHomeOf == [j \in Job |-> A]
MCTargets == [g \in Group |-> Job]
=============================================================================
