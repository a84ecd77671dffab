---------------------------- MODULE MCManagerRestore ----------------------------
(* Two requests of any kind at once, an old backup of another manager.     *)
EXTENDS ManagerRestore, TLC

MCPlans == {<<"bbm", "h1">>}
MCOffered == "r1" :> {"manager", "cache", "cache-sync", "upload"}
               @@ "r2" :> {"manager", "cache", "restore", "cache-restore"}
MCLabels == {"Manuell"}
MCForeign == [c \in Component |->
                IF c \in {"manager.db", "settings.json", "security"} THEN "there" ELSE None]
MCData == {[c \in Component |-> IF c = "settings.json" THEN None ELSE "here"]}
MCOldName == [artifact |-> "manager", stamp |-> 0, label |-> "alt"]
MCUploadName == [artifact |-> "manager", stamp |-> 0, label |-> "Manuell"]
MCStored == MCOldName :> [by |-> None, kind |-> "manager", img |-> MCForeign, state |-> "whole"]
===============================================================================
