---------------------------- MODULE MCTaskManager ----------------------------
(* Two jobs of one template and one project, of which "plain" must not start  *)
(* beside "beside", though "beside" may start beside "plain" (simultaneous).   *)
(* Both prefer a container group that admits one pod.  "plain" has an          *)
(* inventory filled from the project, whose update is too big for either       *)
(* instance.  "flow" is a workflow job, started and cancelled beside them.     *)
EXTENDS TaskManager

Row(kind, inventory, source, template, impact, groups) ==
    [kind |-> kind, project |-> "P", inventory |-> inventory, source |-> source,
     template |-> template, simultaneous |-> FALSE, impact |-> impact, groups |-> groups]

MCTasks == {"plain", "beside", "p1", "p2", "s1", "flow"}
MCInfo == [t \in MCTasks |->
    CASE t = "plain"  -> Row("job", "I", "none", "T", 1, <<"pods", "default">>)
      [] t = "beside" -> [Row("job", "none", "none", "T", 2, <<"pods", "default">>)
                          EXCEPT !.simultaneous = TRUE]
      [] t = "s1"     -> Row("inventory update", "I", "S", "none", 2, <<"exec">>)
      [] t = "flow"   -> [Row("workflow job", "none", "none", "W", 0, <<>>)
                          EXCEPT !.project = "none"]
      [] OTHER        -> Row("project update", "none", "none", "none", 3, <<>>)]

MCNodeInfo == [n \in {"h", "e"} |->
    [type |-> IF n = "h" THEN "hybrid" ELSE "execution", capacity |-> IF n = "h" THEN 4 ELSE 1]]
MCGroupInfo == [g \in {"controlplane", "default", "exec", "pods"} |->
    [members |-> CASE g = "controlplane" -> {"h"} [] g = "default" -> {"h", "e"}
                [] g = "exec" -> {"e"} [] OTHER -> {},
     container |-> g = "pods", maxJobs |-> IF g = "pods" THEN 1 ELSE 0, maxForks |-> 0]]
MCOnLaunch == {<<"project update", "P">>, <<"inventory update", "S">>}
=============================================================================
