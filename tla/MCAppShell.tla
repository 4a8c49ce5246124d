----------------------------- MODULE MCAppShell -----------------------------
(* The desktop application: the project manager behind the shell's guards, and     *)
(* the update controller, which meets the shell only in its two requests (the       *)
(* shell takes either outcome of an installation).  A run is of one of them.         *)
(* Two files, of which one can be picked in two spellings; the other is the Default   *)
(* project's.  A first start finds a file of an older version and no settings, or a file of a    *)
(* newer version and a recent project whose file is gone for good.               *)
EXTENDS AppShell, UpdateController

MCPaths == {"a", "A", "default", "gone"}
MCPicks == {"a", "A", "default"}
MCKeyOf == [p \in MCPaths |-> IF p = "A" THEN "a" ELSE p]
MCServers == {"s1"}
MCLayouts == {"wide"}
MCData == [conn |-> "s1", work |-> 1, layout |-> "wide"]
Files(a, default) == [k \in {"a", "default", "gone"} |->
                        CASE k = "a" -> a [] k = "default" -> default [] OTHER -> NoFile]
MCFound == {[disk |-> Files(Project(1, MCData), NoFile), ini |-> NoIni],
            [disk |-> Files(NoFile, Project(3, MCData)),
             ini  |-> [written |-> TRUE, recent |-> <<"gone">>, legacy |-> FALSE]]}

MCVersion == <<1, 2>>
MCReleases == {[tag |-> <<1, 2, 0>>, page |-> ""], [tag |-> <<1, 10>>, page |-> ""],
               [tag |-> <<2>>, page |-> "plain"], [tag |-> <<1, 2, 1>>, page |-> "https"],
               [tag |-> <<>>, page |-> ""], [tag |-> <<0, 9, 9>>, page |-> "https"]}

VARIABLE side

MCInit == /\ Init /\ UpdateInit
          /\ side \in {"shell", "update"} /\ (side = "shell" => ~update.auto)
ShellStep  == side = "shell" /\ Next /\ UNCHANGED <<updateVars, side>>
UpdateStep == side = "update" /\ UpdateNext /\ UNCHANGED <<vars, side>>
MCNext == ShellStep \/ UpdateStep
MCSpec == MCInit /\ [][MCNext]_<<vars, updateVars, side>> /\ UpdateFairness
=============================================================================
