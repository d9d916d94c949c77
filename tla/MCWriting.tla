----------------------------- MODULE MCWriting -----------------------------
(* Instances of Editor, EditorTools and Moderation for TLC.  The parts keep *)
(* no state in common; one of them is picked, and only it moves.            *)
EXTENDS Editor, EditorTools, Moderation, TLC

VARIABLE part

Init ==
    /\ part \in {"form", "document", "tags", "report"}
    /\ EditorInit /\ ToolsInit /\ ModerationInit
    /\ part # "report" => kind = "diary"
    /\ part # "form" => ~edit /\ key

Next ==
    /\ UNCHANGED part
    /\ \/ part = "form" /\ EditorNext /\ UNCHANGED <<ToolsVars, ModerationVars>>
       \/ part = "document" /\ DocumentNext /\ UNCHANGED <<EditorVars, ModerationVars>>
       \/ part = "tags" /\ TagNext /\ UNCHANGED <<EditorVars, ModerationVars>>
       \/ part = "report" /\ ModerationNext /\ UNCHANGED <<EditorVars, ToolsVars>>

Spec == Init /\ [][Next]_<<part, EditorVars, ToolsVars, ModerationVars>>

\* The other parts stay as they were at the start.
TypeOK ==
    CASE part = "form" -> EditorTypeOK
      [] part = "report" -> ModerationTypeOK
      [] OTHER -> ToolsTypeOK

ModeratorsAlike == Permutations(Moderators)

=============================================================================
