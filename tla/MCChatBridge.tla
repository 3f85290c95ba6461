---------------------------- MODULE MCChatBridge ----------------------------
(***************************************************************************)
(* One tool of each level and one that is not registered.                  *)
(***************************************************************************)
EXTENDS ChatBridge

ToolNames == {"read", "edit", "delete", "unknown"}
ToolLevels ==
    [n \in {"read", "edit", "delete"} |->
        IF n = "read" THEN "Auto" ELSE IF n = "edit" THEN "ConfirmOnce" ELSE "ConfirmAlways"]
=============================================================================
