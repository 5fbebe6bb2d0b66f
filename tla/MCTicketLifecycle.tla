------------------------ MODULE MCTicketLifecycle ------------------------
(***************************************************************************)
(* Small instances of TicketLifecycle: the PATCH bodies, catalog items and  *)
(* technicians the configurations choose from.                              *)
(***************************************************************************)
EXTENDS TicketLifecycle, TLC

CONSTANTS ana, bruno, suporte, redes

Body(status, level, assignee, team) ==
    [status |-> status, current_level |-> level, assigned_to |-> assignee, team_id |-> team]

SetStatus(s) == Body(s, Unset, Unset, Unset)

\* Levels up and down, with and without a technician, queue and resolution.
SerialPatches ==
    {Body(Unset, l, Unset, Unset) : l \in {"n1", "n2"}}
        \cup {Body(Unset, Unset, ana, Unset), Body("em_atendimento", "n2", bruno, Unset),
              Body(Unset, Unset, None, None), SetStatus("resolvido"), SetStatus(Pending)}

ApprovalPatches == {SetStatus("em_atendimento"), SetStatus(Pending)}

MixedPatches ==
    {SetStatus("em_atendimento"), SetStatus("resolvido"), SetStatus("cancelado"),
     Body(Unset, "n2", Unset, Unset), Body(Unset, "n3", Unset, Unset), Body(Unset, Unset, ana, Unset),
     Body("em_atendimento", Unset, ana, Unset), Body("fechado", Unset, Unset, None)}

PlainItem == [requires_approval |-> FALSE, auto_approve_if_vip |-> FALSE, timeout_action |-> "none"]
ManagedItem == [requires_approval |-> TRUE, auto_approve_if_vip |-> FALSE, timeout_action |-> "none"]
VipItem == [requires_approval |-> TRUE, auto_approve_if_vip |-> TRUE, timeout_action |-> "auto_reject"]
TimedItem == [requires_approval |-> TRUE, auto_approve_if_vip |-> FALSE, timeout_action |-> "auto_approve"]

AllItems == {PlainItem, ManagedItem, VipItem, TimedItem}
TwoItems == {PlainItem, VipItem}
TimedItems == {VipItem, TimedItem}

FrontDesk == {<<suporte, "n1">>}
Openings == {<<suporte, "n1">>, <<None, "n2">>}

Technicians == {ana, bruno}
OneLevel == (ana :> "n1")
TwoLevels == (ana :> "n1") @@ (bruno :> "n2")
==========================================================================
