------------------------------- MODULE EventEdit -------------------------------
(***************************************************************************)
(* Editing an event: bot/handlers/event_scenarios/edit.py and the entry in *)
(* my_events.py.  Buttons carry the event's number; a typed value, and the *)
(* categories ticked, go to the event and the field the row names.         *)
(***************************************************************************)
EXTENDS Fsm

Unsent == UNCHANGED <<sending, topics>>
ShowEditMenu == screen' = Question("menu")

(* manage_edit_: the row's event changes, the state does not. *)
ManageEditEvent(e) ==
    /\ TakeUp(e)
    /\ UpdateData({}, {"edit_selected_categories"})
    /\ ShowEditMenu
    /\ UNCHANGED <<state, own, dialogue, field>> /\ Unsent

(* /edit_event: the middleware stops a wizard first. *)
CmdEditEvent(e) ==
    /\ IF state \in EventStates \union BillStates
       THEN /\ state' = "none" /\ has' = {} /\ Abandon
            /\ target' = e /\ layers' = 1 /\ field' = NoField
       ELSE /\ TakeUp(e)
            /\ UpdateData({}, {"edit_selected_categories"})
            /\ UNCHANGED <<state, own, dialogue, field>>
    /\ ShowEditMenu
    /\ Unsent

(* edit_back_menu_, and the buttons that complete an edit by themselves    *)
(* (the price "free", the carpool switch): the state goes, the data stays. *)
EditBackToMenu ==
    /\ state' = "none" /\ Abandon
    /\ ShowEditMenu
    /\ UNCHANGED <<has, layers, target, field>> /\ Unsent

EditDone == Clear /\ screen' = Notice /\ Unsent

(* Fault: the field is noted, its event is not. *)
StartEditFieldOldEvent(e, f) ==
    /\ state' = "edit_value" /\ Abandon
    /\ field' = f
    /\ screen' = Screen("value_prompt", e, f)
    /\ UNCHANGED <<has, layers, target>> /\ Unsent

(* _start_edit_field: the value of field f of event e is asked for. *)
StartEditField(e, f) ==
    /\ state' = "edit_value" /\ Abandon
    /\ TakeUp(e) /\ field' = f
    /\ screen' = Screen("value_prompt", e, f)
    /\ UNCHANGED has /\ Unsent

(* edit_field_..._price and _carpool show buttons and leave the row alone. *)
EditPickChoice ==
    /\ ShowEditMenu
    /\ UNCHANGED <<state, row>> /\ Unsent

EditPickCategory(e) ==
    /\ state' = "edit_category" /\ Abandon
    /\ TakeUp(e)
    /\ UpdateData({"edit_selected_categories"}, {})
    /\ screen' = Screen("category_prompt", e, NoField)
    /\ UNCHANGED field /\ Unsent

(* A typed value is stored, refused for want of rights, or turns out to be *)
(* a duration without its unit.                                            *)
EditApplyValue ==
    /\ state = "edit_value"
    /\ target # NoEvent /\ field # NoField
    /\ \/ Clear /\ screen' = Notice
       \/ state' = "none" /\ ShowEditMenu /\ UNCHANGED row
       \/ /\ field = "duration"
          /\ UpdateData({"pending_duration_value"}, {})
          /\ ShowEditMenu
          /\ UNCHANGED <<state, own, dialogue, layers, target, field>>
    /\ Unsent

EditDurationUnit ==
    /\ state = "edit_value"
    /\ field = "duration" /\ target # NoEvent
    /\ "pending_duration_value" \in has
    /\ state' = "none"
    /\ ShowEditMenu
    /\ UNCHANGED row /\ Unsent

EditToggleCategory ==
    /\ state = "edit_category"
    /\ \/ UpdateData({"edit_selected_categories"}, {})
       \/ /\ "edit_selected_categories" \in has
          /\ UpdateData({}, {"edit_selected_categories"})
    /\ UNCHANGED <<state, own, dialogue, layers, target, field, screen>> /\ Unsent

EditCategoryBack ==
    /\ state = "edit_category"
    /\ target # NoEvent
    /\ screen' = Screen("category_prompt", target, NoField)
    /\ UNCHANGED <<state, row>> /\ Unsent

EditFinishCategories ==
    /\ state = "edit_category"
    /\ target # NoEvent
    /\ "edit_selected_categories" \in has
    /\ state' = "none"
    /\ ShowEditMenu
    /\ UNCHANGED row /\ Unsent

EventEditNext ==
    \/ \E e \in Events :
         \/ ManageEditEvent(e) \/ CmdEditEvent(e) \/ EditPickCategory(e)
         \/ \E f \in Fields : StartEditField(e, f)
    \/ EditBackToMenu \/ EditPickChoice
    \/ EditDone \/ EditApplyValue \/ EditDurationUnit
    \/ EditToggleCategory \/ EditCategoryBack \/ EditFinishCategories
=============================================================================
