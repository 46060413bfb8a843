------------------------------ MODULE EventWizard ------------------------------
(***************************************************************************)
(* Creating an event: the wizard of bot/handlers/event_scenarios, started  *)
(* from scratch, from a template or from a past event, its back button,    *)
(* and the publication that ends it.                                       *)
(*                                                                         *)
(* A handler answers to its state only, whatever prompt the button belongs *)
(* to: a button of an older message works as long as the state fits.  An   *)
(* answer the handler refuses (a wrong format, a date in the past) changes *)
(* nothing but the prompt's text and is left out.                          *)
(***************************************************************************)
EXTENDS Fsm

PeriodKeys == {"period_end", "period_past"}

(* The fields start_copy_event_wizard takes over from the past event. *)
CopiedAnswers == {"title", "period", "duration", "price", "categories"}

(* /create_event and the menu button: only the state is set. *)
StartCreateEventWizard ==
    /\ Ask("title")
    /\ StartDialogue("new", {})
    /\ UNCHANGED <<has, target, field, sending, topics>>

(* Every entry of EVENT_TEMPLATES brings at least one category; its title  *)
(* and description are suggestions, offered at their steps.                *)
TemplateKeys == {"selected_categories"}

QuickEventTemplate ==
    /\ Ask("title")
    /\ UpdateData(TemplateKeys, {})
    /\ StartDialogue("new", {})
    /\ UNCHANGED <<target, field, sending, topics>>

(* The past event has a title and a category; it may have had a period,    *)
(* which is over.                                                          *)
StartCopyEventWizard ==
    /\ Ask("date")
    /\ \E period \in {{}, {"period_end"}} :
         UpdateData({"title", "selected_categories", "from_copy"} \union period,
                    PeriodKeys \ period)
    /\ StartDialogue("copy", CopiedAnswers)
    /\ UNCHANGED <<target, field, sending, topics>>

-----------------------------------------------------------------------------
(* The title typed, or the template's kept. *)
ProcessTitle ==
    /\ state = "title"
    /\ Ask("description")
    /\ UpdateData({"title"}, {}) /\ Answered({"title"})
    /\ Elsewhere

(* The description typed, skipped, or the template's kept. *)
ProcessDescription ==
    /\ state = "description"
    /\ Ask("date")
    /\ UNCHANGED <<has, own>> /\ Elsewhere

ProcessDate ==
    /\ state = "date"
    /\ Ask("time")
    /\ UpdateData({"start_date"}, {})
    /\ UNCHANGED own /\ Elsewhere

(* A copy goes straight to the responsible and keeps the period copied,    *)
(* which may end before the new date; any other event is asked for its     *)
(* period again.                                                           *)
AdvanceAfterDatetime ==
    /\ IF "from_copy" \in has
       THEN /\ Ask("responsible")
            /\ \E past \in {{}, {"period_past"}} :
                 UpdateData({"date_time", "start_date"} \union
                            (IF "period_end" \in has THEN past ELSE {}), {"period_past"})
       ELSE /\ Ask("period_mode")
            /\ UpdateData({"date_time", "start_date"}, PeriodKeys)
    /\ Answered({"date"})

QuickDatetime == state = "date" /\ AdvanceAfterDatetime /\ Elsewhere

(* quick_time and process_time. *)
ProcessTime ==
    /\ state = "time"
    /\ "start_date" \in has
    /\ AdvanceAfterDatetime
    /\ Elsewhere

(* Fault: "one day" leaves a period entered before. *)
ProcessPeriodModeKeeps ==
    /\ state = "period_mode"
    /\ \/ Ask("duration") /\ Answered({"period", OneDay}) /\ UNCHANGED has
       \/ Ask("period_end_date") /\ UNCHANGED <<has, own>>
    /\ Elsewhere

ProcessPeriodMode ==
    /\ state = "period_mode"
    /\ \/ /\ Ask("duration")
          /\ UpdateData({}, PeriodKeys) /\ Answered({"period", OneDay})
       \/ Ask("period_end_date") /\ UNCHANGED <<has, own>>
    /\ Elsewhere

ProcessPeriodEndDate ==
    /\ state = "period_end_date"
    /\ "date_time" \in has
    /\ Ask("period_end_time")
    /\ UpdateData({"period_end_date"}, {})
    /\ UNCHANGED own /\ Elsewhere

(* The end is refused unless it is later than the start. *)
FinishPeriodEnd ==
    /\ state = "period_end_time"
    /\ {"period_end_date", "date_time"} \subseteq has
    /\ Ask("duration")
    /\ UpdateData({"period_end"}, {"period_past"})
    /\ own' = (own \ {OneDay}) \union {"period"}
    /\ Elsewhere

AdvanceAfterDuration ==
    /\ Ask("location")
    /\ UpdateData({}, {"pending_duration_value"}) /\ Answered({"duration"})

(* skip_duration, and a text that is a duration or a bare number. *)
ProcessDuration ==
    /\ state = "duration"
    /\ \/ AdvanceAfterDuration
       \/ /\ Ask("duration_unit")
          /\ UpdateData({"pending_duration_value"}, {})
          /\ UNCHANGED own
    /\ Elsewhere

ProcessDurationUnit ==
    /\ state = "duration_unit"
    /\ IF "pending_duration_value" \in has
       THEN AdvanceAfterDuration
       ELSE Ask("duration") /\ UNCHANGED <<has, own>>
    /\ Elsewhere

ProcessLocation ==
    /\ state = "location"
    /\ Ask("link")
    /\ UNCHANGED <<has, own>> /\ Elsewhere

ProcessLink ==
    /\ state = "link"
    /\ Ask("price_mode")
    /\ UNCHANGED <<has, own>> /\ Elsewhere

(* Fault: only the price for all together is asked for. *)
ProcessPriceModeNoPrice ==
    /\ state = "price_mode"
    /\ \/ Ask("limit")
       \/ Ask("price")
    /\ UNCHANGED <<has, own>> /\ Elsewhere

ProcessPriceMode ==
    /\ state = "price_mode"
    /\ \/ Ask("limit") /\ Answered({"price"})
       \/ Ask("price") /\ UNCHANGED own
    /\ UNCHANGED has /\ Elsewhere

ProcessPrice ==
    /\ state = "price"
    /\ Ask("limit") /\ Answered({"price"})
    /\ UNCHANGED has /\ Elsewhere

ProcessLimit ==
    /\ state = "limit"
    /\ Ask("carpool")
    /\ UNCHANGED <<has, own>> /\ Elsewhere

ProcessCarpoolChoice ==
    /\ state = "carpool"
    /\ Ask("responsible")
    /\ UNCHANGED <<has, own>> /\ Elsewhere

-----------------------------------------------------------------------------
(* build_event_payload reads data["title"] and data["date_time"] without a *)
(* default, show_event_preview wants a category.                           *)
CanBuildPayload == {"title", "date_time", "selected_categories"} \subseteq has

(* advance_after_responsible. *)
AdvanceAfterResponsible ==
    \/ /\ topics
       /\ Ask("thread")
       /\ UpdateData({"thread_step_shown"}, {})
       /\ Answered({"responsible"})
    \/ /\ ~topics
       /\ Answered({"responsible", "thread"})
       /\ IF {"from_copy", "selected_categories"} \subseteq has
          THEN CanBuildPayload /\ Ask("preview")
          ELSE Ask("category")
       /\ UpdateData({}, {"thread_step_shown"})

(* "Me", or "another member" and then his name. *)
ChooseResponsible == state = "responsible" /\ AdvanceAfterResponsible /\ Elsewhere

ProcessTopic ==
    /\ state = "thread"
    /\ Answered({"thread"})
    /\ IF {"from_copy", "selected_categories"} \subseteq has
       THEN CanBuildPayload /\ Ask("preview")
       ELSE Ask("category")
    /\ UpdateData({"thread_step_shown"}, {})
    /\ Elsewhere

(* Ticking a category, or taking the tick away, perhaps from the last one. *)
ToggleCategory ==
    /\ state = "category"
    /\ \/ UpdateData({"selected_categories"}, {})
       \/ "selected_categories" \in has /\ UpdateData({}, {"selected_categories"})
    /\ UNCHANGED <<state, own, screen>> /\ Elsewhere

FinishCategories ==
    /\ state = "category"
    /\ "selected_categories" \in has
    /\ CanBuildPayload
    /\ Ask("preview")
    /\ Answered({"categories"})
    /\ UNCHANGED has /\ Elsewhere

-----------------------------------------------------------------------------
(* The press on "publish": the payload is read and the event stored. *)
PublishPreviewedEvent ==
    /\ state = "preview"
    /\ sending = "nothing"
    /\ sending' = "event"
    /\ UNCHANGED <<state, row, screen, topics>>

(* finalize_event_creation ends: the card is in the group and the row is   *)
(* emptied, or sending failed and the row stays.                           *)
FinalizeEventCreation ==
    /\ sending = "event"
    /\ \/ Clear
       \/ UNCHANGED <<state, row>>
    /\ screen' = Notice
    /\ sending' = "nothing"
    /\ UNCHANGED topics

-----------------------------------------------------------------------------
Position(steps, s) == CHOOSE i \in DOMAIN steps : steps[i] = s

(* event_back's previous_map and its two exceptions: a branch the user did *)
(* not take is jumped over.                                                *)
PreviousStep ==
    [s \in EventStates \ {"title"} |->
       CASE s = "duration" -> IF "period_end" \in has THEN "period_end_time" ELSE "period_mode"
         [] s = "location" -> "duration"
         [] s = "limit" -> "price_mode"
         [] s = "category" -> IF "thread_step_shown" \in has THEN "thread" ELSE "responsible"
         [] OTHER -> EventSteps[Position(EventSteps, s) - 1]]

(* Fault: the prompt is shown, the state is not set. *)
ShowEventStepPromptOnly(step) ==
    /\ screen' = Question(step)
    /\ UNCHANGED state

(* _show_event_step_prompt: the prompt of the step just set; without       *)
(* topics the topic step moves on to the categories by itself.             *)
ShowEventStepPrompt(step) ==
    IF step = "thread" /\ ~topics
    THEN Ask("category")
    ELSE Ask(step)

EventBack ==
    /\ state \in EventStates \ {"title"}
    /\ ShowEventStepPrompt(PreviousStep[state])
    /\ UNCHANGED <<has, own>> /\ Elsewhere

EventWizardNext ==
    \/ StartCreateEventWizard \/ QuickEventTemplate \/ StartCopyEventWizard
    \/ ProcessTitle \/ ProcessDescription \/ ProcessDate \/ QuickDatetime \/ ProcessTime
    \/ ProcessPeriodMode \/ ProcessPeriodEndDate \/ FinishPeriodEnd
    \/ ProcessDuration \/ ProcessDurationUnit \/ ProcessLocation \/ ProcessLink
    \/ ProcessPriceMode \/ ProcessPrice \/ ProcessLimit \/ ProcessCarpoolChoice
    \/ ChooseResponsible \/ ProcessTopic \/ ToggleCategory \/ FinishCategories
    \/ PublishPreviewedEvent \/ FinalizeEventCreation \/ EventBack
=============================================================================
