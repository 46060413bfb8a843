---------------------------------- MODULE Fsm ----------------------------------
(***************************************************************************)
(* The dialogue row of one user: table fsm_states behind aiogram's         *)
(* FSMContext (bot/fsm_storage_pg.py), with what the user's private chat   *)
(* shows last.  All dialogues of a user, creating an event, creating a     *)
(* bill and editing an event, use this one row (FSMStrategy.GLOBAL_USER),  *)
(* and none of them empties it when it starts.                             *)
(*                                                                         *)
(* Values typed by the user are abstracted to where they come from: a key  *)
(* is usable or not (has), and a question has been answered in the running *)
(* dialogue or not (own).                                                  *)
(*                                                                         *)
(* One handler of a dialogue step is one action: its statements run in a   *)
(* burst, the user's next click is seconds away.  The two handlers that    *)
(* talk to Telegram and the weather service before they empty the row,     *)
(* publishing an event and publishing a bill, take two actions.            *)
(*                                                                         *)
(* A definition marked "Fault" is no part of the model: it is a plausible  *)
(* bug of the definition that follows it.                                  *)
(***************************************************************************)
EXTENDS Integers, Sequences, FiniteSets

CONSTANTS
    Events,    \* events the user may edit or copy
    NoEvent,   \* no edit_event_id in the row
    NoField,   \* no edit_field in the row
    MaxLayers  \* bound: layers of work on the row since it was last empty

ASSUME FsmAssumption == NoEvent \notin Events /\ MaxLayers \in Nat \ {0}

VARIABLES
    state,     \* fsm_states.state, "none" for NULL
    has,       \* the keys of data_json that hold a usable value
    own,       \* the questions answered since the running wizard started
    dialogue,  \* how the running wizard was started, "none" when none runs
    layers,    \* dialogues started, and events taken up for editing, since
               \* the row was last empty
    target,    \* data["edit_event_id"]
    field,     \* data["edit_field"]
    screen,    \* the last prompt of the bot in the private chat
    sending,   \* the publication whose handler is still at work
    topics     \* bot/topics_config.py names at least one topic

row  == <<has, own, dialogue, layers, target, field>>
vars == <<state, has, own, dialogue, layers, target, field, screen, sending, topics>>

(* CreateEvent, in the order in which the questions are asked. *)
EventSteps == <<"title", "description", "date", "time", "period_mode", "period_end_date",
                "period_end_time", "duration", "duration_unit", "location", "link",
                "price_mode", "price", "limit", "carpool", "responsible", "thread",
                "category", "preview">>

(* SplitBillCreate, in the order in which the questions are asked. *)
BillSteps == <<"bill_title", "amount", "source_event", "target_topic", "transfer_target",
               "transfer_bank", "transfer_bank_custom", "transfer_recipient_name">>

EditSteps == {"edit_value", "edit_category"}

EventStates == {EventSteps[i] : i \in DOMAIN EventSteps}
BillStates == {BillSteps[i] : i \in DOMAIN BillSteps}
States == EventStates \union BillStates \union EditSteps \union {"none"}

(* The keys a later step branches on or reads without a default.  Left out *)
(* are those that only choose the wording or the buttons of a prompt       *)
(* (from_template, active_category_group, awaiting_...).                   *)
Keys == {"title", "start_date", "date_time", "period_end", "period_past", "period_end_date",
         "pending_duration_value", "selected_categories", "thread_step_shown", "from_copy",
         "creator_id", "total_amount", "edit_selected_categories"}

(* The questions kept track of are those a branch may lead past; the       *)
(* others (link, limit, ...) stand between two of them in a line.          *)
EventQuestions == {"title", "date", "period", "duration", "price", "responsible", "thread",
                   "categories"}
OneDay == "one_day"  \* the period question was last answered with no
BillQuestions == {"title", "amount", "source_event", "thread", "transfer_target", "bank"}

Fields == {"title", "duration"}  \* "title" stands for any field typed in one go
ASSUME FieldsAssumption == NoField \notin Fields

Kinds == {"none", "new", "copy", "bill"}
EditScreens == {"menu", "value_prompt", "category_prompt"}

(* What the private chat shows: a step's question, an edit screen, or a    *)
(* notice that asks nothing.  Buttons of an edit menu name their event, so *)
(* which event the menu is for does not matter.                            *)
Screen(k, e, f) == [kind |-> k, event |-> e, field |-> f]
Question(step) == Screen(step, NoEvent, NoField)
Notice == Question("notice")
Screens == [kind : EventStates \union BillStates \union EditScreens \union {"notice"},
            event : Events \union {NoEvent}, field : Fields \union {NoField}]

TypeOK ==
    /\ state \in States
    /\ has \subseteq Keys
    /\ own \subseteq EventQuestions \union BillQuestions \union {OneDay}
    /\ dialogue \in Kinds
    /\ layers \in 0..MaxLayers
    /\ target \in Events \union {NoEvent}
    /\ field \in Fields \union {NoField}
    /\ screen \in Screens
    /\ sending \in {"nothing", "event", "bill"}
    /\ topics \in BOOLEAN

Init ==
    /\ state = "none" /\ has = {} /\ own = {} /\ dialogue = "none" /\ layers = 0
    /\ target = NoEvent /\ field = NoField
    /\ screen = Notice /\ sending = "nothing" /\ topics \in BOOLEAN

-----------------------------------------------------------------------------
(* FSMContext.update_data: the other keys of the row stay as they are. *)
UpdateData(written, dropped) == has' = (has \ dropped) \union written

(* A dialogue starts on the row as it is: its answers are still to come. *)
StartDialogue(how, loaded) ==
    /\ layers < MaxLayers
    /\ layers' = layers + 1
    /\ dialogue' = how
    /\ own' = loaded

(* No wizard runs: its state is gone, its answers stay in the row. *)
Abandon == own' = {} /\ dialogue' = "none"

(* edit_event_id is written. *)
TakeUp(e) ==
    /\ target' = e
    /\ layers' = IF e = target THEN layers ELSE layers + 1
    /\ layers' <= MaxLayers

Answered(questions) == own' = own \union questions

(* set_state, and the prompt of the same step. *)
Ask(step) == state' = step /\ screen' = Question(step)

(* Fault: the data goes, the state stays. *)
ClearDataOnly ==
    /\ has' = {} /\ own' = {} /\ dialogue' = "none" /\ layers' = 0
    /\ target' = NoEvent /\ field' = NoField
    /\ UNCHANGED state

(* FSMContext.clear: set_state(None) and set_data({}). *)
Clear ==
    /\ state' = "none" /\ has' = {} /\ own' = {} /\ dialogue' = "none" /\ layers' = 0
    /\ target' = NoEvent /\ field' = NoField

(* What stays when a step of a wizard only writes its own answer. *)
Elsewhere == UNCHANGED <<dialogue, layers, target, field, sending, topics>>

(* cancel_create: the cancel button of any prompt, in any state. *)
CancelCreate == Clear /\ screen' = Notice /\ UNCHANGED <<sending, topics>>

(* _clear_active_scenario_if_needed: a private command other than          *)
(* /create_event and /split_bill stops a wizard, never an edit.            *)
ClearActiveScenarioIfNeeded(unaffected) ==
    IF state \in EventStates \union BillStates THEN Clear ELSE unaffected

(* Any private command that opens no dialogue. *)
OtherCommand ==
    /\ ClearActiveScenarioIfNeeded(UNCHANGED <<state, row>>)
    /\ screen' = Notice
    /\ UNCHANGED <<sending, topics>>

(* cleanup_stale_fsm_states, when the user has not come back for a week. *)
CleanupStaleFsmStates == sending = "nothing" /\ Clear /\ UNCHANGED <<screen, sending, topics>>

(* The process restarts: the row is in the database, the handlers at work  *)
(* are not.  A deployment may bring another topics_config.py.              *)
Restart ==
    /\ sending' = "nothing"
    /\ topics' \in BOOLEAN
    /\ UNCHANGED <<state, row, screen>>
=============================================================================
