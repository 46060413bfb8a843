------------------------------- MODULE Dialogues -------------------------------
(***************************************************************************)
(* The three dialogues of one user over their one row, with the commands,  *)
(* the cancel button, the weekly clean-up and restarts that cut into them. *)
(***************************************************************************)
EXTENDS EventWizard, BillWizard, EventEdit

Next ==
    \/ EventWizardNext \/ BillWizardNext \/ EventEditNext
    \/ CancelCreate \/ OtherCommand \/ CleanupStaleFsmStates \/ Restart

Spec == Init /\ [][Next]_vars

-----------------------------------------------------------------------------
AfterDate == EventStates \ {"title", "description", "date", "time"}

(* A dialogue that goes on finds the values its later steps and its        *)
(* publication index without a default: whatever mix of back steps, other  *)
(* dialogues, commands and late ends of a publication came before, the row *)
(* holds date_time from the period on, title and category at the preview,  *)
(* creator_id in every step of a bill and its sum after it was asked.      *)
AnswersReady ==
    /\ state \in EventStates \ {"title"} => "title" \in has
    /\ state \in AfterDate => {"date_time", "start_date"} \subseteq has
    /\ state = "period_end_time" /\ "from_copy" \notin has => "period_end_date" \in has
    /\ state = "preview" => "selected_categories" \in has
    /\ state \in BillStates => "creator_id" \in has
    /\ state \in BillStates \ {"bill_title", "amount"} => "total_amount" \in has
    /\ state = "edit_value" => target # NoEvent /\ field # NoField

(* What is published was answered in the dialogue that publishes it, not   *)
(* in an abandoned one: every question of the event, unless the row still  *)
(* carries the from_copy mark of another dialogue; every question of the   *)
(* bill but the last, which is the one being answered, without exception.  *)
OwnAnswers ==
    /\ state = "preview" /\ ("from_copy" \in has => dialogue = "copy")
         => EventQuestions \subseteq own
    /\ state = "transfer_recipient_name" => BillQuestions \ {"thread"} \subseteq own

(* An event that is no copy has a period exactly when the last answer to   *)
(* the period question was yes, and it ends after the start, also when the *)
(* date or that answer was changed after the period was entered.           *)
PeriodAsAnswered ==
    state = "preview" /\ "from_copy" \notin has
      => /\ "period_end" \in has <=> OneDay \notin own
         /\ "period_past" \notin has

(* The question on the screen is the one the next message will be taken to *)
(* answer: while a step of the event wizard is in the row, the chat shows  *)
(* that step's question, unless something else was opened over it.         *)
AskedIsExpected ==
    state \in EventStates /\ screen.kind \in EventStates => screen.kind = state

(* A text asked for on the screen lands in the event and the field it was  *)
(* asked for.                                                              *)
TypedLandsWhereAsked ==
    state = "edit_value" /\ screen.kind = "value_prompt"
      => target = screen.event /\ field = screen.field

(* "Step back" never leads to a later question, whatever branches were     *)
(* taken before, except from the bill's topic: there the event's prompt    *)
(* goes on to the requisites, so the button moves the dialogue forward.    *)
BackGoesBack ==
    [][/\ EventBack => Position(EventSteps, state') <= Position(EventSteps, state)
       /\ SplitBillBack /\ state # "target_topic"
            => Position(BillSteps, state') < Position(BillSteps, state)]_vars
=============================================================================
