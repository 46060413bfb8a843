------------------------------- MODULE BillWizard -------------------------------
(***************************************************************************)
(* Creating a bill: the wizard of bot/handlers/split_bill_feature, its     *)
(* back button, and finalize_split_bill, which stores and sends the bill.  *)
(* Handlers answer to their state, as in EventWizard.                      *)
(***************************************************************************)
EXTENDS Fsm

(* /split_bill and the menu button. *)
StartSplitBillWizard ==
    /\ Ask("bill_title")
    /\ UpdateData({"creator_id"}, {})
    /\ StartDialogue("bill", {})
    /\ UNCHANGED <<target, field, sending, topics>>

SplitBillTitle ==
    /\ state = "bill_title"
    /\ Ask("amount")
    /\ UpdateData({"title"}, {}) /\ Answered({"title"})
    /\ Elsewhere

(* Fault: the sum goes under the name of its step. *)
SplitBillAmountOtherKey ==
    /\ state = "amount"
    /\ Ask("source_event")
    /\ UpdateData({"amount"}, {}) /\ Answered({"amount"})
    /\ Elsewhere

SplitBillAmount ==
    /\ state = "amount"
    /\ Ask("source_event")
    /\ UpdateData({"total_amount"}, {}) /\ Answered({"amount"})
    /\ Elsewhere

(* ask_split_bill_topic and, without topics, ask_transfer_target at once. *)
AskSplitBillTopic ==
    IF topics
    THEN Ask("target_topic") /\ Answered({"source_event"})
    ELSE Ask("transfer_target") /\ Answered({"source_event", "thread"})

(* An event named, picked or skipped. *)
SplitBillSourceEvent ==
    /\ state = "source_event"
    /\ AskSplitBillTopic
    /\ UNCHANGED has /\ Elsewhere

SplitBillTopic ==
    /\ state = "target_topic"
    /\ Ask("transfer_target") /\ Answered({"thread"})
    /\ UNCHANGED has /\ Elsewhere

(* The requisites; the button that names their type may be left out. *)
SplitBillTransferTargetValue ==
    /\ state = "transfer_target"
    /\ Ask("transfer_bank") /\ Answered({"transfer_target"})
    /\ UNCHANGED has /\ Elsewhere

SplitBillBankSelect ==
    /\ state = "transfer_bank"
    /\ \/ Ask("transfer_recipient_name") /\ Answered({"bank"})
       \/ Ask("transfer_bank_custom") /\ UNCHANGED own
    /\ UNCHANGED has /\ Elsewhere

SplitBillBankCustom ==
    /\ state = "transfer_bank_custom"
    /\ Ask("transfer_recipient_name") /\ Answered({"bank"})
    /\ UNCHANGED has /\ Elsewhere

(* The last answer: finalize_split_bill reads the row and stores the bill. *)
SplitBillRecipientName ==
    /\ state = "transfer_recipient_name"
    /\ {"total_amount", "creator_id"} \subseteq has
    /\ sending = "nothing"
    /\ sending' = "bill"
    /\ UNCHANGED <<state, row, screen, topics>>

(* The bill's card is in the group and the row is emptied, or Telegram     *)
(* refused it: then the exception leaves the row at its last step.         *)
FinalizeSplitBill ==
    /\ sending = "bill"
    /\ \/ Clear /\ screen' = Notice
       \/ UNCHANGED <<state, row, screen>>
    /\ sending' = "nothing"
    /\ UNCHANGED topics

-----------------------------------------------------------------------------
(* Fault: the requisites step back to the event, over the topic.           *)
PreviousBillStepOverTopic ==
    [s \in BillStates \ {"bill_title"} |->
       CASE s = "amount" -> "bill_title"
         [] s = "source_event" -> "amount"
         [] s \in {"target_topic", "transfer_target"} -> "source_event"
         [] s = "transfer_bank" -> "transfer_target"
         [] OTHER -> "transfer_bank"]

(* SPLIT_BILL_STEP_META. *)
PreviousBillStep ==
    [s \in BillStates \ {"bill_title"} |->
       CASE s = "amount" -> "bill_title"
         [] s = "source_event" -> "amount"
         [] s = "target_topic" -> "source_event"
         [] s = "transfer_target" -> "target_topic"
         [] s = "transfer_bank" -> "transfer_target"
         [] OTHER -> "transfer_bank"]

(* _show_split_bill_step_prompt: the event's branch goes on to ask for the *)
(* requisites and sets their state; the topic and the requisites have no   *)
(* branch, so the chat shows nothing new and the old prompt is deleted.    *)
ShowSplitBillStepPrompt(step) ==
    CASE step = "source_event" -> Ask("transfer_target")
      [] step \in {"target_topic", "transfer_target"} -> state' = step /\ screen' = Notice
      [] OTHER -> Ask(step)

SplitBillBack ==
    /\ state \in BillStates \ {"bill_title"}
    /\ ShowSplitBillStepPrompt(PreviousBillStep[state])
    /\ UNCHANGED <<has, own>> /\ Elsewhere

BillWizardNext ==
    \/ StartSplitBillWizard \/ SplitBillTitle \/ SplitBillAmount \/ SplitBillSourceEvent
    \/ SplitBillTopic \/ SplitBillTransferTargetValue \/ SplitBillBankSelect
    \/ SplitBillBankCustom \/ SplitBillRecipientName \/ FinalizeSplitBill \/ SplitBillBack
=============================================================================
