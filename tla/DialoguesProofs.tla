---------------------------- MODULE DialoguesProofs ----------------------------
(***************************************************************************)
(* Proofs about Dialogues, for any events and any number of layers: the    *)
(* types, and each safety property the run checks.                         *)
(*                                                                         *)
(* A question counts as answered from the step after it on (EventProgress, *)
(* BillProgress), and a period stands as it was answered from the duration *)
(* on (PeriodProgress): these hold at every step of a dialogue, not only   *)
(* at its end, so that no step back, no command and no other dialogue      *)
(* over the same row can lead around them.                                 *)
(***************************************************************************)
EXTENDS Dialogues, TLAPS

AfterPeriod == AfterDate \ {"period_mode", "period_end_date", "period_end_time"}

(* The row carries no mark of another dialogue. *)
Unmixed == "from_copy" \in has => dialogue = "copy"

EventProgress ==
    /\ dialogue = "copy" => CopiedAnswers \subseteq own
    /\ Unmixed =>
         /\ state \in EventStates \ {"title"} => "title" \in own
         /\ state \in AfterDate => "date" \in own
         /\ state \in AfterPeriod => "period" \in own
         /\ state \in AfterPeriod \ {"duration", "duration_unit"} => "duration" \in own
         /\ state \in {"limit", "carpool", "responsible", "thread", "category", "preview"}
              => "price" \in own
         /\ state \in {"thread", "category", "preview"} => "responsible" \in own
         /\ state \in {"category", "preview"} => "thread" \in own
         /\ state = "preview" => "categories" \in own

BillProgress ==
    /\ state \in BillStates \ {"bill_title"} => "title" \in own
    /\ state \in BillStates \ {"bill_title", "amount"} => "amount" \in own
    /\ state \in BillStates \ {"bill_title", "amount", "source_event"} => "source_event" \in own
    /\ state \in {"transfer_bank", "transfer_bank_custom", "transfer_recipient_name"}
         => "transfer_target" \in own
    /\ state = "transfer_recipient_name" => "bank" \in own

PeriodProgress ==
    "from_copy" \notin has =>
        /\ "period_end" \in has => "period_end_date" \in has
        /\ state \in AfterPeriod => /\ "period_end" \in has <=> OneDay \notin own
                                    /\ "period_past" \notin has

Progress == EventProgress /\ BillProgress /\ PeriodProgress
OnScreen == AskedIsExpected /\ TypedLandsWhereAsked
IInv == AnswersReady /\ Progress /\ OnScreen

-----------------------------------------------------------------------------
(* The steps, written out. *)
LEMMA EventStatesListed ==
    EventStates = {"title", "description", "date", "time", "period_mode", "period_end_date",
                   "period_end_time", "duration", "duration_unit", "location", "link",
                   "price_mode", "price", "limit", "carpool", "responsible", "thread",
                   "category", "preview"}
  BY DEF EventStates, EventSteps

LEMMA BillStatesListed ==
    BillStates = {"bill_title", "amount", "source_event", "target_topic", "transfer_target",
                  "transfer_bank", "transfer_bank_custom", "transfer_recipient_name"}
  BY DEF BillStates, BillSteps

(* Each question has one place in its dialogue. *)
LEMMA EventPositions ==
    /\ Position(EventSteps, "title") = 1 /\ Position(EventSteps, "description") = 2
    /\ Position(EventSteps, "date") = 3 /\ Position(EventSteps, "time") = 4
    /\ Position(EventSteps, "period_mode") = 5 /\ Position(EventSteps, "period_end_date") = 6
    /\ Position(EventSteps, "period_end_time") = 7 /\ Position(EventSteps, "duration") = 8
    /\ Position(EventSteps, "duration_unit") = 9 /\ Position(EventSteps, "location") = 10
    /\ Position(EventSteps, "link") = 11 /\ Position(EventSteps, "price_mode") = 12
    /\ Position(EventSteps, "price") = 13 /\ Position(EventSteps, "limit") = 14
    /\ Position(EventSteps, "carpool") = 15 /\ Position(EventSteps, "responsible") = 16
    /\ Position(EventSteps, "thread") = 17 /\ Position(EventSteps, "category") = 18
    /\ Position(EventSteps, "preview") = 19
  <1>1. DOMAIN EventSteps = 1..19
    BY DEF EventSteps
  <1>2. ASSUME NEW i \in 1..19 PROVE Position(EventSteps, EventSteps[i]) = i
    <2>1. \A k \in 1..19 : EventSteps[k] = EventSteps[i] => k = i
      BY DEF EventSteps
    <2> QED
      BY <1>1, <2>1 DEF Position
  <1> QED
    BY <1>2 DEF EventSteps

LEMMA BillPositions ==
    /\ Position(BillSteps, "bill_title") = 1 /\ Position(BillSteps, "amount") = 2
    /\ Position(BillSteps, "source_event") = 3 /\ Position(BillSteps, "target_topic") = 4
    /\ Position(BillSteps, "transfer_target") = 5 /\ Position(BillSteps, "transfer_bank") = 6
    /\ Position(BillSteps, "transfer_bank_custom") = 7 /\ Position(BillSteps, "transfer_recipient_name") = 8
  <1>1. DOMAIN BillSteps = 1..8
    BY DEF BillSteps
  <1>2. ASSUME NEW i \in 1..8 PROVE Position(BillSteps, BillSteps[i]) = i
    <2>1. \A k \in 1..8 : BillSteps[k] = BillSteps[i] => k = i
      BY DEF BillSteps
    <2> QED
      BY <1>1, <2>1 DEF Position
  <1> QED
    BY <1>2 DEF BillSteps

(* A step back is one in the list, but for the four that jump over a branch. *)
LEMMA PreviousStepListed ==
    /\ PreviousStep["description"] = "title" /\ PreviousStep["date"] = "description"
    /\ PreviousStep["time"] = "date" /\ PreviousStep["period_mode"] = "time"
    /\ PreviousStep["period_end_date"] = "period_mode" /\ PreviousStep["period_end_time"] = "period_end_date"
    /\ PreviousStep["duration_unit"] = "duration" /\ PreviousStep["location"] = "duration"
    /\ PreviousStep["link"] = "location" /\ PreviousStep["price_mode"] = "link"
    /\ PreviousStep["price"] = "price_mode" /\ PreviousStep["limit"] = "price_mode"
    /\ PreviousStep["carpool"] = "limit" /\ PreviousStep["responsible"] = "carpool"
    /\ PreviousStep["thread"] = "responsible" /\ PreviousStep["preview"] = "category"
    /\ PreviousStep["duration"] = IF "period_end" \in has THEN "period_end_time" ELSE "period_mode"
    /\ PreviousStep["category"] = IF "thread_step_shown" \in has THEN "thread" ELSE "responsible"
  <1>1. \A s \in EventStates \ {"title", "duration", "location", "limit", "category"} :
           PreviousStep[s] = EventSteps[Position(EventSteps, s) - 1]
    BY DEF PreviousStep
  <1> QED
    BY <1>1, EventPositions, EventStatesListed DEF PreviousStep, EventSteps

-----------------------------------------------------------------------------
(* A question, and the notice that asks nothing, are screens. *)
LEMMA QuestionTyped ==
    ASSUME NEW step \in EventStates \union BillStates \union EditScreens \union {"notice"}
    PROVE  Question(step) \in Screens
  BY DEF Question, Screen, Screens

LEMMA PromptTyped ==
    ASSUME NEW k \in {"value_prompt", "category_prompt"}, NEW e \in Events \union {NoEvent},
           NEW f \in Fields \union {NoField}
    PROVE  Screen(k, e, f) \in Screens
  BY DEF Screen, Screens, EditScreens

LEMMA StatesTyped ==
    /\ EventStates \subseteq States /\ BillStates \subseteq States /\ EditSteps \subseteq States
    /\ "none" \in States
  BY DEF States

(* The step asked for is a step of a wizard. *)
LEMMA AskTyped ==
    ASSUME NEW step \in EventStates \union BillStates, Ask(step)
    PROVE  state' \in States /\ screen' \in Screens
  BY QuestionTyped, StatesTyped DEF Ask

LEMMA LayersTyped ==
    ASSUME TypeOK
    PROVE  /\ 0 \in 0..MaxLayers /\ 1 \in 0..MaxLayers
           /\ layers < MaxLayers => layers + 1 \in 0..MaxLayers
  BY FsmAssumption DEF TypeOK

(* Every answer in the event wizard, and its publication. *)
LEMMA EventStepsTyped ==
    ASSUME TypeOK, EventWizardNext, ~EventBack
    PROVE  TypeOK'
  <1> USE AskTyped, QuestionTyped, StatesTyped, LayersTyped, EventStatesListed, BillStatesListed
      DEF TypeOK, CopiedAnswers, OneDay, Keys, EventQuestions, BillQuestions, Kinds, Notice, row,
          UpdateData, StartDialogue, Answered, Elsewhere, Clear, Abandon
  <1>1. CASE StartCreateEventWizard
    BY <1>1 DEF StartCreateEventWizard
  <1>2. CASE QuickEventTemplate
    BY <1>2 DEF QuickEventTemplate, TemplateKeys
  <1>3. CASE StartCopyEventWizard
    BY <1>3 DEF StartCopyEventWizard, CopiedAnswers, PeriodKeys
  <1>4. CASE ProcessTitle
    BY <1>4 DEF ProcessTitle
  <1>5. CASE ProcessDescription
    BY <1>5 DEF ProcessDescription
  <1>6. CASE ProcessDate
    BY <1>6 DEF ProcessDate
  <1>7. CASE QuickDatetime
    BY <1>7 DEF QuickDatetime, AdvanceAfterDatetime, PeriodKeys
  <1>8. CASE ProcessTime
    BY <1>8 DEF ProcessTime, AdvanceAfterDatetime, PeriodKeys
  <1>9. CASE ProcessPeriodMode
    BY <1>9 DEF ProcessPeriodMode, PeriodKeys
  <1>10. CASE ProcessPeriodEndDate
    BY <1>10 DEF ProcessPeriodEndDate
  <1>11. CASE FinishPeriodEnd
    BY <1>11 DEF FinishPeriodEnd
  <1>12. CASE ProcessDuration
    BY <1>12 DEF ProcessDuration, AdvanceAfterDuration
  <1>13. CASE ProcessDurationUnit
    BY <1>13 DEF ProcessDurationUnit, AdvanceAfterDuration
  <1>14. CASE ProcessLocation
    BY <1>14 DEF ProcessLocation
  <1>15. CASE ProcessLink
    BY <1>15 DEF ProcessLink
  <1>16. CASE ProcessPriceMode
    BY <1>16 DEF ProcessPriceMode
  <1>17. CASE ProcessPrice
    BY <1>17 DEF ProcessPrice
  <1>18. CASE ProcessLimit
    BY <1>18 DEF ProcessLimit
  <1>19. CASE ProcessCarpoolChoice
    BY <1>19 DEF ProcessCarpoolChoice
  <1>20. CASE ChooseResponsible
    BY <1>20 DEF ChooseResponsible, AdvanceAfterResponsible, CanBuildPayload
  <1>21. CASE ProcessTopic
    BY <1>21 DEF ProcessTopic, CanBuildPayload
  <1>22. CASE ToggleCategory
    BY <1>22 DEF ToggleCategory
  <1>23. CASE FinishCategories
    BY <1>23 DEF FinishCategories, CanBuildPayload
  <1>24. CASE PublishPreviewedEvent
    BY <1>24 DEF PublishPreviewedEvent
  <1>25. CASE FinalizeEventCreation
    BY <1>25 DEF FinalizeEventCreation
  <1> QED
    BY <1>1, <1>2, <1>3, <1>4, <1>5, <1>6, <1>7, <1>8, <1>9, <1>10, <1>11, <1>12, <1>13,
       <1>14, <1>15, <1>16, <1>17, <1>18, <1>19, <1>20, <1>21, <1>22, <1>23, <1>24, <1>25
       DEF EventWizardNext

(* The step back sets a step of the wizard and shows its question. *)
LEMMA EventBackAsks ==
    ASSUME EventBack
    PROVE  \E step \in EventStates : Ask(step)
  <1>1. state \in EventStates \ {"title"} /\ ShowEventStepPrompt(PreviousStep[state])
    BY DEF EventBack
  <1>2. PreviousStep[state] \in EventStates
    BY <1>1, PreviousStepListed, EventStatesListed
  <1> QED
    BY <1>1, <1>2, EventStatesListed DEF ShowEventStepPrompt

LEMMA EventBackTyped ==
    ASSUME TypeOK, EventBack
    PROVE  TypeOK'
  BY EventBackAsks, AskTyped DEF EventBack, Elsewhere, TypeOK

LEMMA BillStepsTyped ==
    ASSUME TypeOK, BillWizardNext
    PROVE  TypeOK'
  <1> USE AskTyped, QuestionTyped, StatesTyped, LayersTyped, EventStatesListed, BillStatesListed
      DEF TypeOK, CopiedAnswers, OneDay, Keys, EventQuestions, BillQuestions, Kinds, Notice, row,
          UpdateData, StartDialogue, Answered, Elsewhere, Clear, Abandon
  <1>1. CASE StartSplitBillWizard
    BY <1>1 DEF StartSplitBillWizard
  <1>2. CASE SplitBillTitle
    BY <1>2 DEF SplitBillTitle
  <1>3. CASE SplitBillAmount
    BY <1>3 DEF SplitBillAmount
  <1>4. CASE SplitBillSourceEvent
    BY <1>4 DEF SplitBillSourceEvent, AskSplitBillTopic
  <1>5. CASE SplitBillTopic
    BY <1>5 DEF SplitBillTopic
  <1>6. CASE SplitBillTransferTargetValue
    BY <1>6 DEF SplitBillTransferTargetValue
  <1>7. CASE SplitBillBankSelect
    BY <1>7 DEF SplitBillBankSelect
  <1>8. CASE SplitBillBankCustom
    BY <1>8 DEF SplitBillBankCustom
  <1>9. CASE SplitBillRecipientName
    BY <1>9 DEF SplitBillRecipientName
  <1>10. CASE FinalizeSplitBill
    BY <1>10 DEF FinalizeSplitBill
  <1>11. CASE SplitBillBack
    BY <1>11 DEF SplitBillBack, PreviousBillStep, ShowSplitBillStepPrompt
  <1> QED
    BY <1>1, <1>2, <1>3, <1>4, <1>5, <1>6, <1>7, <1>8, <1>9, <1>10, <1>11
       DEF BillWizardNext

LEMMA EditStepsTyped ==
    ASSUME TypeOK, EventEditNext
    PROVE  TypeOK'
  <1> USE PromptTyped, QuestionTyped, StatesTyped, LayersTyped, EventStatesListed, BillStatesListed
      DEF TypeOK, CopiedAnswers, OneDay, Keys, EventQuestions, BillQuestions, Kinds, Notice, row,
          UpdateData, StartDialogue, Answered, Elsewhere, Clear, Abandon, TakeUp, EditSteps, EditScreens
  <1>1. ASSUME NEW e \in Events, ManageEditEvent(e) PROVE TypeOK'
    BY <1>1 DEF ManageEditEvent, Unsent, ShowEditMenu
  <1>2. ASSUME NEW e \in Events, CmdEditEvent(e) PROVE TypeOK'
    <2>1. CASE state \in EventStates \union BillStates
      BY <1>2, <2>1 DEF CmdEditEvent, Unsent, ShowEditMenu
    <2>2. CASE state \notin EventStates \union BillStates
      <3>1. TakeUp(e) /\ UpdateData({}, {"edit_selected_categories"}) /\ ShowEditMenu
            /\ UNCHANGED <<state, own, dialogue, field, sending, topics>>
        BY <1>2, <2>2 DEF CmdEditEvent, Unsent
      <3> QED
        BY <3>1 DEF ShowEditMenu
    <2> QED
      BY <2>1, <2>2
  <1>3. ASSUME NEW e \in Events, EditPickCategory(e) PROVE TypeOK'
    BY <1>3 DEF EditPickCategory, Unsent
  <1>4. ASSUME NEW e \in Events, NEW f \in Fields, StartEditField(e, f) PROVE TypeOK'
    BY <1>4 DEF StartEditField, Unsent
  <1>5. CASE EditBackToMenu
    BY <1>5 DEF EditBackToMenu, Unsent, ShowEditMenu
  <1>6. CASE EditPickChoice
    BY <1>6 DEF EditPickChoice, Unsent, ShowEditMenu
  <1>7. CASE EditDone
    BY <1>7 DEF EditDone, Unsent
  <1>8. CASE EditApplyValue
    BY <1>8 DEF EditApplyValue, Unsent, ShowEditMenu
  <1>9. CASE EditDurationUnit
    BY <1>9 DEF EditDurationUnit, Unsent, ShowEditMenu
  <1>10. CASE EditToggleCategory
    BY <1>10 DEF EditToggleCategory, Unsent
  <1>11. CASE EditCategoryBack
    BY <1>11 DEF EditCategoryBack, Unsent
  <1>12. CASE EditFinishCategories
    BY <1>12 DEF EditFinishCategories, Unsent, ShowEditMenu
  <1> QED
    BY <1>1, <1>2, <1>3, <1>4, <1>5, <1>6, <1>7, <1>8, <1>9, <1>10, <1>11, <1>12
       DEF EventEditNext

LEMMA OtherStepsTyped ==
    ASSUME TypeOK, CancelCreate \/ OtherCommand \/ CleanupStaleFsmStates \/ Restart
    PROVE  TypeOK'
  <1> USE AskTyped, QuestionTyped, StatesTyped, LayersTyped, EventStatesListed, BillStatesListed
      DEF TypeOK, CopiedAnswers, OneDay, Keys, EventQuestions, BillQuestions, Kinds, Notice, row,
          UpdateData, StartDialogue, Answered, Elsewhere, Clear, Abandon
  <1>1. CASE CancelCreate
    BY <1>1 DEF CancelCreate
  <1>2. CASE OtherCommand
    BY <1>2 DEF OtherCommand, ClearActiveScenarioIfNeeded
  <1>3. CASE CleanupStaleFsmStates
    BY <1>3 DEF CleanupStaleFsmStates
  <1>4. CASE Restart
    BY <1>4 DEF Restart
  <1> QED
    BY <1>1, <1>2, <1>3, <1>4

(* The row, the screen and the publication keep their types, in every mix of *)
(* the dialogues.                                                            *)
THEOREM TypeCorrect == Spec => []TypeOK
  <1>1. Init => TypeOK
    BY QuestionTyped, StatesTyped, LayersTyped, FsmAssumption DEF Init, TypeOK, Notice, Kinds
  <1>2. TypeOK /\ Next => TypeOK'
    BY EventStepsTyped, EventBackTyped, BillStepsTyped, EditStepsTyped, OtherStepsTyped DEF Next
  <1>3. TypeOK /\ UNCHANGED vars => TypeOK'
    BY DEF TypeOK, vars
  <1> QED
    BY <1>1, <1>2, <1>3, PTL DEF Spec

-----------------------------------------------------------------------------
(* Every answer in the event wizard, and its publication. *)
LEMMA EventStepsPreserve ==
    ASSUME IInv, EventWizardNext, ~EventBack
    PROVE  IInv'
  <1> USE EventStatesListed, BillStatesListed
      DEF IInv, AnswersReady, Progress, EventProgress, BillProgress, PeriodProgress,
          OnScreen, AskedIsExpected, TypedLandsWhereAsked, AfterDate, AfterPeriod, Unmixed,
          CopiedAnswers, OneDay, EditSteps, EditScreens, Screen, Question, Notice, row, Ask,
          UpdateData, StartDialogue, Answered, Elsewhere, Clear, Abandon, TakeUp
  <1>1. CASE StartCreateEventWizard
    BY <1>1 DEF StartCreateEventWizard
  <1>2. CASE QuickEventTemplate
    BY <1>2 DEF QuickEventTemplate, TemplateKeys
  <1>3. CASE StartCopyEventWizard
    BY <1>3 DEF StartCopyEventWizard, CopiedAnswers, PeriodKeys
  <1>4. CASE ProcessTitle
    BY <1>4 DEF ProcessTitle
  <1>5. CASE ProcessDescription
    BY <1>5 DEF ProcessDescription
  <1>6. CASE ProcessDate
    BY <1>6 DEF ProcessDate
  <1>7. CASE QuickDatetime
    BY <1>7 DEF QuickDatetime, AdvanceAfterDatetime, PeriodKeys
  <1>8. CASE ProcessTime
    BY <1>8 DEF ProcessTime, AdvanceAfterDatetime, PeriodKeys
  <1>9. CASE ProcessPeriodMode
    BY <1>9 DEF ProcessPeriodMode, PeriodKeys
  <1>10. CASE ProcessPeriodEndDate
    BY <1>10 DEF ProcessPeriodEndDate
  <1>11. CASE FinishPeriodEnd
    BY <1>11 DEF FinishPeriodEnd
  <1>12. CASE ProcessDuration
    BY <1>12 DEF ProcessDuration, AdvanceAfterDuration
  <1>13. CASE ProcessDurationUnit
    BY <1>13 DEF ProcessDurationUnit, AdvanceAfterDuration
  <1>14. CASE ProcessLocation
    BY <1>14 DEF ProcessLocation
  <1>15. CASE ProcessLink
    BY <1>15 DEF ProcessLink
  <1>16. CASE ProcessPriceMode
    BY <1>16 DEF ProcessPriceMode
  <1>17. CASE ProcessPrice
    BY <1>17 DEF ProcessPrice
  <1>18. CASE ProcessLimit
    BY <1>18 DEF ProcessLimit
  <1>19. CASE ProcessCarpoolChoice
    BY <1>19 DEF ProcessCarpoolChoice
  <1>20. CASE ChooseResponsible
    BY <1>20 DEF ChooseResponsible, AdvanceAfterResponsible, CanBuildPayload
  <1>21. CASE ProcessTopic
    BY <1>21 DEF ProcessTopic, CanBuildPayload
  <1>22. CASE ToggleCategory
    BY <1>22 DEF ToggleCategory
  <1>23. CASE FinishCategories
    BY <1>23 DEF FinishCategories, CanBuildPayload
  <1>24. CASE PublishPreviewedEvent
    BY <1>24 DEF PublishPreviewedEvent
  <1>25. CASE FinalizeEventCreation
    BY <1>25 DEF FinalizeEventCreation
  <1> QED
    BY <1>1, <1>2, <1>3, <1>4, <1>5, <1>6, <1>7, <1>8, <1>9, <1>10, <1>11, <1>12, <1>13,
       <1>14, <1>15, <1>16, <1>17, <1>18, <1>19, <1>20, <1>21, <1>22, <1>23, <1>24, <1>25
       DEF EventWizardNext

LEMMA BillStepsPreserve ==
    ASSUME IInv, BillWizardNext
    PROVE  IInv'
  <1> USE EventStatesListed, BillStatesListed
      DEF IInv, AnswersReady, Progress, EventProgress, BillProgress, PeriodProgress,
          OnScreen, AskedIsExpected, TypedLandsWhereAsked, AfterDate, AfterPeriod, Unmixed,
          CopiedAnswers, OneDay, EditSteps, EditScreens, Screen, Question, Notice, row, Ask,
          UpdateData, StartDialogue, Answered, Elsewhere, Clear, Abandon, TakeUp
  <1>1. CASE StartSplitBillWizard
    BY <1>1 DEF StartSplitBillWizard
  <1>2. CASE SplitBillTitle
    BY <1>2 DEF SplitBillTitle
  <1>3. CASE SplitBillAmount
    BY <1>3 DEF SplitBillAmount
  <1>4. CASE SplitBillSourceEvent
    BY <1>4 DEF SplitBillSourceEvent, AskSplitBillTopic
  <1>5. CASE SplitBillTopic
    BY <1>5 DEF SplitBillTopic
  <1>6. CASE SplitBillTransferTargetValue
    BY <1>6 DEF SplitBillTransferTargetValue
  <1>7. CASE SplitBillBankSelect
    BY <1>7 DEF SplitBillBankSelect
  <1>8. CASE SplitBillBankCustom
    BY <1>8 DEF SplitBillBankCustom
  <1>9. CASE SplitBillRecipientName
    BY <1>9 DEF SplitBillRecipientName
  <1>10. CASE FinalizeSplitBill
    BY <1>10 DEF FinalizeSplitBill
  <1>11. CASE SplitBillBack
    BY <1>11 DEF SplitBillBack, PreviousBillStep, ShowSplitBillStepPrompt
  <1> QED
    BY <1>1, <1>2, <1>3, <1>4, <1>5, <1>6, <1>7, <1>8, <1>9, <1>10, <1>11
       DEF BillWizardNext

LEMMA EditStepsPreserve ==
    ASSUME IInv, EventEditNext
    PROVE  IInv'
  <1> USE FsmAssumption, FieldsAssumption, EventStatesListed, BillStatesListed
      DEF IInv, AnswersReady, Progress, EventProgress, BillProgress, PeriodProgress,
          OnScreen, AskedIsExpected, TypedLandsWhereAsked, AfterDate, AfterPeriod, Unmixed,
          CopiedAnswers, OneDay, EditSteps, EditScreens, Screen, Question, Notice, row, Ask,
          UpdateData, StartDialogue, Answered, Elsewhere, Clear, Abandon, TakeUp
  <1>1. ASSUME NEW e \in Events, ManageEditEvent(e) PROVE IInv'
    <2>1. AnswersReady'
      BY <1>1 DEF ManageEditEvent, Unsent, ShowEditMenu
    <2>2. Progress'
      BY <1>1 DEF ManageEditEvent, Unsent, ShowEditMenu
    <2>3. OnScreen'
      BY <1>1 DEF ManageEditEvent, Unsent, ShowEditMenu
    <2> QED
      BY <2>1, <2>2, <2>3
  <1>2. ASSUME NEW e \in Events, CmdEditEvent(e) PROVE IInv'
    <2>1. AnswersReady'
      BY <1>2 DEF CmdEditEvent, Unsent, ShowEditMenu
    <2>2. Progress'
      BY <1>2 DEF CmdEditEvent, Unsent, ShowEditMenu
    <2>3. OnScreen'
      BY <1>2 DEF CmdEditEvent, Unsent, ShowEditMenu
    <2> QED
      BY <2>1, <2>2, <2>3
  <1>3. ASSUME NEW e \in Events, EditPickCategory(e) PROVE IInv'
    <2>1. AnswersReady'
      BY <1>3 DEF EditPickCategory, Unsent
    <2>2. Progress'
      BY <1>3 DEF EditPickCategory, Unsent
    <2>3. OnScreen'
      BY <1>3 DEF EditPickCategory, Unsent
    <2> QED
      BY <2>1, <2>2, <2>3
  <1>4. ASSUME NEW e \in Events, NEW f \in Fields, StartEditField(e, f) PROVE IInv'
    <2>1. AnswersReady'
      BY <1>4 DEF StartEditField, Unsent
    <2>2. Progress'
      BY <1>4 DEF StartEditField, Unsent
    <2>3. OnScreen'
      BY <1>4 DEF StartEditField, Unsent
    <2> QED
      BY <2>1, <2>2, <2>3
  <1>5. CASE EditBackToMenu
    BY <1>5 DEF EditBackToMenu, Unsent, ShowEditMenu
  <1>6. CASE EditPickChoice
    BY <1>6 DEF EditPickChoice, Unsent, ShowEditMenu
  <1>7. CASE EditDone
    BY <1>7 DEF EditDone, Unsent
  <1>8. CASE EditApplyValue
    BY <1>8 DEF EditApplyValue, Unsent, ShowEditMenu
  <1>9. CASE EditDurationUnit
    BY <1>9 DEF EditDurationUnit, Unsent, ShowEditMenu
  <1>10. CASE EditToggleCategory
    BY <1>10 DEF EditToggleCategory, Unsent
  <1>11. CASE EditCategoryBack
    BY <1>11 DEF EditCategoryBack, Unsent
  <1>12. CASE EditFinishCategories
    BY <1>12 DEF EditFinishCategories, Unsent, ShowEditMenu
  <1> QED
    BY <1>1, <1>2, <1>3, <1>4, <1>5, <1>6, <1>7, <1>8, <1>9, <1>10, <1>11, <1>12
       DEF EventEditNext

LEMMA OtherStepsPreserve ==
    ASSUME IInv, CancelCreate \/ OtherCommand \/ CleanupStaleFsmStates \/ Restart
    PROVE  IInv'
  <1> USE EventStatesListed, BillStatesListed
      DEF IInv, AnswersReady, Progress, EventProgress, BillProgress, PeriodProgress,
          OnScreen, AskedIsExpected, TypedLandsWhereAsked, AfterDate, AfterPeriod, Unmixed,
          CopiedAnswers, OneDay, EditSteps, EditScreens, Screen, Question, Notice, row, Ask,
          UpdateData, StartDialogue, Answered, Elsewhere, Clear, Abandon, TakeUp
  <1>1. CASE CancelCreate
    BY <1>1 DEF CancelCreate
  <1>2. CASE OtherCommand
    BY <1>2 DEF OtherCommand, ClearActiveScenarioIfNeeded
  <1>3. CASE CleanupStaleFsmStates
    BY <1>3 DEF CleanupStaleFsmStates
  <1>4. CASE Restart
    BY <1>4 DEF Restart
  <1> QED
    BY <1>1, <1>2, <1>3, <1>4

-----------------------------------------------------------------------------
(* A step back leads to a step no question further, and from none that comes *)
(* before the date, the period or the preview to one that comes after.       *)
LEMMA BackListed ==
    ASSUME EventBack
    PROVE  /\ state' \in EventStates \ {"preview"} /\ state \in EventStates \ {"title"}
           /\ state \notin AfterDate => state' \notin AfterDate
           /\ state' \in AfterPeriod => state \in AfterPeriod
           /\ state' \in AfterPeriod \ {"duration", "duration_unit"}
                => state \in AfterPeriod \ {"duration", "duration_unit"}
           /\ state' \in {"limit", "carpool", "responsible", "thread", "category"}
                => state \in {"carpool", "responsible", "thread", "category", "preview"}
           /\ state' \in {"thread", "category"} => state \in {"category", "preview"}
           /\ state' = "period_end_time" => "period_end" \in has
           /\ Position(EventSteps, state') <= Position(EventSteps, state)
  <1>1. state \in EventStates \ {"title"} /\ ShowEventStepPrompt(PreviousStep[state])
    BY DEF EventBack
  <1>2. state' = IF PreviousStep[state] = "thread" /\ ~topics
                 THEN "category" ELSE PreviousStep[state]
    BY <1>1 DEF ShowEventStepPrompt, Ask
  <1> QED
    BY <1>1, <1>2, PreviousStepListed, EventPositions, EventStatesListed
       DEF AfterDate, AfterPeriod

LEMMA EventBackPreserves ==
    ASSUME IInv, EventBack
    PROVE  IInv'
  <1>1. UNCHANGED <<has, own, dialogue, layers, target, field>>
    BY DEF EventBack, Elsewhere
  <1>2. AnswersReady'
    BY <1>1, BackListed, EventStatesListed, BillStatesListed
       DEF IInv, AnswersReady, Progress, PeriodProgress, AfterDate
  <1>3. Progress'
    BY <1>1, BackListed, EventStatesListed, BillStatesListed
       DEF IInv, Progress, EventProgress, BillProgress, PeriodProgress, Unmixed, AfterDate,
           AfterPeriod
  <1>4. OnScreen'
    BY EventBackAsks, EventStatesListed
       DEF OnScreen, AskedIsExpected, TypedLandsWhereAsked, Ask, Question, Screen
  <1> QED
    BY <1>2, <1>3, <1>4 DEF IInv

(* The invariant holds initially and every step keeps it. *)
THEOREM InvariantHolds == Spec => []IInv
  <1>1. Init => IInv
    BY EventStatesListed, BillStatesListed
       DEF Init, IInv, AnswersReady, Progress, EventProgress, BillProgress, PeriodProgress,
           OnScreen, AskedIsExpected, TypedLandsWhereAsked, AfterDate, AfterPeriod
  <1>2. IInv /\ Next => IInv'
    BY EventStepsPreserve, EventBackPreserves, BillStepsPreserve, EditStepsPreserve,
       OtherStepsPreserve
       DEF Next
  <1>3. IInv /\ UNCHANGED vars => IInv'
    BY DEF IInv, AnswersReady, Progress, EventProgress, BillProgress, PeriodProgress, OnScreen,
           AskedIsExpected, TypedLandsWhereAsked, Unmixed, vars
  <1> QED
    BY <1>1, <1>2, <1>3, PTL DEF Spec

-----------------------------------------------------------------------------
(* A dialogue that goes on finds what its later steps and its publication    *)
(* index without a default: a KeyError ends none of its handlers.            *)
THEOREM AnswersAreReady == Spec => []AnswersReady
  BY InvariantHolds, PTL DEF IInv

(* What is published was answered in the dialogue that publishes it, but for *)
(* a row that still carries the from_copy mark of another one.               *)
THEOREM AnswersAreOwn == Spec => []OwnAnswers
  <1>1. IInv => OwnAnswers
    BY EventStatesListed, BillStatesListed
       DEF IInv, Progress, EventProgress, BillProgress, Unmixed, AfterDate, AfterPeriod,
           OwnAnswers, EventQuestions, BillQuestions
  <1> QED
    BY <1>1, InvariantHolds, PTL

(* An event that is no copy is published with the period last answered.      *)
THEOREM PeriodIsAsAnswered == Spec => []PeriodAsAnswered
  <1>1. IInv => PeriodAsAnswered
    BY EventStatesListed
       DEF IInv, Progress, PeriodProgress, PeriodAsAnswered, AfterDate, AfterPeriod
  <1> QED
    BY <1>1, InvariantHolds, PTL

(* The event wizard takes the next message for the question it shows.        *)
THEOREM AskedQuestionIsExpected == Spec => []AskedIsExpected
  BY InvariantHolds, PTL DEF IInv, OnScreen

(* A value typed for an edit lands in the event and field asked for.         *)
THEOREM TypedValueLandsWhereAsked == Spec => []TypedLandsWhereAsked
  BY InvariantHolds, PTL DEF IInv, OnScreen

(* "Step back" leads to no later question, but for the bill's topic.         *)
THEOREM BackNeverGoesOn == Spec => BackGoesBack
  <1>1. EventBack => Position(EventSteps, state') <= Position(EventSteps, state)
    BY BackListed
  <1>2. ASSUME SplitBillBack, state # "target_topic"
        PROVE  Position(BillSteps, state') < Position(BillSteps, state)
    <2>1. /\ state \in BillStates \ {"bill_title", "target_topic"}
          /\ ShowSplitBillStepPrompt(PreviousBillStep[state])
      BY <1>2 DEF SplitBillBack
    <2>2. state' = PreviousBillStep[state]
      BY <2>1, BillStatesListed DEF PreviousBillStep, ShowSplitBillStepPrompt, Ask
    <2> QED
      BY <2>1, <2>2, BillPositions, BillStatesListed DEF PreviousBillStep
  <1> QED
    BY <1>1, <1>2, PTL DEF Spec, BackGoesBack
=============================================================================
