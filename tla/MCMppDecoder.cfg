SPECIFICATION FairSpec
CONSTANTS
    Count = 3
    InputTasks = 2
    MaxDecode = 5
INVARIANTS  LifetimeUntilDisturbed AnswersMatchUntilTimeout DeliveredInOrder
 
CHECK_DEADLOCK FALSE
