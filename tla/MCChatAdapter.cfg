SPECIFICATION ChatSpec
CONSTANTS
    Texts = {1, 2}
    Pick = {3}
    Risky = {1}
    Request = {1}
    Press = {1, 2}
    MaxChoice = 2
    MaxHistory = 3
    NoText = NoText
CHECK_DEADLOCK FALSE
INVARIANTS OutcomeIsLastWord HistoryIsTurns PressMeansLabel
PROPERTIES DecisionsTakeEffect 
