SPECIFICATION Spec
CONSTANT Absent = Absent
CHECK_DEADLOCK FALSE
INVARIANTS
    InboundInOrder
    
    
    AnswersAreCurrent
