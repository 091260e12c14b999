CONSTANTS
 InputKeys = {"0","1","2","3","4","text"}
 Flows <- ByHandFlows
 MaxBack = 4
SPECIFICATION FlowSpec
INVARIANT AsksForWhatItTakes
