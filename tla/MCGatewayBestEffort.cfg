SPECIFICATION Spec
CONSTANTS
    Flows <- MCFlows
    AuthFlows <- MCAuthFlows
    CorsFlows <- MCCorsFlows
    Answers <- MCAnswers
    StreamStatuses = {200}
INVARIANT BestEffortDelivers
