SPECIFICATION FairSpec
CONSTANTS
    Flows <- MCFlows
    AuthFlows <- MCAuthFlows
    CorsFlows <- MCCorsFlows
    Answers <- MCAnswers
    StreamStatuses = {200, 500}
INVARIANTS TypeOK AnsweredOnce HonestStatus StatusAgreed DataFromRightUpstream DocumentedStatus
PROPERTY RequestAnswered
