\* pthread_create() fails and module_destroy() joins the p->t it left.
CONSTANTS
    Reqs = {r1, r2}
    NoId = NoId
    Errnos <- MC_Errnos
    ECONNRESET <- MC_ECONNRESET
    Failures <- StartFails
SPECIFICATION Spec
INVARIANT
    BrokerSurvivesDestroy
