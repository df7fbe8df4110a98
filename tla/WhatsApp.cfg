SPECIFICATION WhatsAppSpec
CONSTANTS
    m1 = m1
    a1 = a1
    a2 = a2
    Message = {m1}
    Deliveries <- Repeated
    Provider = "generic"
    AppSos = {a1, a2}
    SosLimit = 1
    FFMax = 1
    MaxFailures = 1
CHECK_DEADLOCK FALSE
INVARIANTS
    ToldIsSo
PROPERTIES
    EveryCallAnswered
    EverySendAttempted
