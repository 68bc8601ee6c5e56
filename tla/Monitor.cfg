\* A fiber and two native threads share one mutex and one condition.
SPECIFICATION MonFairSpec
CONSTANTS
    Fibers = {f1}
    Natives = {n1, n2}
    MaxTokens = 2
    Nobody = Nobody
INVARIANTS
    NoStrandedConsumer
PROPERTY ConsumerIsWoken
\* Consumers may all wait for a token that nobody produces.
CHECK_DEADLOCK FALSE
