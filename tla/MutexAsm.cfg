SPECIFICATION FairSpec
CONSTANT
    Processors = {p1, p2}
PROPERTY
    ExchangeEndsLoop
