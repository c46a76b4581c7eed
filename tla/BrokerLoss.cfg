SPECIFICATION Spec
CONSTANTS
    Digits <- MCDigits
    Words <- MCWords
PROPERTIES
    BrokerLossRestarted
