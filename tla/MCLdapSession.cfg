\* A closed connection, or a client with nothing more to send, may stop.
CHECK_DEADLOCK FALSE
SPECIFICATION Spec
CONSTANTS
    Users = {alice}
    MaxRequests = 5
    MaxInFlight = 3
INVARIANTS
    ResponsesReadable
    SndSeqAdvancesUnlessRebound
    NoPlaintextAfterTls
PROPERTIES
    ExchangeUnbroken
