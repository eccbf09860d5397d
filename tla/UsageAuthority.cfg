\* Three connectors of one system, so that two can race for a third one's authority.
SPECIFICATION Spec
CONSTANTS
    Helpers = {1, 2, 3}
    None = None
    Ingest = Ingest
INVARIANTS
    TypeOK
    OneApplies
    OneHolder
    NoUsageDeadlock
PROPERTIES
    ImplementsRule
