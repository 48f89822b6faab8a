\* New with a real Deployer and the heartbeat running, cancellation at any
\* point: the stage order and short-circuit.
CONSTANTS
    Verbose = FALSE
    NoopDeployer = FALSE
    MaxTicks = 2
SPECIFICATION Spec
CHECK_DEADLOCK FALSE
INVARIANT TypeOK
INVARIANT StagesInOrder
