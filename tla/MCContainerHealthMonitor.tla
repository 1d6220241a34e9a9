---------------------- MODULE MCContainerHealthMonitor ----------------------
\* The containers the runs of ContainerHealthMonitor look at.
EXTENDS ContainerHealthMonitor

Restarting == [restartPolicy |-> TRUE, fails |-> FALSE, healthCheck |-> FALSE, memoryLimit |-> FALSE, others |-> TRUE]
Checked == [restartPolicy |-> FALSE, fails |-> TRUE, healthCheck |-> TRUE, memoryLimit |-> FALSE, others |-> FALSE]
Limited == [restartPolicy |-> FALSE, fails |-> TRUE, healthCheck |-> FALSE, memoryLimit |-> TRUE, others |-> FALSE]

MCSetups == {Restarting, Checked, Limited}
=============================================================================
