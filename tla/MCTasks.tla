------------------------------- MODULE MCTasks --------------------------------
EXTENDS Tasks

\* A configuration file holds no negative number.
MCKey == {-1, 0, 1, 3, 6}
=============================================================================
