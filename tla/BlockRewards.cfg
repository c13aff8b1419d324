\* Rewards at every checked height, walking up the chain.
CONSTANTS
    Heights <- MCHeights

SPECIFICATION Spec

INVARIANT RewardsMatchSchedule

\* The walk ends at the highest checked height.
CHECK_DEADLOCK FALSE
