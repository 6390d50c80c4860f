------------------------------ MODULE DFS_LRY ------------------------------
(***************************************************************************)
(* The frequency scaling machine with retention (engy/DFS_LRY.cc).  One    *)
(* call of update moves at most one level, so the level may lag behind the *)
(* energy.  Levels are numbered: -1 for INIT, 0 POWEROFF, 1 RETENTION, and *)
(* k + 1 for FREQk; FREQto(i, j) is the message FREQitoj.                  *)
(***************************************************************************)
EXTENDS Integers, Sequences

CONSTANTS thres_down,             \* thres_down[k]: FREQk to FREQ(k-1), k in 2 .. 5
          thres_up,               \* thres_up[k]: FREQk to FREQ(k+1), k in 1 .. 4
          thres_1_to_retention, thres_retention_to_off,
          thres_off_to_1, thres_retention_to_1

STATE_INIT == -1
STATE_POWEROFF == 0
STATE_RETENTION == 1
FREQ(k) == k + 1

State == STATE_INIT .. FREQ(5)

POWEROFF == <<"POWEROFF">>
POWERON == <<"POWERON">>
RETENTION_BEG == <<"RETENTION_BEG">>
RETENTION_END == <<"RETENTION_END">>
FREQto(i, j) == <<"FREQ", i, j>>

MsgType == {POWEROFF, POWERON, RETENTION_BEG, RETENTION_END}
           \cup {FREQto(k, k + 1) : k \in 1 .. 4} \cup {FREQto(k, k - 1) : k \in 2 .. 5}

\* Each level has a way up and a way down, at or below and above a threshold.
DFSThresAssumption ==
    /\ thres_down \in [2 .. 5 -> Nat] /\ thres_up \in [1 .. 4 -> Nat]
    /\ thres_1_to_retention \in Nat \ {0} /\ thres_retention_to_off \in Nat
    /\ thres_off_to_1 \in Nat /\ thres_retention_to_1 \in Nat
    /\ thres_1_to_retention <= thres_retention_to_1
    /\ thres_1_to_retention <= thres_off_to_1
    /\ \A k \in 1 .. 4 : thres_down[k + 1] <= thres_up[k]

StartState == STATE_INIT
energy_consume_lower_bound == thres_1_to_retention - 1

\* init() announces POWEROFF, whatever came before.
InitState == STATE_POWEROFF
InitMsg == POWEROFF

Slower(state, energy) ==
    \E k \in 2 .. 5 : state = FREQ(k) /\ energy <= thres_down[k]

\* Mutant of Faster: it compares with the threshold of the way down.
FasterNoHysteresis(state, energy) ==
    \E k \in 1 .. 4 : state = FREQ(k) /\ energy >= thres_down[k + 1]

Faster(state, energy) ==
    \E k \in 1 .. 4 : state = FREQ(k) /\ energy > thres_up[k]

\* The first of the code's conditions that holds names the next level.
NextLevel(state, energy) ==
    IF state = STATE_INIT THEN STATE_POWEROFF
    ELSE IF Slower(state, energy) THEN state - 1
    ELSE IF Faster(state, energy) THEN state + 1
    ELSE IF state = FREQ(1) /\ energy <= thres_1_to_retention THEN STATE_RETENTION
    ELSE IF state = STATE_RETENTION /\ energy > thres_retention_to_1 THEN FREQ(1)
    ELSE IF state = STATE_POWEROFF /\ energy > thres_off_to_1 THEN FREQ(1)
    ELSE IF state = STATE_RETENTION /\ energy <= thres_retention_to_off THEN STATE_POWEROFF
    ELSE state

\* The message sent on a change of level; leaving INIT is silent.
MsgFor(from, to) ==
    IF to = STATE_POWEROFF THEN POWEROFF
    ELSE IF from = STATE_POWEROFF THEN POWERON
    ELSE IF to = STATE_RETENTION THEN RETENTION_BEG
    ELSE IF from = STATE_RETENTION THEN RETENTION_END
    ELSE FREQto(from - 1, to - 1)

update(state, energy) ==
    LET to == NextLevel(state, energy)
    IN  [state |-> to,
         msgs |-> IF to = state \/ state = STATE_INIT THEN <<>> ELSE <<MsgFor(state, to)>>]

\* DFS_LRY_poweron_dirty_patch: set when power comes on, cleared when it goes.
DirtyPatch(state) == state >= STATE_RETENTION
=============================================================================
