------------------------------ MODULE Timeout ------------------------------
(***************************************************************************)
(* Timeout control of LuaSocket (timeout.c) and the conversion of a        *)
(* timeout into the argument of poll (usocket.c).                          *)
(*                                                                         *)
(* Time is counted in ticks.  The code keeps seconds in doubles and hands  *)
(* poll whole milliseconds in an int: Ms is the number of ticks in a       *)
(* millisecond and IntMax stands for INT_MAX.  A negative value means "no  *)
(* limit" everywhere.                                                      *)
(***************************************************************************)
EXTENDS Integers

CONSTANTS
    Ms,      \* ticks per millisecond, the resolution of poll
    IntMax   \* the largest number of milliseconds that fits poll's int

ASSUME MsAssumption     == Ms \in Nat \ {0}
ASSUME IntMaxAssumption == IntMax \in Nat

MIN(x, y) == IF x < y THEN x ELSE y
MAX(x, y) == IF x > y THEN x ELSE y

Forever == -1

\* struct t_timeout_
TimeoutRecord == [block : Int, total : Int, start : Int]

timeout_init(block, total) == [block |-> block, total |-> total, start |-> 0]

timeout_markstart(tm, now) == [tm EXCEPT !.start = now]

\* settimeout(value, mode): mode "b" is the default, "r" is a synonym of "t"
timeout_meth_settimeout(tm, value, mode) ==
    IF mode = "b" THEN [tm EXCEPT !.block = value] ELSE [tm EXCEPT !.total = value]

\* Time left for a first system call: the block limit is taken whole.
timeout_get(tm, now) ==
    LET left == MAX(tm.total - now + tm.start, 0) IN
    IF tm.total < 0 THEN IF tm.block < 0 THEN Forever ELSE tm.block
    ELSE IF tm.block < 0 THEN left ELSE MIN(tm.block, left)

\* The retry that forgets how much of the block limit is already spent.
timeout_getretry_whole_block(tm, now) == timeout_get(tm, now)

\* Time left for the next system call after one that failed: a block limit
\* alone is measured from the start of the operation, a block limit next to a
\* total limit is taken whole.
timeout_getretry(tm, now) ==
    IF tm.block >= 0 /\ tm.total < 0
    THEN MAX(tm.block - now + tm.start, 0)
    ELSE timeout_get(tm, now)

\* Only the block limit counts.
timeout_iszero(tm) == tm.block = 0

\* A limit that has been reached is taken for no limit.
PollWaits_zero_forever(t) == IF t <= 0 THEN {Forever} ELSE {(t \div Ms) * Ms}

(***************************************************************************)
(* How long poll waits, in ticks, when asked to wait t: the cast to int    *)
(* drops the fraction of a millisecond and, past INT_MAX, is undefined:    *)
(* the compilers in use yield INT_MIN, which the code turns into -1, or    *)
(* INT_MAX.                                                                *)
(***************************************************************************)
PollWaits(t) ==
    IF t < 0 THEN {Forever}
    ELSE IF t \div Ms <= IntMax THEN {(t \div Ms) * Ms}
    ELSE {Forever, IntMax * Ms}

\* When a poll entered at time now with the time left by timeout_getretry
\* gives up, Forever if it does not.
Wakes(tm, now) ==
    {IF w = Forever THEN Forever ELSE now + w : w \in PollWaits(timeout_getretry(tm, now))}
=============================================================================
