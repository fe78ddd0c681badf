------------------------------ MODULE RunLoop ------------------------------
(***************************************************************************)
(* What run_frames and run_clocks promise a host, whatever the program:    *)
(* where a call stops and why, that breakpoints are honoured, and that it  *)
(* returns.  The program is abstracted to the next pc and the clocks of    *)
(* each instruction, the raster to the frames a number of clocks makes     *)
(* (Raster proves the scheduler exact), and an idle skip to the clocks it  *)
(* lets pass.  Console shows the machine implements this.                  *)
(***************************************************************************)
EXTENDS Integers, FiniteSets

CONSTANTS
    Pcs,           \* addresses the program runs through
    MaxCost,       \* the dearest instruction, in clocks
    FrameClocks,   \* clocks per frame are FrameClocks / ClocksDen
    ClocksDen,
    FrameCalls,    \* the n of run_frames(n)
    ClockCalls,    \* the n of run_clocks(n)
    MaxClocks      \* bound: clocks at which no more calls are made

ASSUME RunLoopAssumption ==
    /\ 0 \in Pcs
    /\ FrameClocks \in Nat \ {0} /\ ClocksDen \in Nat \ {0}
    /\ MaxCost \in Nat \ {0} /\ MaxCost * ClocksDen <= FrameClocks
    /\ FrameCalls \subseteq Nat /\ ClockCalls \subseteq Nat
    /\ MaxClocks \in Nat

VARIABLES
    pc,            \* address of the next instruction
    clocks,        \* clocks since reset
    breaks,        \* the breakpoint bitmap, as the set of its addresses
    nbreak,        \* how many breakpoints the machine believes there are
    fast,          \* the fast switch
    cov,           \* whether coverage is counted
    call,          \* the run in progress, or NoCall
    stop           \* why the last run returned and what its target was

vars == <<pc, clocks, breaks, nbreak, fast, cov, call, stop>>

NoCall == [kind |-> "none", target |-> 0, first |-> FALSE]
NoStop == [why |-> "none", target |-> 0]

\* Frames completed when c clocks have passed.
FramesAt(c) == (c * ClocksDen) \div FrameClocks

Init ==
    /\ pc = 0 /\ clocks = 0
    /\ breaks = {} /\ nbreak = 0
    /\ fast = TRUE /\ cov = FALSE
    /\ call = NoCall /\ stop = NoStop

Running == call # NoCall

-----------------------------------------------------------------------------
(* The host, between runs.                                                 *)

\* Faulty SetBreakpoint: counts without looking at what was set.
SetBreakpointBlind(p, enabled) ==
    /\ ~Running
    /\ breaks' = IF enabled THEN breaks \cup {p} ELSE breaks \ {p}
    /\ nbreak' = IF enabled THEN nbreak + 1 ELSE nbreak - 1
    /\ UNCHANGED <<pc, clocks, fast, cov, call, stop>>

SetBreakpoint(p, enabled) ==
    /\ ~Running
    /\ IF (p \in breaks) = enabled THEN UNCHANGED <<breaks, nbreak>>
       ELSE /\ breaks' = IF enabled THEN breaks \cup {p} ELSE breaks \ {p}
            /\ nbreak' = IF enabled THEN nbreak + 1 ELSE nbreak - 1
    /\ UNCHANGED <<pc, clocks, fast, cov, call, stop>>

ClearBreakpoints ==
    /\ ~Running
    /\ breaks' = {} /\ nbreak' = 0
    /\ UNCHANGED <<pc, clocks, fast, cov, call, stop>>

SetMode(f, c) ==
    /\ ~Running
    /\ fast' = f /\ cov' = c
    /\ UNCHANGED <<pc, clocks, breaks, nbreak, call, stop>>

Reset ==
    /\ ~Running
    /\ pc' = 0 /\ clocks' = 0 /\ stop' = NoStop
    /\ UNCHANGED <<breaks, nbreak, fast, cov, call>>

\* The host may also step the machine itself; breakpoints do not matter then.
Step(c) ==
    /\ ~Running
    /\ clocks < MaxClocks
    /\ pc' \in Pcs
    /\ clocks' = clocks + c
    /\ stop' = NoStop
    /\ UNCHANGED <<breaks, nbreak, fast, cov, call>>

Start(kind, target) ==
    /\ ~Running
    /\ clocks < MaxClocks
    /\ call' = [kind |-> kind, target |-> target, first |-> TRUE]
    /\ stop' = NoStop
    /\ UNCHANGED <<pc, clocks, breaks, nbreak, fast, cov>>

RunFrames(n) == Start("frames", FramesAt(clocks) + n)
RunClocks(n) == Start("clocks", clocks + n)

-----------------------------------------------------------------------------
(* A run.                                                                  *)

More(c) ==
    IF call.kind = "frames" THEN FramesAt(c) < call.target ELSE c < call.target

FastPath == nbreak = 0 /\ ~cov /\ fast
AtBreak == ~FastPath /\ ~call.first /\ pc \in breaks

Instruction ==
    /\ Running /\ More(clocks) /\ ~AtBreak
    /\ pc' \in Pcs
    /\ call' = [call EXCEPT !.first = FALSE]
    /\ UNCHANGED <<breaks, nbreak, fast, cov, stop>>

PlainTurn(c) ==
    /\ ~FastPath
    /\ Instruction
    /\ clocks' = clocks + c

\* Faulty Reach: skips past the clocks asked for.
ReachPastTarget(c) ==
    {c} \cup {t \in c .. c + FrameClocks \div ClocksDen :
                 More(c) /\ FramesAt(t) = FramesAt(c)}

\* Where an instruction ending at c, and the skip it may allow, can end: a skip
\* stays in its frame and within the clocks asked for.
Reach(c) ==
    {c} \cup {t \in c .. c + FrameClocks \div ClocksDen :
                 /\ More(c)
                 /\ FramesAt(t) = FramesAt(c)
                 /\ call.kind = "clocks" => t <= call.target}

FastTurn(c) ==
    /\ FastPath
    /\ Instruction
    /\ clocks' \in Reach(clocks + c)

ReturnDone ==
    /\ Running /\ ~More(clocks)
    /\ stop' = [why |-> call.kind, target |-> call.target]
    /\ call' = NoCall
    /\ UNCHANGED <<pc, clocks, breaks, nbreak, fast, cov>>

\* Faulty ReturnBreakpoint: notes the breakpoint and goes round again.
ReturnBreakpointLoops ==
    /\ Running /\ More(clocks) /\ AtBreak
    /\ UNCHANGED vars

ReturnBreakpoint ==
    /\ Running /\ More(clocks) /\ AtBreak
    /\ stop' = [why |-> "breakpoint", target |-> call.target]
    /\ call' = NoCall
    /\ UNCHANGED <<pc, clocks, breaks, nbreak, fast, cov>>

Turn ==
    \/ \E c \in 1 .. MaxCost : PlainTurn(c)
    \/ \E c \in 1 .. MaxCost : FastTurn(c)
    \/ ReturnDone
    \/ ReturnBreakpoint

Next ==
    \/ Turn
    \/ \E n \in FrameCalls : RunFrames(n)
    \/ \E n \in ClockCalls : RunClocks(n)
    \/ \E p \in Pcs, enabled \in BOOLEAN : SetBreakpoint(p, enabled)
    \/ ClearBreakpoints
    \/ \E f, c \in BOOLEAN : SetMode(f, c)
    \/ Reset
    \/ \E c \in 1 .. MaxCost : Step(c)

Spec == Init /\ [][Next]_vars

\* A run is a loop on the host's thread: once called it keeps turning.
FairSpec == Spec /\ WF_vars(Turn)

-----------------------------------------------------------------------------
TypeOK ==
    /\ pc \in Pcs
    /\ clocks \in Nat
    /\ breaks \in SUBSET Pcs
    /\ nbreak \in Nat
    /\ fast \in BOOLEAN /\ cov \in BOOLEAN
    /\ call \in {NoCall} \cup
                [kind : {"frames", "clocks"}, target : Nat, first : BOOLEAN]
    /\ stop \in [why : {"none", "frames", "clocks", "breakpoint"}, target : Nat]

\* The counter that decides whether breakpoints are looked at is their number.
BreaksCounted == nbreak = Cardinality(breaks)

\* run_frames returns in the frame asked for, not one later; run_clocks has run
\* the clocks asked for and overshoots by less than one instruction.
StopsOnTarget ==
    /\ stop.why = "frames" => FramesAt(clocks) = stop.target
    /\ stop.why = "clocks" => clocks \in stop.target .. stop.target + MaxCost - 1

\* The strengthening of StopsOnTarget: a call in progress has not overrun its
\* target, and no verdict is left from the run before.
CallBounded ==
    Running =>
        /\ stop.why = "none"
        /\ call.kind = "frames" => FramesAt(clocks) <= call.target
        /\ call.kind = "clocks" => clocks <= call.target + MaxCost - 1

IInv ==
    TypeOK /\ IsFiniteSet(breaks) /\ BreaksCounted /\ CallBounded /\ StopsOnTarget

\* No instruction at a breakpoint is executed but the first of a run.
NoBreakPassed ==
    [][clocks' # clocks /\ Running /\ pc \in breaks => call.first]_vars

\* Every call returns.
CallsReturn == Running ~> ~Running

=============================================================================
