------------------------------ MODULE MCBodies ------------------------------
(***************************************************************************)
(* What the compiler does with the body of a function, in three stages:    *)
(* the typer decides who owns what (Ownership), the body is lowered and    *)
(* optimized (Pipeline), and drops are placed (Drops).  A behaviour runs   *)
(* one of the stages on one of its bodies; the other two are idle.         *)
(***************************************************************************)
EXTENDS Integers, Sequences

VARIABLES body, phase, k, m,                    \* Ownership
          prog, fns, pass, round, changed,      \* Pipeline
          fn, stage, before, accepted           \* Drops

CB == INSTANCE CheckedBodies
PB == INSTANCE PipelineBodies

O == INSTANCE Ownership WITH Vars <- CB!MCVars, Strs <- CB!MCStrs, Params <- CB!MCParams,
                             Callees <- CB!MCCallees, Bodies <- CB!OwnershipBodies, Turns <- 2
P == INSTANCE Pipeline WITH phase <- pass, Programs <- PB!MCPrograms, Tapes <- PB!MCTapes,
                            Cancels <- 0..6, MaxRounds <- 8
D == INSTANCE Drops WITH Bodies <- CB!DropBodies, Answers <- CB!DropAnswers, MaxBlocks <- 12

NoOwnership == body = <<>> /\ phase = "idle" /\ k = <<>> /\ m = [bad |-> {}]
NoPipeline == prog = "none" /\ fns = <<>> /\ pass = "idle" /\ round = 0 /\ changed = FALSE
NoDrops == fn = <<>> /\ stage = "idle" /\ before = <<>> /\ accepted = TRUE

Init == \/ O!Init /\ NoPipeline /\ NoDrops
        \/ P!Init /\ NoOwnership /\ NoDrops
        \/ D!Init /\ NoOwnership /\ NoPipeline

ownership == <<body, phase, k, m>>
pipeline == <<prog, fns, pass, round, changed>>
drops == <<fn, stage, before, accepted>>

Next == \/ O!Next /\ UNCHANGED pipeline /\ UNCHANGED drops
        \/ P!Next /\ UNCHANGED ownership /\ UNCHANGED drops
        \/ D!Next /\ UNCHANGED ownership /\ UNCHANGED pipeline

Spec == Init /\ [][Next]_<<ownership, pipeline, drops>>
-----------------------------------------------------------------------------
\* A body the typer accepts never reads, drops or hands over a value it no
\* longer has, whatever path it takes (the gaps named in Ownership apart).
Sound == O!Sound

\* Every stage of lowering and optimizing hands on functions that pass
\* verify_function, whose phis have one operand for each predecessor and whose
\* loops pass a scheduler poll; and it keeps the effects and the result of the
\* source, for every answer to its conditions and every checkpoint it is
\* cancelled at.
Preserved == P!Verified /\ (pass # "idle" => P!Preserved)

\* The drop passes pass their own checks, free everything once, and nothing
\* early.
DropsRight == D!DropsRight
=============================================================================
